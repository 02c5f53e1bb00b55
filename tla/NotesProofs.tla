----------------------------- MODULE NotesProofs -----------------------------
(***************************************************************************)
(* What holds of Notes for every set of clients, values and TTLs, every    *)
(* bound and every choice of faults.                                       *)
(***************************************************************************)
EXTENDS Notes, FiniteSetTheorems, TLAPS

\* A number of an epoch before this one, or no greater than the counter.
Reached(k) == k[1] <= epoch /\ (k[1] = epoch => k[2] <= count)

\* Numbers on their way to an agent are new to everybody, and pairwise distinct.
NumbersOnTheWay ==
    /\ \A k \in numbers : Reached(k)
    /\ \A a \in Agents : pc[a] = "answer" => Reached(number[a]) /\ number[a] \notin numbers
    /\ \A a, b \in Agents :
          pc[a] = "answer" /\ pc[b] = "answer" /\ a # b => number[a] # number[b]

\* The inductive invariant.
IInv == TypeOK /\ NumbersOnTheWay /\ NumbersUnique

USE NoteConstants

\* The record constructors build what TypeOK asks for.
LEMMA Records ==
    /\ \A v \in Values, e \in Nat : Note(v, e) \in Row
    /\ \A v, x \in Values, t \in Nat : Call(v, x, t) \in Args
    /\ NoArgs \in Args
  BY DEF Note, Row, Call, Args, NoArgs

\* An upsert writes a row.
LEMMA UpsertTyped ==
    ASSUME TypeOK, NEW a \in Agents, Upsert(a)
    PROVE  note' \in Row
  <1>1. args[a].value \in Values /\ args[a].ttl \in Nat /\ now[a] \in Nat
    BY DEF TypeOK, Args
  <1>2. (IF args[a].ttl > 0 THEN now[a] + args[a].ttl ELSE 0) \in Nat
    BY <1>1
  <1> QED BY <1>1, <1>2, Records DEF Upsert

\* A call that ends leaves the local variables typed.
LEMMA ReturnTyped ==
    ASSUME TypeOK, NEW a \in Agents, Return(a)
    PROVE  /\ pc' \in [Agents -> {"idle", "set", "swap", "count", "answer"}]
           /\ now' \in [Agents -> 0..clock]
           /\ args' \in [Agents -> Args]
           /\ number' \in [Agents -> Nat \X Int]
  <1>1. args' \in [Agents -> Args]
    BY Records DEF TypeOK, Return
  <1>2. 0 \in 0..clock
    BY DEF TypeOK
  <1> QED BY <1>1, <1>2 DEF TypeOK, Return

LEMMA InitTyped == Init => TypeOK
  BY Records, FS_EmptySet DEF Init, TypeOK

LEMMA BeginTyped ==
    ASSUME TypeOK, NEW a \in Agents, NEW place \in {"set", "swap", "count"},
           NEW values \in Args, Begin(a, place, values)
    PROVE  TypeOK'
  <1>1. clock \in 0..clock
    BY DEF TypeOK
  <1>2. now' \in [Agents -> 0..clock]
    BY <1>1 DEF TypeOK, Begin
  <1>3. args' \in [Agents -> Args]
    BY DEF TypeOK, Begin
  <1> QED BY <1>2, <1>3 DEF TypeOK, Begin, told

\* Every step keeps the types.
LEMMA StepTyped == TypeOK /\ [Next]_vars => TypeOK'
  <1> SUFFICES ASSUME TypeOK, [Next]_vars PROVE TypeOK'
    OBVIOUS
  <1>1. ASSUME NEW a \in Agents, SetCall(a) PROVE TypeOK'
    <2>1. PICK v \in Values, t \in TTLs : Begin(a, "set", Call(v, Empty, t))
      BY <1>1 DEF SetCall
    <2>2. Call(v, Empty, t) \in Args
      BY Records
    <2> QED BY <2>1, <2>2, BeginTyped
  <1>2. ASSUME NEW a \in Agents, SwapCall(a) PROVE TypeOK'
    <2>1. PICK v \in Values, x \in Values, t \in TTLs : Begin(a, "swap", Call(v, x, t))
      BY <1>2 DEF SwapCall
    <2>2. Call(v, x, t) \in Args
      BY Records
    <2> QED BY <2>1, <2>2, BeginTyped
  <1>3. ASSUME NEW a \in Agents, CountCall(a) PROVE TypeOK'
    BY <1>3, Records, BeginTyped DEF CountCall
  <1>4. ASSUME NEW a \in Agents, SetNote(a) PROVE TypeOK'
    BY <1>4, UpsertTyped, ReturnTyped DEF TypeOK, SetNote, told
  <1>5. ASSUME NEW a \in Agents, SetNoteIf(a) PROVE TypeOK'
    <2>1. note' \in Row \cup {NoNote}
      BY <1>5, UpsertTyped DEF TypeOK, SetNoteIf
    <2> QED BY <1>5, <2>1, ReturnTyped DEF TypeOK, SetNoteIf, told
  <1>6. ASSUME NEW a \in Agents, DeleteNote(a) PROVE TypeOK'
    BY <1>6 DEF TypeOK, DeleteNote, calls, told
  <1>7. ASSUME NEW a \in Agents, NEW by \in Steps, Increment(a, by) PROVE TypeOK'
    <2>1. count + by \in Int /\ epoch' \in Nat
      BY <1>7 DEF TypeOK, Increment, Commit
    <2>2. <<epoch', count + by>> \in Nat \X Int
      BY <2>1
    <2> QED BY <1>7, <2>1, <2>2 DEF TypeOK, Increment, Commit
  <1>8. ASSUME NEW a \in Agents, Answer(a) PROVE TypeOK'
    <2>1. /\ numbers' \subseteq Nat \X Int
          /\ IsFiniteSet(numbers')
          /\ answers' \in Nat
      <3>1. numbers' = numbers \cup {number[a]} /\ answers' = answers + 1
        BY <1>8 DEF Answer
      <3>2. /\ numbers \subseteq Nat \X Int /\ IsFiniteSet(numbers)
            /\ answers \in Nat /\ number[a] \in Nat \X Int
        BY DEF TypeOK
      <3>3. IsFiniteSet(numbers')
        BY <3>1, <3>2, FS_AddElement
      <3>4. numbers' \subseteq Nat \X Int
        BY <3>1, <3>2, Zenon
      <3>5. answers' \in Nat
        BY <3>1, <3>2
      <3> QED BY <3>3, <3>4, <3>5
    <2> QED BY <1>8, <2>1, ReturnTyped DEF TypeOK, Answer
  <1>9. ASSUME NEW a \in Agents,
               TxFails(a) \/ Lost(a) \/ \E by \in Steps : Overflow(a, by)
        PROVE  TypeOK'
    BY <1>9, ReturnTyped DEF TypeOK, TxFails, Lost, Overflow, told
  <1>10. CASE Restart
    <2>1. args' \in [Agents -> Args]
      BY <1>10, Records DEF Restart
    <2>2. 0 \in 0..clock
      BY DEF TypeOK
    <2>3. now' \in [Agents -> 0..clock]
      BY <1>10, <2>2 DEF Restart
    <2> QED BY <1>10, <2>1, <2>3 DEF TypeOK, Restart, told
  <1>11. CASE Tick
    <2>1. clock' \in Nat /\ 0..clock \subseteq 0..clock'
      BY <1>11 DEF TypeOK, Tick
    <2> QED BY <1>11, <2>1 DEF TypeOK, Tick, calls, told
  <1>12. CASE UNCHANGED vars
    BY <1>12 DEF TypeOK, vars, calls, told
  <1> QED BY <1>1, <1>2, <1>3, <1>4, <1>5, <1>6, <1>7, <1>8, <1>9, <1>10, <1>11, <1>12
         DEF Next, IncrementCounter

\* A call that ends with nothing answered takes its number with it.
LEMMA ReturnNumbers ==
    ASSUME TypeOK, NumbersOnTheWay, NEW a \in Agents, Return(a), UNCHANGED <<count, told>>
    PROVE  NumbersOnTheWay'
  <1>1. \A b \in Agents : pc'[b] = "answer" => /\ b # a
                                               /\ pc[b] = "answer"
                                               /\ number'[b] = number[b]
    BY DEF TypeOK, Return
  <1> QED BY <1>1 DEF NumbersOnTheWay, Reached, told

\* The numbers: every step keeps them apart, and counts them.
LEMMA StepNumbers == IInv /\ [Next]_vars => (NumbersOnTheWay /\ NumbersUnique)'
  <1> SUFFICES ASSUME IInv, [Next]_vars PROVE (NumbersOnTheWay /\ NumbersUnique)'
    OBVIOUS
  <1> USE DEF IInv
  <1>1. ASSUME NEW a \in Agents, NEW place \in {"set", "swap", "count"}, NEW values,
               Begin(a, place, values)
        PROVE  (NumbersOnTheWay /\ NumbersUnique)'
    <2>1. \A b \in Agents : pc'[b] = "answer" => pc[b] = "answer" /\ number'[b] = number[b]
      BY <1>1 DEF TypeOK, Begin
    <2> QED BY <1>1, <2>1 DEF Begin, NumbersOnTheWay, NumbersUnique, Reached, told
  <1>2. ASSUME NEW a \in Agents, SetCall(a) \/ SwapCall(a) \/ CountCall(a)
        PROVE  (NumbersOnTheWay /\ NumbersUnique)'
    BY <1>1, <1>2 DEF SetCall, SwapCall, CountCall
  <1>3. ASSUME NEW a \in Agents,
               \/ SetNote(a) \/ SetNoteIf(a) \/ TxFails(a) \/ Lost(a)
               \/ \E by \in Steps : Overflow(a, by)
        PROVE  (NumbersOnTheWay /\ NumbersUnique)'
    <2>1. Return(a) /\ UNCHANGED <<count, told>>
      BY <1>3 DEF SetNote, SetNoteIf, TxFails, Lost, Overflow
    <2> QED BY <2>1, ReturnNumbers DEF NumbersUnique, told
  <1>4. ASSUME NEW a \in Agents, DeleteNote(a) PROVE (NumbersOnTheWay /\ NumbersUnique)'
    BY <1>4 DEF DeleteNote, NumbersOnTheWay, NumbersUnique, Reached, calls, told
  <1>5. ASSUME NEW a \in Agents, NEW by \in Steps, Increment(a, by)
        PROVE  (NumbersOnTheWay /\ NumbersUnique)'
    <2> DEFINE fresh == <<epoch', count'>>
    <2>1. /\ count' = count + by /\ number' = [number EXCEPT ![a] = fresh]
          /\ epoch' = IF by > 0 THEN epoch ELSE epoch + 1
          /\ numbers' = numbers /\ answers' = answers
      BY <1>5 DEF Increment, Commit
    <2>2. by \in Int /\ count \in Int /\ epoch \in Nat
      BY DEF TypeOK
    <2>3. ASSUME NEW k \in Nat \X Int, Reached(k)
          PROVE  Reached(k)' /\ k # fresh
      <3>1. k[1] \in Nat /\ k[2] \in Int
        BY <2>3
      <3>2. (epoch' = epoch /\ count' > count) \/ epoch' > epoch
        BY <2>1, <2>2
      <3> QED BY <2>1, <2>2, <2>3, <3>1, <3>2 DEF Reached
    <2>4. number'[a] = fresh
      BY <2>1 DEF TypeOK
    <2>5. Reached(number[a])'
      <3>1. number'[a][1] = epoch' /\ number'[a][2] = count' /\ epoch' \in Nat /\ count' \in Int
        BY <2>1, <2>2, <2>4
      <3> QED BY <3>1 DEF Reached
    <2>6. \A b \in Agents : b # a => pc'[b] = pc[b] /\ number'[b] = number[b]
      BY <1>5, <2>1 DEF TypeOK, Increment, Commit
    <2>7. \A k \in numbers : k \in Nat \X Int /\ Reached(k)
      BY DEF TypeOK, NumbersOnTheWay
    <2>8. \A b \in Agents : pc[b] = "answer" => /\ number[b] \in Nat \X Int
                                                /\ Reached(number[b])
                                                /\ number[b] \notin numbers
      BY DEF TypeOK, NumbersOnTheWay
    <2> HIDE DEF fresh
    <2>9. \A k \in numbers' : Reached(k)' /\ k # fresh
      BY <2>1, <2>3, <2>7
    <2>10. ASSUME NEW b \in Agents, b # a, pc'[b] = "answer"
           PROVE  Reached(number[b])' /\ number'[b] \notin numbers' /\ number'[b] # fresh
      BY <2>1, <2>3, <2>6, <2>8, <2>10
    <2> QED BY <2>1, <2>4, <2>5, <2>6, <2>9, <2>10 DEF NumbersOnTheWay, NumbersUnique, Reached
  <1>6. ASSUME NEW a \in Agents, Answer(a) PROVE (NumbersOnTheWay /\ NumbersUnique)'
    <2>1. /\ pc[a] = "answer"
          /\ numbers' = numbers \cup {number[a]}
          /\ answers' = answers + 1
          /\ count' = count /\ epoch' = epoch
      BY <1>6 DEF Answer
    <2>2. Reached(number[a]) /\ number[a] \notin numbers
      BY <2>1 DEF NumbersOnTheWay
    <2>3. Cardinality(numbers') = Cardinality(numbers) + 1
      BY <2>1, <2>2, FS_AddElement DEF TypeOK
    <2>4. \A b \in Agents : pc'[b] = "answer" => /\ b # a
                                                 /\ pc[b] = "answer"
                                                 /\ number'[b] = number[b]
      BY <1>6 DEF TypeOK, Answer, Return
    <2>5. NumbersOnTheWay'
      BY <2>1, <2>2, <2>4 DEF NumbersOnTheWay, Reached
    <2> QED BY <2>1, <2>3, <2>5 DEF NumbersUnique
  <1>7. CASE Restart
    <2>1. \A b \in Agents : pc'[b] # "answer"
      BY <1>7 DEF Restart
    <2> QED BY <1>7, <2>1 DEF Restart, NumbersOnTheWay, NumbersUnique, Reached, told
  <1>8. CASE Tick
    BY <1>8 DEF Tick, NumbersOnTheWay, NumbersUnique, Reached, calls, told
  <1>9. CASE UNCHANGED vars
    BY <1>9 DEF NumbersOnTheWay, NumbersUnique, Reached, vars, calls, told
  <1> QED BY <1>2, <1>3, <1>4, <1>5, <1>6, <1>7, <1>8, <1>9
         DEF Next, IncrementCounter

LEMMA Inductive == Spec => []IInv
  <1>1. Init => IInv
    BY InitTyped, FS_EmptySet DEF Init, IInv, NumbersOnTheWay, NumbersUnique, Reached
  <1>2. IInv /\ [Next]_vars => IInv'
    BY StepTyped, StepNumbers DEF IInv
  <1> QED BY <1>1, <1>2, PTL DEF Spec

\* Types, and no call ahead of the clock.
THEOREM TypeCorrect == Spec => []TypeOK
  <1>1. IInv => TypeOK
    BY DEF IInv
  <1> QED BY <1>1, Inductive, PTL

\* Increments that answer give the same number twice only across an increment by
\* zero or less, for any steps of either sign and any width of the integers.
THEOREM Unique == Spec => []NumbersUnique
  <1>1. IInv => NumbersUnique
    BY DEF IInv
  <1> QED BY <1>1, Inductive, PTL

\* A live note is live at every earlier second as well, so the swap compared
\* the value it replaces.
THEOREM Kept == Spec => LiveNoteKept
  <1> DEFINE Fact ==
        \A a \in Agents :
           ~Expired(clock) /\ note' # note /\ Swaps(a) => args[a].expected = note.value
  <1>1. TypeOK /\ [Next]_vars => Fact
    <2> SUFFICES ASSUME TypeOK, [Next]_vars, NEW a \in Agents,
                        ~Expired(clock), note' # note, Swaps(a)
                 PROVE  args[a].expected = note.value
      OBVIOUS
    <2>1. SetNoteIf(a)
      <3>1. ~(Restart \/ Tick \/ UNCHANGED vars)
        BY DEF Restart, Tick, vars
      <3>2. PICK b \in Agents : SetNote(b) \/ SetNoteIf(b) \/ DeleteNote(b)
        BY <3>1 DEF Next, SetCall, SwapCall, CountCall, Begin, IncrementCounter, Increment, Commit,
               Overflow, Answer, TxFails, Lost
      <3>3. ~DeleteNote(b)
        BY DEF DeleteNote, Swaps, calls
      <3>4. a = b
        BY <3>2, <3>3 DEF SetNote, SetNoteIf, Return, Swaps, TypeOK
      <3>5. ~SetNote(b)
        BY <3>4 DEF SetNote, Swaps
      <3> QED BY <3>2, <3>3, <3>4, <3>5
    <2>2. Current(now[a]) = args[a].expected
      BY <2>1 DEF SetNoteIf
    <2>3. note # NoNote /\ ~(note.expires # 0 /\ note.expires <= clock)
      BY DEF Expired
    <2>4. note.expires \in Nat /\ now[a] \in Nat /\ clock \in Nat /\ now[a] <= clock
      BY <2>3 DEF TypeOK, Row
    <2>5. ~Expired(now[a])
      BY <2>3, <2>4 DEF Expired
    <2> QED BY <2>2, <2>5 DEF Current
  <1> HIDE DEF Fact
  <1>2. TypeOK /\ [Next]_vars => [Fact]_vars
    BY <1>1
  <1>3. Spec => [][Fact]_vars
    BY <1>2, TypeCorrect, PTL DEF Spec
  <1> QED BY <1>3 DEF LiveNoteKept, Fact
===============================================================================
