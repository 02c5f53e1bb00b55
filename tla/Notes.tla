-------------------------------- MODULE Notes --------------------------------
(***************************************************************************)
(* The notes and the counters of internal/store/notes.go: one key and one  *)
(* counter, since keys and names share nothing.                            *)
(*                                                                         *)
(* A handler reads the clock, and runs its transaction later.  A counter's *)
(* new value is read back in the transaction and reaches the agent later   *)
(* still, or never.                                                        *)
(***************************************************************************)
EXTENDS Integers, FiniteSets

CONSTANTS
    Agents,      \* clients, one call at a time each
    Values,      \* what clients write and expect
    Empty,       \* the empty string
    NoNote,      \* no row for the key
    TTLs,        \* values of ttl_seconds; 0 is "never expires"
    Steps,       \* values of by: positive, zero and negative
    Faults,      \* which of "txfail", "lost" and "restart" may happen
    MaxInt,      \* the largest number of 64 bits
    MaxClock,    \* no second passes after this one
    MaxEpochs    \* increments by zero or less that are committed

ASSUME NoteConstants ==
    /\ Empty \in Values
    /\ NoNote \notin [value : Values, expires : Nat]
    /\ TTLs \subseteq Nat
    /\ Steps \subseteq Int
    /\ MaxInt \in Nat /\ MaxClock \in Nat /\ MaxEpochs \in Nat

VARIABLES
    clock,       \* seconds (db.go, Now)
    note,        \* the key's row; expires is 0 when the column is NULL
    count,       \* the counter's row, 0 when there is none
    pc,          \* where each agent's call is
    now,         \* the second it read
    args,        \* the value it writes, the value it expects, its TTL
    number,      \* the value it read back, with its epoch
    epoch,       \* increments so far that added nothing or less (a history)
    numbers,     \* counter values that reached an agent, each with its epoch
    answers      \* how many did (histories)

calls == <<pc, now, args, number>>
told  == <<epoch, numbers, answers>>
vars  == <<clock, note, count, calls, told>>

Row  == [value : Values, expires : Nat]
Note(value, expires) == [value |-> value, expires |-> expires]
Args == [value : Values, expected : Values, ttl : Nat]
Call(value, expected, ttl) == [value |-> value, expected |-> expected, ttl |-> ttl]
NoArgs == Call(Empty, Empty, 0)

Init ==
    /\ clock = 0 /\ note = NoNote /\ count = 0
    /\ pc = [a \in Agents |-> "idle"] /\ now = [a \in Agents |-> 0]
    /\ args = [a \in Agents |-> NoArgs] /\ number = [a \in Agents |-> <<0, 0>>]
    /\ epoch = 0 /\ numbers = {} /\ answers = 0

-----------------------------------------------------------------------------
(* Helpers *)

Expired(t) == note # NoNote => note.expires # 0 /\ note.expires <= t

\* What a reader sees at second t: an absent or expired note is "".
Current(t) == IF Expired(t) THEN Empty ELSE note.value

\* The upsert; a TTL of zero stores no expiry.
Upsert(a) ==
    note' = Note(args[a].value, IF args[a].ttl > 0 THEN now[a] + args[a].ttl ELSE 0)

Return(a) ==
    /\ pc' = [pc EXCEPT ![a] = "idle"]
    /\ now' = [now EXCEPT ![a] = 0]
    /\ args' = [args EXCEPT ![a] = NoArgs]
    /\ number' = [number EXCEPT ![a] = <<0, 0>>]

\* Mutant: the second is rounded up.
BeginAhead(a, place, values) ==
    /\ pc[a] = "idle"
    /\ pc' = [pc EXCEPT ![a] = place]
    /\ now' = [now EXCEPT ![a] = clock + 1]
    /\ args' = [args EXCEPT ![a] = values]
    /\ UNCHANGED <<clock, note, count, number, told>>

Begin(a, place, values) ==
    /\ pc[a] = "idle"
    /\ pc' = [pc EXCEPT ![a] = place]
    /\ now' = [now EXCEPT ![a] = clock]
    /\ args' = [args EXCEPT ![a] = values]
    /\ UNCHANGED <<clock, note, count, number, told>>

-----------------------------------------------------------------------------
(* set_note, set_note_if and delete_note *)

SetCall(a) ==
    \E value \in Values, ttl \in TTLs : Begin(a, "set", Call(value, Empty, ttl))

SetNote(a) ==
    /\ pc[a] = "set"
    /\ Upsert(a)
    /\ Return(a)
    /\ UNCHANGED <<clock, count, told>>

SwapCall(a) ==
    \E value, expected \in Values, ttl \in TTLs : Begin(a, "swap", Call(value, expected, ttl))

\* Mutant: a row about to expire counts as expired.
SwapWhenDue(a) ==
    /\ pc[a] = "swap"
    /\ IF Current(now[a] + 1) = args[a].expected THEN Upsert(a) ELSE UNCHANGED note
    /\ Return(a)
    /\ UNCHANGED <<clock, count, told>>

\* The read, the comparison and the write are one transaction.
SetNoteIf(a) ==
    /\ pc[a] = "swap"
    /\ IF Current(now[a]) = args[a].expected THEN Upsert(a) ELSE UNCHANGED note
    /\ Return(a)
    /\ UNCHANGED <<clock, count, told>>

\* The row goes, expired or not.
DeleteNote(a) ==
    /\ pc[a] = "idle"
    /\ note # NoNote
    /\ note' = NoNote
    /\ UNCHANGED <<clock, count, calls, told>>

-----------------------------------------------------------------------------
(* increment_counter *)

CountCall(a) == Begin(a, "count", NoArgs)

MinInt == -MaxInt - 1

\* From the upsert to the read-back it is one transaction.
Commit(a, by, sum) ==
    /\ by > 0 \/ epoch < MaxEpochs
    /\ epoch' = IF by > 0 THEN epoch ELSE epoch + 1
    /\ count' = sum
    /\ number' = [number EXCEPT ![a] = <<epoch', sum>>]
    /\ pc' = [pc EXCEPT ![a] = "answer"]
    /\ UNCHANGED <<clock, note, now, args, numbers, answers>>

Increment(a, by) ==
    /\ count + by \in MinInt..MaxInt
    /\ Commit(a, by, count + by)

\* SQLite turns a sum that 64 bits do not hold into a floating-point number; the
\* read-back cannot scan that into an int64, so the transaction rolls back.
Overflow(a, by) ==
    /\ count + by \notin MinInt..MaxInt
    /\ Return(a)
    /\ UNCHANGED <<clock, note, count, told>>

\* Mutant: the sum stays at the largest number.
Saturate(a) ==
    /\ pc[a] = "count"
    /\ \E by \in Steps : Commit(a, by, IF count + by <= MaxInt THEN count + by ELSE MaxInt)

IncrementCounter(a) ==
    /\ pc[a] = "count"
    /\ \E by \in Steps : Increment(a, by) \/ Overflow(a, by)

Answer(a) ==
    /\ pc[a] = "answer"
    /\ numbers' = numbers \cup {number[a]}
    /\ answers' = answers + 1
    /\ Return(a)
    /\ UNCHANGED <<clock, note, count, epoch>>

-----------------------------------------------------------------------------
(* What goes wrong, and the clock *)

\* A transaction that fails changes nothing and the call returns an error.
TxFails(a) ==
    /\ "txfail" \in Faults
    /\ pc[a] \in {"set", "swap", "count"}
    /\ Return(a)
    /\ UNCHANGED <<clock, note, count, told>>

\* The client's connection is gone before the answer.
Lost(a) ==
    /\ "lost" \in Faults
    /\ pc[a] = "answer"
    /\ Return(a)
    /\ UNCHANGED <<clock, note, count, told>>

\* The tables survive.
Restart ==
    /\ "restart" \in Faults
    /\ pc' = [a \in Agents |-> "idle"] /\ now' = [a \in Agents |-> 0]
    /\ args' = [a \in Agents |-> NoArgs] /\ number' = [a \in Agents |-> <<0, 0>>]
    /\ UNCHANGED <<clock, note, count, told>>

Tick ==
    /\ clock < MaxClock
    /\ clock' = clock + 1
    /\ UNCHANGED <<note, count, calls, told>>

Next ==
    \/ \E a \in Agents : \/ SetCall(a) \/ SwapCall(a) \/ CountCall(a)
                         \/ SetNote(a) \/ SetNoteIf(a) \/ DeleteNote(a)
                         \/ IncrementCounter(a) \/ Answer(a)
                         \/ TxFails(a) \/ Lost(a)
    \/ Restart \/ Tick

Spec == Init /\ [][Next]_vars

-----------------------------------------------------------------------------
(* Properties *)

\* Types.  A call never reads a second that is still to come.
TypeOK ==
    /\ clock \in Nat /\ note \in Row \cup {NoNote} /\ count \in Int
    /\ pc \in [Agents -> {"idle", "set", "swap", "count", "answer"}]
    /\ now \in [Agents -> 0..clock] /\ args \in [Agents -> Args]
    /\ number \in [Agents -> Nat \X Int]
    /\ epoch \in Nat /\ numbers \subseteq Nat \X Int /\ IsFiniteSet(numbers)
    /\ answers \in Nat

\* Two increments that answer give the same number only if, from the one to the
\* other, somebody incremented by zero or less: callers that add never share a
\* number, however their answers are delayed, whichever transactions fail, whenever
\* the daemon restarts and even at either end of 64 bits (IncrementCounter,
\* notes.go:180-202).  An increment by zero or less begins a new epoch; within one,
\* every answer has a number of its own.
NumbersUnique == Cardinality(numbers) = answers

\* The step ends a's set_note_if.
Swaps(a) == pc[a] = "swap" /\ pc'[a] = "idle"

\* A note that has not expired is replaced only by the call that owns the step:
\* a plain write, or a swap that named the very value it replaces; the second
\* the swap read may be long past (SetNoteIf, notes.go:116-123).
LiveNoteKept ==
    [][\A a \in Agents :
          ~Expired(clock) /\ note' # note /\ Swaps(a) => args[a].expected = note.value]_vars

===============================================================================
