\* Writes, swaps and increments race; transactions fail and answers get lost.
SPECIFICATION Spec
CONSTANTS
    Agents = {a1, a2}
    Values = {Empty, v1}
    Empty = Empty
    NoNote = NoNote
    TTLs = {0, 1}
    Steps <- BothWays
    Faults = {"txfail", "lost", "restart"}
    MaxInt = 2
    MaxClock = 2
    MaxEpochs = 1
INVARIANTS TypeOK NumbersUnique
PROPERTY LiveNoteKept
SYMMETRY Symmetry
