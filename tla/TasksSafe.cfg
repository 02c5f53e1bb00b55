\* Claims that lapse, are lost, finished and requeued, across failures.
SPECIFICATION Spec
CONSTANTS
    Agents = {a1, a2}
    Joiners = {a1, a2}
    TTLs = {1}
    Leases = {1}
    DefaultLease = 2
    Priorities = {0}
    NoAgent = NoAgent
    Faults = {"txfail", "lost", "die", "restart"}
    MaxTasks = 2
    MaxClaims = 2
    LastCall = 1
    MaxClock = 2
SYMMETRY Symmetry
INVARIANTS TypeOK OneFinish
PROPERTIES ClaimEnds WorkRefined
