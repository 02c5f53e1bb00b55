\* One agent registers, locks, works, crashes; every reaper runs; a transaction
\* fails or the daemon restarts.
SPECIFICATION CoordFairSpec
CONSTANTS
    Names = {n1}
    Agents = {a1}
    TTLs = {1}
    NoRow = NoRow
    Spans = {2}
    Nobody = Nobody
    Crashes = TRUE
    MaxFaults = 1
    MaxGrants = 1
    LastCall = 1
    MaxClock = 2
    Leases = {0}
    DefaultLease = 5
    Priorities = {0}
    MaxTasks = 1
    MaxClaims = 1
    TaskFaults = {"die", "restart"}
    LastWork = 0
INVARIANT CoordTypeOK
PROPERTIES TimelyKeepsLocks TimelyKeepsWork TasksEnvironment DeadRecovered OrphansReturn
