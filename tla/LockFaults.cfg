\* Batches over two names, the presence reaper, failed transactions, broken
\* connections and restarts.
SPECIFICATION Spec
CONSTANTS
    Names = {n1, n2}
    Requests = {p1, p2, r1}
    Reapers = {r1}
    Agents = {p1, p2, r1}
    AgentOf <- OwnAgent
    TTLs = {1}
    Waits = {0, 2}
    MaxWait = 1
    Slack = 1
    NoRow = NoRow
    NoToken = NoToken
    Tools = {"lock", "many", "unlock", "release", "renew"}
    Faults = {"txfail", "disconnect", "crash", "second"}
    MaxGrants = 2
    MaxTickets = 1
    LastCall = 0
    MaxClock = 2
SYMMETRY Symmetry
INVARIANT TokensOwned
PROPERTIES LeaseRefined OwnerEndsLease
