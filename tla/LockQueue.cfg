\* One contended name, three agents that wait and re-poll, the reaper, and the
\* presence reaper.
SPECIFICATION Spec
CONSTANTS
    Names = {n1}
    Requests = {p1, p2, p3, r1}
    Reapers = {r1}
    Agents = {p1, p2, p3, r1}
    AgentOf <- OwnAgent
    TTLs = {1}
    Waits = {1}
    MaxWait = 1
    Slack = 1
    NoRow = NoRow
    NoToken = NoToken
    Tools = {"lock", "unlock", "release"}
    Faults = {}
    MaxGrants = 3
    MaxTickets = 2
    LastCall = 1
    MaxClock = 2
SYMMETRY Symmetry
INVARIANTS TypeOK AttachedKeepsPlace
