\* A slot left behind by a re-poll that won at its first attempt.
SPECIFICATION GhostSpec
CONSTANTS
    Names = {n1}
    Requests = {p1, p2}
    Reapers = {}
    Agents = {p1, p2}
    AgentOf <- OwnAgent
    TTLs = {2}
    Waits = {1}
    MaxWait = 1
    Slack = 3
    NoRow = NoRow
    NoToken = NoToken
    Tools = {"lock", "unlock"}
    Faults = {}
    MaxGrants = 4
    MaxTickets = 3
    LastCall = 1
    MaxClock = 3
PROPERTY NoFullWaitOnFreeLock
