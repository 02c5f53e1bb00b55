\* A window of one second, whose deadline, expiry and horizon fall before
\* MaxClock, and a window that does not end within the run.
SPECIFICATION FairSpec
CONSTANTS
    Names = {n1}
    Requests = {p1, p2}
    Reapers = {}
    Agents = {p1, p2}
    AgentOf <- OwnAgent
    TTLs = {1}
    Waits = {1, 9}
    MaxWait = 9
    Slack = 1
    NoRow = NoRow
    NoToken = NoToken
    Tools = {"lock", "many", "unlock", "release", "renew"}
    Faults = {"disconnect", "second"}
    MaxGrants = 2
    MaxTickets = 2
    LastCall = 0
    MaxClock = 3
PROPERTIES CallsReturn ExpiredRowsGo AbandonedSlotsGo HeadIsWoken
