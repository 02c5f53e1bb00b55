\* Nobody registers.
SPECIFICATION Spec
CONSTANTS
    Agents = {a1, a2}
    Joiners = {}
    TTLs = {1}
    Leases = {0, 1}
    DefaultLease = 2
    Priorities = {0}
    NoAgent = NoAgent
    Faults = {}
    MaxTasks = 2
    MaxClaims = 2
    LastCall = 1
    MaxClock = 2
PROPERTY LeaseHonoured
