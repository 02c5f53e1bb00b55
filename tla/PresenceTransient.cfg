\* One of the reaper's transactions fails.
SPECIFICATION FairSpec
CONSTANTS
    Names = {n1}
    Agents = {a1}
    TTLs = {5}
    NoRow = NoRow
    Spans = {1}
    Nobody = Nobody
    Crashes = TRUE
    MaxFaults = 1
    MaxGrants = 1
    LastCall = 0
    MaxClock = 2
PROPERTY TransientOnlyDelays
