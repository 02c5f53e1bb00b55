\* The service's process and one started by hand, each with one reaper.
SPECIFICATION FairSpec
CONSTANTS
    Procs = {svc, man}
    Service = svc
    Reapers = {r1}
    Clients = {c1}
    Nobody = Nobody
    NoFile = NoFile
    Empty = Empty
    MaxFaults = 1
INVARIANTS TypeOK NoReaperMidQuery ServesFile
PROPERTIES GraceKept Stops Returns

