SPECIFICATION Spec
CONSTANTS
    MaxInt = 15
    Minute = 3
    Exact = 8
    DefaultTTL = 2
    Numbers = {1, 2, 6, 11, 20}
    Names = {1, 2}
    MaxGrants = 2
    MaxClock = 3
INVARIANTS TypeOK SchemaMatches
PROPERTY LifetimeKept
