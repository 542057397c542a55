SPECIFICATION Spec
CONSTANTS
    hull = hull
    None = None
    Hulls <- MCHulls
    Pids <- MCPids
    Renew = TRUE
    Day = 2
    Renewal = 2
    MaxFaults = 3
    MaxTurns = 1
INVARIANTS TypeOK AloneAtTheHelm
PROPERTIES PairedIsFlown AuthorityEnds
