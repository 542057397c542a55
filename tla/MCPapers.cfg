SPECIFICATION Spec
CONSTANTS
    Hulls <- MCHulls
    Piloted = {1}
    Desks = {app, mac}
    None = None
    k1 = k1
    k2 = k2
    Own <- MCOwn
    CoPilots = {c1, c2}
    MaxCommands = 2
    MaxMoves = 1
    MaxHauls = 1
    MaxRevoked = 1
    MaxFaults = 1
CONSTRAINT Apart
SYMMETRY Alike
INVARIANTS TypeOK WithinItsPapers 
CHECK_DEADLOCK FALSE
