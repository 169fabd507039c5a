SPECIFICATION MCSpec
CONSTANTS
    None = None
    Cameras = {1, 2, 3}
    Agents = {1, 2}
    Sites = {s1, s2}
    HomeSite = s1
    Capacities = {1, 2}
    MaxRounds = 2
INVARIANTS PolicyWhenDone Idempotent
PROPERTY ImplementsPromise
CHECK_DEADLOCK FALSE
