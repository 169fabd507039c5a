SPECIFICATION WatchSpec
CONSTANTS
    None = None
    Cameras = {1, 2, 3}
    Configs = {a, b}
    MaxCameras = 2
    MaxChanges = 2
    MaxFaults = 2
    Events = {1, 2}
    Clients = {w1, w2}
    Supervisor = sup
    MaxRows = 1
    Batch = 2
    MaxLosses = 4
    Alarms = {e1}
    Processes = {p1, p2}
    Ladder <- TwoRungs
    Lookback = 2
    Cooldown = 2
    MaxTime = 3
    MaxFailures = 1
    MaxAnswers = 2
INVARIANTS AdmissionHolds  
PROPERTIES WatchedOrRejected ReplayedEventually AckStopsLadder 
CHECK_DEADLOCK FALSE
