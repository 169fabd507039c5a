SPECIFICATION WatchSpec
CONSTANTS
    None = None
    Cameras = {}
    Configs = {a}
    MaxCameras = 1
    MaxChanges = 0
    MaxFaults = 0
    Events = {}
    Clients = {}
    Supervisor = sup
    MaxRows = 1
    Batch = 1
    MaxLosses = 0
    Alarms = {e1}
    Processes = {p1, p2}
    Ladder <- TwoRungs
    Lookback = 2
    Cooldown = 2
    MaxTime = 3
    MaxFailures = 0
    MaxAnswers = 0
INVARIANT NeverSentTwice
CHECK_DEADLOCK FALSE
