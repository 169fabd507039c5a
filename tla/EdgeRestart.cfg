SPECIFICATION FairSpec
CONSTANTS
    None = None
    Cameras = {1, 2}
    Configs = {a, b}
    MaxCameras = 2
    MaxChanges = 1
    MaxFaults = 2
PROPERTY ServedOnce
CHECK_DEADLOCK FALSE
