SPECIFICATION Spec
CONSTANTS
    None = None
    Site = site
    Cameras = {1, 2}
    Agents = {1, 2}
    Capacities = {1, 2}
    DefaultCapacity = 1
    Workers = {w1}
    Operations = {"register"}
    Outages = {}
    FirstSites = {site}
    FirstCameras = {}
    MaxEvents = 2
INVARIANTS EtagSound
CHECK_DEADLOCK FALSE
