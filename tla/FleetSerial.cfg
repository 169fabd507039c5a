SPECIFICATION FairSpec
CONSTANTS
    None = None
    Site = site
    Cameras = {1, 2}
    Agents = {1, 2}
    Capacities = {1, 2}
    DefaultCapacity = 1
    Workers = {w1}
    Operations = {"create", "pin"}
    Outages = {"off", "cut"}
    FirstSites = {site}
    FirstCameras = {1}
    MaxEvents = 2
INVARIANT FleetSound
PROPERTY ConvergesWatched
CHECK_DEADLOCK FALSE
