SPECIFICATION FairSpec
CONSTANTS
    None = None
    Site = site
    Cameras = {1, 2}
    Agents = {1}
    Capacities = {1, 2}
    DefaultCapacity = 1
    Workers = {w1, w2}
    Operations = {"create", "register", "update", "delete", "restore", "pin"}
    Outages = {"off"}
    FirstSites = {site, None}
    FirstCameras = {1}
    MaxEvents = 2
PROPERTY HealsItself
CHECK_DEADLOCK FALSE
