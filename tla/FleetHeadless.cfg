SPECIFICATION FairSpec
CONSTANTS
    None = None
    Site = site
    Cameras = {1}
    Agents = {1, 2}
    Capacities = {1, 2}
    DefaultCapacity = 1
    Workers = {w1}
    Operations = {}
    Outages = {"headless"}
    FirstSites = {site}
    FirstCameras = {1}
    MaxEvents = 2
PROPERTIES WatchedEventually
CHECK_DEADLOCK FALSE
