SPECIFICATION Spec
CONSTANTS
    Boxes = {b1, b2, b3}
    Orgs = {o1, o2}
    Claims = {1}
    PairCodes = {code}
    PairCodeOrg <- PairCodeOrgs
    CodeOf <- InstallerCodes
    MaxCrashes = 1
    NewCameras = {1, 2}
    Cams = {cam1, cam2}
    Servers = {"box"}
    Runs = {1, 2}
    Approvals = {k1}
    Configs = {1, 2}
    Commands = {1, 2}
    ScanCooldown = 2
    LastSecond = 4
    Prompts = {prompt1, prompt2}
    Fetches = {1, 2}
    Processes = {1, 2}
    Sockets = {socket1, socket2}
    Viewers = {1, 2}
    MaxSessions = 1
    Shots = 3
    PerFrame = 2
    QueueReady = TRUE
    Plans <- StepPlans
    Zones = {"a", "b"}
    Poses = {"sit", "stand"}
    AnyPose = "any"
    NoLimit = 0
    Interval = 1
    LostFrames = 1
    StateTTL = 2
    Frames = 6
    Crossings = 3
    Classes = {"person", "car", "bench"}
    Confidences = {1, 2, 3}
    GateZones = {"door"}
    EventTypes = {"person", "intrusion", "vehicle", "fire"}
    EscalateFloor = 2
    FastpathConfidence = 3
    Threshold = 2
    MaxDetections = 2
INVARIANTS ProvisioningSafe ResolvingHasJob SetupSafe  ControlSafe EventsHonest  CountedOnce GateHolds
SYMMETRY Interchangeable
 
CHECK_DEADLOCK FALSE
