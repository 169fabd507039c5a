SPECIFICATION Spec
CONSTANTS
    Users = {u1}
    Sids = {s1, s2}
    Requests = {q1, q2}
    IdleTTL = 1
    MaxTTL = 2
    MaxClock = 2
    Attempts = {a1, a2}
    RateLimit = 3
    RateWindow = 2
    LockThreshold = 2
    LockTTL = 2
    LastTick = 4
    MaxRequests = 4
    Org = "org"
    Sites = {site}
    Cameras = {c1}
    Staff = {"user"}
    Rules = {"rule1"}
    SiteOf <- SiteOfCamera
    Operators = {op1, op2}
    ChatTurns = {t0}
    CompileTurns = {t1, t2, t3, t4}
    Conversation = {conv}
    MaxTurns = 2
    Turns = {turn1}
    Clicks = {click1, click2}
    RuleProposals = {"rule"}
    LinkProposals = {"link"}
    MaxIterations = 2
    Servers = {server1}
    Mornings = {7, 8}
    Evenings = {19}
    EventHours = {21, 23, 25, 28, 30}
    SampleCap = 3
    LastHour = 45
INVARIANTS SessionsSafe GuardsHold RecordsHold ConversationsHold ProposalsHold 
SYMMETRY Interchangeable
CHECK_DEADLOCK FALSE
