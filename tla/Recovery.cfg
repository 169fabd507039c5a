SPECIFICATION RecoverySpec
CONSTANTS
    Sweeps = {p1, p2}
    OrgOrder <- OrgOrderOf
    Events = {1, 2}
    OrgOf <- OrgOfEvent
    Objects = {"clip"}
    BatchLimit = 1
    Alerts = FALSE
    Demand = 4
    LoadCeiling = 3
    CameraCosts = {12, 20, 30, 60}
    Agreement = 3
    MaxShifts = 1
    MaxMisses = 1
    Analysts = {c1, c2}
    Permits = 1
    BreakAfter = 1
    Pause = 2
    TokenLife = 3
    Margin = 1
    Calls <- FiveCalls
    Sites = {"s1", "s2"}
    NoSite = "none"
    Org = "org"
    SiteOf <- SiteOfCall
    Cost <- CostOfCall
    OrgCap = 3
    SiteCap = 2
INVARIANTS  BudgetHolds
PROPERTIES PurgedEventually ShedsCalmly  RefusalsReturn
CHECK_DEADLOCK FALSE
