SPECIFICATION Spec
CONSTANTS
    People = {"boss", "guard"}
    Premises = {"north", "south", "base"}
    RoleOf <- Roles
    HomeOrg <- Homes
    OwnerOf <- Owners
    Posts = {post1, post2}
    AtSite <- LensAt
    Sightings <- Severities
    PageSize = 1
    TopCameras = 1
    MaxRows = 2
    MaxWorked = 2
    Lenses = {"n1", "s1", "b1"}
    Boxes = {"box"}
    SiteOfLens <- LensAt
    OrgOfBox <- BoxOwners
    Slots = 1
    MaxWrites = 4
    Sockets = {n1, n2, k3}
    WhoOf <- WhoConnects
    Casts = {post1, post2}
    Spots = {1, 2, 3}
    LastMinute = 3
    WithinMinutes = 2
    MAX_CHAIN = 3
    MaxSeen = 3
    MaxDrawn = 1
    Edits = {post1, post2, e3, e4}
    Numbers = {n1, n2}
    MAX_CONTACTS = 2
    MaxRules = 2
    MaxAdmin = 2
INVARIANTS   FeedHolds JourneyIsPath RuleFollowsContacts
SYMMETRY Interchangeable
CHECK_DEADLOCK FALSE
