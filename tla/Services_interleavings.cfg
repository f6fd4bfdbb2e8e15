SPECIFICATION Spec
CONSTANTS
    None = None
    Service = {"sessions", "signIn", "rates", "setup", "ingestion", "reports"}
    Requests = {q1, q2}
    Rotation = 4
    Grace = 3
    IdleLimit = 4
    Absolute = 6
    Flight = 1
    MaxClock = 6
    Identities = {u1, u2}
    Users = {u1, u2}
    UserOf <- UserNamed
    MaxAttempts = 3
    MaxCallbacks = 3
    Actors = {a1, a2}
    Keys = {k}
    Costs = {1}
    Policies <- TwoPolicies
    Overrides <- TwoGrants
    WindowLength = 2
    ChargeLife = 3
    MaxInstant = 3
    Scenarios <- QuotaScenarios
    Processes = {pa, pb}
    Values = {v, w}
    Default = d
    CacheTtl = 2
    CallTime = 1
    LastInstant = 3
    Plans <- AllPlans
    Administrators = {ua, ub}
    MaxCrashes = 1
    Runs = {r1, r2}
    MaxVersion = 3
    MaxWait = 2
    MaxFaults = 1
    Games = {1, 2}
    Bounds <- ReportBounds
CHECK_DEADLOCK FALSE
SYMMETRY Sym
INVARIANTS
    AuthenticationHolds
    ConfigurationHolds
    DataHolds
PROPERTIES
    ServiceStepsHold
