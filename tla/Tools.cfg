SPECIFICATION Spec
CONSTANTS
    s1 = s1
    s2 = s2
    c1 = c1
    c2 = c2
    c3 = c3
    None = None
    Calls = {c1, c2}
    Servers = {s1, s2}
    Secured = s1
    Tools = {"search", "code"}
    Builtin = {"code"}
    Offers <- MCOffers
    Modes = {"claim", "static"}
    Capacity = 1
    Lifetime = 2
    FetchTime = 1
    MaxClock = 3
    MaxFaults = 1
CHECK_DEADLOCK FALSE
INVARIANTS AskedOnce ClaimsReleased CapacityHeld
PROPERTIES ProviderKept TokenAlive CallsAnswered
