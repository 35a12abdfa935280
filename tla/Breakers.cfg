\* Overlapping requests; or one request, and a registry that drops its breaker.
SPECIFICATION BreakersSpec
CONSTANTS
    r1 = r1
    r2 = r2
    r3 = r3
    s1 = s1
    s2 = s2
    s3 = s3
    quota = quota
    NoSlot = NoSlot
    NoRow = NoRow
    NoKind = NoKind
    FailureThreshold = 3
    DegradationThreshold = 2
    ResetTimeout = 1
    DefaultDegradation = 2
    DefaultReset = 1
    HalfOpenRequests = 2
    EscalationCount = 1
    MaxMultiplier = 2
    AgeBound = 2
    FailureBound = 3
    CycleBound = 3
    Accounts = 0
    Evictable = FALSE
    Kinds <- OneKind
    KindCooldown <- QuotaCooldown
    Requests <- ThreeRequests
    Combos <- OneCombo
    Forced <- OneForced
    Slots <- OneSlot
INVARIANTS
    TypeOK
    StateMatchesCount
    Durable
PROPERTIES
    GateSpec
    DroppedOpenEnds
