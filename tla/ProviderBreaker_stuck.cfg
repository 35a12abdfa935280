\* A probe whose client goes away.
SPECIFICATION Spec
CONSTANTS
    r1 = r1
    r2 = r2
    r3 = r3
    s1 = s1
    s2 = s2
    s3 = s3
    quota = quota
    NoSlot = NoSlot
    NoRow = NoRow
    NoKind = NoKind
    FailureThreshold = 2
    DegradationThreshold = 1
    ResetTimeout = 1
    DefaultDegradation = 1
    DefaultReset = 1
    HalfOpenRequests = 1
    EscalationCount = 1
    MaxMultiplier = 2
    AgeBound = 2
    FailureBound = 2
    CycleBound = 3
    Accounts = 1
    Evictable = FALSE
    Kinds <- OneKind
    KindCooldown <- QuotaCooldown
    Requests <- TwoRequests
    Combos <- OneCombo
    Forced = {}
    Slots <- OneSlot
INVARIANTS
    HalfOpenHasProbe
