\* Two limiters, the fair queue, a controller and the heavy bodies, one in a behaviour.
SPECIFICATION RoomsSpec
CONSTANTS
    r1 = r1
    r2 = r2
    r3 = r3
    r4 = r4
    Requests <- FourRequests
    Caps = {0, 1, 2}
    MaxQueue = 2
    MaxTimers = 1
    MaxResets = 1
    LimiterCaps = {1, 2}
    Depths = {0, 2}
    LimiterTimers = 2
    Tenants <- AllTenants
    MaxSkips = 2
    Queued <- FiveRequests
    CostOf <- CostsInQueue
    TenantOf <- TenantsInQueue
    Callers <- ThreeCallers
    Expense <- Costs
    TenantKey <- TenantsOfCallers
    Configs <- Modes
    DefaultTenant = default
    ExistingTenant = existing
    MaxLanes = 2
    IncreaseStep = 1
    Bodies <- FiveBodies
    Keys <- ThreeKeys
    KeyOf <- KeysOfBodies
    Weight <- Bytes
    Structural <- ByStructure
    MaxHeavy = 2
    MaxBytes = 3
    Headroom = 1
    MaxCursor = 4
    ra = ra
    rb = rb
    rc = rc
    rd = rd
    re = re
    ta = ta
    tb = tb
    tc = tc
    default = default
    existing = existing
    a1 = a1
    a2 = a2
    b1 = b1
    b2 = b2
    c1 = c1
    ka = ka
    kb = kb
    kc = kc
INVARIANTS
    TypeOK
    NoOrphanWaiter
    SlotAccounting
    RoomsTypeOK
    BooksAgree
    WakeupToCome
    TurnsAreTaken
    CapacityOffered
PROPERTIES
    GrantWithinCap
    OnlyResetForgets
    GateAnswers
    LimitersArePools
    ReservedFirst
    LimitRecovers
