\* Enforcing, with the shared queue and with lanes and one request outside them,
\* from the start or after shadow mode.
SPECIFICATION FairSpec
CONSTANTS
    ra = ra
    rb = rb
    rc = rc
    rd = rd
    ta = ta
    tb = tb
    tc = tc
    default = default
    existing = existing
    Requests <- FourRequests
    Tenants <- AllTenants
    Cost <- CostOf
    MaxSkips = 2
    Configs <- Enforced
    FirstConfigs <- AtFirst
    TenantKey <- KeyOf
    DefaultTenant = default
    ExistingTenant = existing
    MaxLanes = 2
    IncreaseStep = 1
INVARIANTS
    TypeOK
    WaitersAreQueued
    CapacityUsed
PROPERTIES
    LeasesWithinLimit
    JumpsAreCounted
    WaiterAnswered
