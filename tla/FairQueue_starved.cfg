\* Two requests of one tenant and one of each other; all fit.
SPECIFICATION BusySpec
CONSTANTS
    ra = ra
    rb = rb
    rc = rc
    rd = rd
    ta = ta
    tb = tb
    tc = tc
    Requests <- FourRequests
    Tenants <- ThreeTenants
    Cost <- CostOf
    TenantOf <- TenantsOf
    MaxSkips = 2
PROPERTIES
    EverybodyGetsATurn
