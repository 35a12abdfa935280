\* One cap, no reset: a waiter beside a free slot.
SPECIFICATION Spec
CONSTANTS
    r1 = r1
    r2 = r2
    r3 = r3
    r4 = r4
    Requests <- ThreeRequests
    Caps = {1}
    MaxQueue = 2
    MaxTimers = 1
    MaxResets = 0
INVARIANTS
    WaitsOnlyWhileClosed
