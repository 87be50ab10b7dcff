CONSTANTS
    r1 = r1  r2 = r2  r3 = r3  r4 = r4  r5 = r5
    Request <- Five
    MaxRequests = 2
    Initial = 1
    PerStep = 2
SPECIFICATION FairSpec
INVARIANT NoSlotLost
PROPERTY WaiterServed
CHECK_DEADLOCK FALSE
