CONSTANTS
    u1 = u1  a1 = a1  a2 = a2  a3 = a3  k1 = k1  k2 = k2
    User = {u1}
    Socket <- OneUserSockets
    Owner <- OneUserOwner
    TimerSlot = {k1, k2}
    NoTimer = NoTimer
    MaxConnsPerUser = 2
    GracePeriod = 1
    ForcePeriod = 1
    ExpiredCap = 2
    ForceCap = 1
SPECIFICATION FairSpec
INVARIANTS ConnCount NeverStuckOnline
PROPERTIES EvictsOldest GoesOffline PresenceSpec
