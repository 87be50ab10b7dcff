\* Two messages, one of which the peer can never store, and a crash.
SPECIFICATION FairSpec
CONSTANTS
    home = home
    peer = peer
    m1 = m1
    m2 = m2
    tick = tick
    recovery = recovery
    direct = direct
    noCall = noCall
    Server = {home, peer}
    Worker = {tick, recovery}
    Tick = tick
    Direct = direct
    NoCall = noCall
    Msg = {m1, m2}
    From <- TwoFrom
    To <- TwoTo
    Poison = {m2}
    BatchSize = 2
    MaxAttempts = 1
    MaxFaults = 0
    MaxLosses = 2
    MaxCrashes = 1
    MaxBlocks = 0
PROPERTIES
    QueueDrains
