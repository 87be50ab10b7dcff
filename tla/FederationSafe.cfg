\* Two messages, two lost requests, a failure, a crash, a block.
SPECIFICATION Spec
CONSTANTS
    home = home
    peer = peer
    m1 = m1
    m2 = m2
    tick = tick
    recovery = recovery
    direct = direct
    noCall = noCall
    Server = {home, peer}
    Worker = {tick, recovery}
    Tick = tick
    Direct = direct
    NoCall = noCall
    Msg = {m1, m2}
    From <- TwoFrom
    To <- TwoTo
    Poison = {}
    BatchSize = 2
    MaxAttempts = 2
    MaxFaults = 1
    MaxLosses = 2
    MaxCrashes = 1
    MaxBlocks = 1
INVARIANTS
    TypeOK
    QueueIsOwed
    OnlyLostAnswersDuplicate
    OnlyRefusalsLose
SYMMETRY TwoSymmetry
