\* Two threads, two requests in flight, any three of: openings, a reload, a send,
\* a drop, a message from another tab.
CONSTANTS
    Peer = {alice, bob}
    Load = {l1, l2}
    NoPeer = NoPeer
    MaxRows = 2
    MaxOpens = 3
    MaxReloads = 1
    MaxSends = 1
    MaxDrops = 1
    MaxActs = 3
SPECIFICATION Spec
SYMMETRY ChatSymmetry
CHECK_DEADLOCK FALSE
INVARIANTS
    TypeOK
    SettledShowsAll
    ShownOnce
    NoPendingLeft
