SPECIFICATION Spec
CONSTANTS
    Tabs = {t1, t2}
    Tokens = {1, 2, 3, 4, 5, 6}
    MaxEvents = 3
INVARIANTS
    TypeOK
    KeptSignedIn
    StoredTokenLives
PROPERTIES
    RefreshEnds
CHECK_DEADLOCK FALSE
