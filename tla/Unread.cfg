SPECIFICATION Spec
CONSTANTS
    Direct = {1, 12}
    Groups = {1}
    MaxMessages = 2
    MaxEvents = 3
INVARIANTS
    TypeOK
    BadgeIsTrue
    DividerNotLate
    ReadWasShown
CHECK_DEADLOCK FALSE
