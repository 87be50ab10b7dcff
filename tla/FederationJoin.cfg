SPECIFICATION Spec
CONSTANTS
    ours = ours
    theirs = theirs
    third = third
    inviteA = inviteA
    inviteB = inviteB
    c1 = c1
    c2 = c2
    Server <- MCServer
    Invite = {inviteA, inviteB}
    IssuedBy <- MCIssuedBy
    MaxUses = 1
    Call = {c1, c2}
    MaxTokens = 2
    MaxFaults = 1
    MaxDeletes = 1
INVARIANTS TokensAgree InviteBound UsersKnown
SYMMETRY MCSymmetry
CHECK_DEADLOCK FALSE
