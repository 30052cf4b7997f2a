SPECIFICATION Spec
CONSTANTS
    u1 = u1
    u2 = u2
    u3 = u3
    o1 = o1
    o2 = o2
    s1 = s1
    i1 = i1
    i2 = i2
    t1 = t1
    r1 = r1
    None = None
    User <- TwoUsers
    Org <- OneOrg
    Session <- OneSession
    Invite <- OneInvite
    ResetToken <- OneToken
    Request <- OneRequest
    MaxVersion = 2
    MaxChanges = 2
INVARIANTS
    EndedSessionsAreRevoked
CHECK_DEADLOCK FALSE
