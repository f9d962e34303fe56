SPECIFICATION Spec
CONSTANTS
    c1 = c1
    c2 = c2
    c3 = c3
    q1 = q1
    q2 = q2
    Command = {c1, c2, c3}
    SignIn = {c1, c2}
    Origin = {o1, o2}
    PidOf <- MCPidOf
    NoToken = NoToken
    Expiry = 3
    Interval = 1
CHECK_DEADLOCK FALSE
INVARIANTS
    TypeOK
    StoreSound
PROPERTIES
    PollsHonest
    CommandEnds
