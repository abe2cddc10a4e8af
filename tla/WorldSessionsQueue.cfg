SPECIFICATION Spec
CONSTANTS
    a1 = a1
    a2 = a2
    a3 = a3
    s1 = s1
    s2 = s2
    t1 = t1
    u1 = u1
    c1 = c1
    c2 = c2
    None = None
    Accounts = {a1, a2, a3}
    Sessions = {s1, s2, t1, u1}
    Characters = {}
    SessionAccount <- MCSessionAccount
    CharAccount <- MCCharAccount
    Privileged = {}
    PlayerLimit = 1
    Tolerance = TRUE
    LoginAfterDC = TRUE
    OfflineTicks = 0
PROPERTIES
    ImplementsLoginQueue
