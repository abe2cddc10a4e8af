SPECIFICATION Spec
CONSTANTS
    a1 = a1
    a2 = a2
    a3 = a3
    s1 = s1
    s2 = s2
    t1 = t1
    u1 = u1
    c1 = c1
    c2 = c2
    None = None
    Accounts = {a1, a2}
    Sessions = {s1, s2, t1}
    Characters = {c1, c2}
    SessionAccount <- MCSessionAccount
    CharAccount <- MCCharAccount
    Privileged = {}
    PlayerLimit = 1
    Tolerance = TRUE
    LoginAfterDC = TRUE
    OfflineTicks = 1
INVARIANTS
    OneCharacterPerAccount
