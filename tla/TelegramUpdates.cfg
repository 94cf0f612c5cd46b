SPECIFICATION FairUpdatesSpec
CONSTANTS
    None = None
    s1 = s1
    c1 = c1
    h1 = h1
    h2 = h2
    r1 = r1
    k1 = k1
    k2 = k2
    t1 = t1
    u1 = u1
    Updates = {u1}
    SessionIds = {s1}
    Clients = {c1}
    CallbackIds = {h1, h2}
    Requests = {r1}
    Sockets = {k1, k2}
    Tokens = {t1}
    MaxInactivity = 2
    TokenLifetime = 1
INVARIANTS
    ShownOnce
PROPERTIES
    UnusedSessionGoes
    TokenLapses
    EveryMessageShown
