SPECIFICATION MCSpec
CONSTANTS
    None = None
    s1 = s1
    s2 = s2
    c1 = c1
    c2 = c2
    h1 = h1
    h2 = h2
    h3 = h3
    r1 = r1
    r2 = r2
    k1 = k1
    k2 = k2
    t1 = t1
    FirstSocket = k1
    SessionIds = {s1, s2}
    Clients = {c1, c2}
    CallbackIds = {h1, h2, h3}
    Requests = {r1, r2}
    Sockets = {k1, k2}
    Tokens = {t1}
    MaxInactivity = 1
    TokenLifetime = 0
SYMMETRY Symmetry
INVARIANTS
    TypeOK
    SubscriptionsSound
    ClientsKeptApartWhenCalm
PROPERTIES
    WatchedSessionKept
    GrantsSpec
    StrayConnectionsExplained
