SPECIFICATION MCSpec
CONSTANTS
    None = None
    s1 = s1
    c1 = c1
    c2 = c2
    h1 = h1
    h2 = h2
    r1 = r1
    k1 = k1
    t1 = t1
    FirstSocket = k1
    SessionIds = {s1}
    Clients = {c1, c2}
    CallbackIds = {h1, h2}
    Requests = {r1}
    Sockets = {k1}
    Tokens = {t1}
    MaxInactivity = 1
    TokenLifetime = 0
SYMMETRY Symmetry
PROPERTIES
    SocketIsServed
