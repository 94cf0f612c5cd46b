SPECIFICATION MCSpec
CONSTANTS
    None = None
    Clients = {c1, c2, c3}
    c1 = c1
    c2 = c2
    c3 = c3
    Names = {n1, n2, n3}
    n1 = n1
    n2 = n2
    n3 = n3
    MaxInbox = 4
SYMMETRY Symmetry
INVARIANTS
    OneSeatEach
    ClosedLobbyIsHeld
    PagesCatchUp
