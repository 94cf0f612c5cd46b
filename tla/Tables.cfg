SPECIFICATION MCSpec
CONSTANTS
    None = None
    Calls = {c1, c2, c3}
    c1 = c1
    c2 = c2
    c3 = c3
    Names = {n1, n2, n3}
    n1 = n1
    n2 = n2
    n3 = n3
    FirstName = n1
    Two = {q1, q2}
    q1 = q1
    q2 = q2
    Scores = {1, 2, 3}
    Fields = {f1, f2}
    f1 = f1
    f2 = f2
    Values = {v1, v2}
    v1 = v1
    v2 = v2
    MaxId = 2
    Pages = {p1, p2}
    p1 = p1
    p2 = p2
    Settings = {s1, s2}
    s1 = s1
    s2 = s2
    Default = Default
SYMMETRY Symmetry
INVARIANTS
    NeverBelowFirst
    RanksAreStandard
    BestScoreKeptOneByOne
    ChangedAsAsked
    PagesShowStored
