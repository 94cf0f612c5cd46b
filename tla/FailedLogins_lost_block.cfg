SPECIFICATION MCSpec
CONSTANTS
    None = None
    Logins = {l1, l2}
    l1 = l1
    l2 = l2
    RowIds = {r1, r2, r3}
    r1 = r1
    r2 = r2
    r3 = r3
    MaxFailures = 3
    Block = 2
    MaxAttempts = 4
    Signups = {s1, s2, s3}
    s1 = s1
    s2 = s2
    s3 = s3
    Emails = {m1, m2}
    m1 = m1
    m2 = m2
PROPERTIES
    BlockLasts
