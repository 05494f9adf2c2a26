CONSTANTS
    c1 = c1
    m1 = m1
    m2 = m2
    j1 = j1
    j2 = j2
    Messages = {m1, m2}
    Customers = {c1}
    From <- MCFrom
    Jobs = {j1, j2}
    About <- MCAbout
    Workers = {w1, w2}
    Convs = {v1, v2}
    MaxFailedTurns = 2
    MaxStarts = 2
    MaxFaults = 0
    MaxActs = 0
    None = None
SPECIFICATION Spec
SYMMETRY Symmetry
CHECK_DEADLOCK FALSE
INVARIANT DoneMeansReplied
