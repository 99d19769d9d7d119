SPECIFICATION Spec
CONSTANTS
    None = None
    Empty = Empty
    Default = Default
    Blank = Blank
    w1 = w1
    w2 = w2
    i1 = i1
    i2 = i2
    i3 = i3
    A = A
    B = B
    C = C
    g1 = g1
    g2 = g2
    u1 = u1
    u2 = u2
    Histories <- MCHistories
    Ids = {i1, i2, i3}
    Workers = {w1, w2}
    Faults = TRUE
INVARIANTS
    CoreIsNewest
    MembersHaveAuthority
