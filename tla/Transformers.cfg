SPECIFICATION PartsSpec
CONSTANTS
    None = None
    Empty = Empty
    w1 = w1
    w2 = w2
    a1 = a1
    a2 = a2
    A = A
    B = B
    C = C
    u1 = u1
    u2 = u2
    Histories <- MCHistories
    Accounts = {a1, a2}
    Faults = TRUE
    Nil = Nil
    Truncated = Truncated
    Savers = {"reporter"}
    Inodes = {n1, n2, n3, n4}
    MaxSlot = 2
INVARIANTS
    MetadataIsNewest
    OwnerIsNewest
    SupplyIsNewest
    SettledIsComplete
    HandledAsExecuted
    PersistsAtomically
PROPERTY VisibleNeverBack
