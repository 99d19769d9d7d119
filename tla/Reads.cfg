SPECIFICATION Spec
CONSTANTS
    None = None
    Invalid = Invalid
    Nobody = Nobody
    Null = Null
    Empty = Empty
    a = a
    b = b
    c = c
    w1 = w1
    w2 = w2
    x = x
    y = y
    g = g
SYMMETRY Symmetric
INVARIANTS
    ListingIsExact
    PagedAsAsked
    FoundAsAsked
    ProofOfIndexedTree
PROPERTY
    ListedIsCurrent
