SPECIFICATION FileSpec
CONSTANTS
    Nil = Nil
    Truncated = Truncated
    Savers = {"reporter", "main"}
    Inodes = {i1, i2, i3, i4}
    MaxSlot = 2
SYMMETRY MCSymmetry
INVARIANT PersistsAtomically
