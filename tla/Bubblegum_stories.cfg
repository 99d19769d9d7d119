SPECIFICATION StorySpec
CONSTANTS
    Null = Null
    Saved = Saved
    x = x
    y = y
    z = z
    r = r
    w1 = w1
    w2 = w2
    Leaf = {x, y, z}
    Node = {x, y, z, r}
    PathOf <- MCPathOf
    Ix <- MCIx
    SeqOf <- MCSeqOf
    SlotOf <- MCSlotOf
    CreatorCount <- MCCreatorCount
    MaxCreators = 2
    KindOf <- MCKindOf
    LeafOf <- MCLeafOf
    Workers = {w1, w2}
    Decompressed = {z}
SYMMETRY MCSymmetry
INVARIANTS NewestWins CreatorsAreNewest DecompressionIsFinal LeafHasProof BackfillIsAccountedFor
