SPECIFICATION TreeFairSpec
CONSTANTS
    MaxTip = 3
    SlotOf <- MCSlotOf
    Chunk = 2
    NumTries = 2
    MaxFound = 2
    Environments <- MCEnvironments
INVARIANTS BackfilledIsComplete OneStartingPoint
PROPERTIES GapIsFilled TreeIsReleased
CHECK_DEADLOCK FALSE
