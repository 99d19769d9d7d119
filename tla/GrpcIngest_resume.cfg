SPECIFICATION MCSpec
CONSTANTS
    None = None
    a = a
    b = b
    w1 = w1
    w2 = w2
    MaxSlot = 3
    Blocks = {1, 3}
    Update <- MCUpdate
    SlotOf <- MCSlotOf
    StripeOf <- MCStripeOf
    Writers = {w1, w2}
    StartSlot = 1
INVARIANTS NoSilentLoss PendingIsInFlight
PROPERTIES KeepsContract StartedCatchesUp
