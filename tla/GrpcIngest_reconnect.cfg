SPECIFICATION LiveSpec
CONSTANTS
    None = None
    a = a
    b = b
    w1 = w1
    w2 = w2
    MaxSlot = 3
    Blocks = {1, 2, 3}
    Update <- MCUpdate
    SlotOf <- MCSlotOfAll
    StripeOf <- MCStripeOfAll
    Writers = {w1, w2}
    StartSlot = None
SYMMETRY MCSymmetry
PROPERTY ReconnectNeverSkips
