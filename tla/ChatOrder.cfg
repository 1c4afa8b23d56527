SPECIFICATION Spec
CONSTANTS
    A = A
    B = B
    PageCap = 1
    RingMax = 2
    Chats = {A, B}
    Wants = {3}
    Setups <- OrderSetups
SYMMETRY Symmetry
INVARIANT NewestKept
CHECK_DEADLOCK FALSE
