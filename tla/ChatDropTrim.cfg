SPECIFICATION Spec
CONSTANTS
    A = A
    B = B
    PageCap = 1
    RingMax = 2
    Chats = {A, B}
    Wants = {3}
    Setups <- DropTrimSetups
SYMMETRY Symmetry
INVARIANT AckedReadable
CHECK_DEADLOCK FALSE
