SPECIFICATION Spec
CONSTANTS
    A = A
    B = B
    PageCap = 2
    RingMax = 2
    Chats = {A, B}
    Wants = {3}
    Setups <- SoundSetups
SYMMETRY Symmetry
INVARIANTS TypeOK IndexAnswers IndexCounts RecentAnswers OneOwner TipsMatchChains AckedReadable KeepsMessages
PROPERTY ImplementsChatLog
CHECK_DEADLOCK FALSE
