SPECIFICATION Spec
CONSTANTS
    PAGE_SIZE = 300
    RECALL_DIM = 2
    Rows <- AllRows
    Fields <- SmallFields
    SectorSize = 100
    MaxPages = 2
    Setups <- SmallSetups
INVARIANTS TypeOK LayoutOK RowsAreKept FitsExactly VerifyFinds TornKeepsRows
CHECK_DEADLOCK FALSE
