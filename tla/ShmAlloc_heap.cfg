SPECIFICATION Spec
CONSTANTS
    ChunkBytes = 76
    Requests = {6, 12, 20}
    MaxUse = 2
INVARIANTS
    PayloadIntact
    Tiling
    Coalesced
    RefusedOnlyIfFull
CHECK_DEADLOCK FALSE
