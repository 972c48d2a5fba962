SPECIFICATION Spec
CONSTANTS
    Frames = 8
    Programs <- MCPrograms
    ItemsOf <- MCItemsOf
    Universe <- MCUniverse
INVARIANTS
    SubtypingAgrees
    BoundsKept
    TypesHold
    RedefsKept
CHECK_DEADLOCK FALSE
