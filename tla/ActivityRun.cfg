SPECIFICATION Spec
CONSTANTS
    PageSize = 2
    MaxPages = 2
    CutoffBlock <- MCCutoffBlock
    CutoffTime = 8
    Address = {1, 2, 3}
    Chunk = 2
    Worlds <- MCWorlds
    MaxKills = 1
    MaxEdits = 1
    None = None
INVARIANT EnrichedIsLatest
PROPERTY ActivityGetsKnown
CHECK_DEADLOCK FALSE
