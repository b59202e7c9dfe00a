SPECIFICATION Spec
CONSTANTS
    Minimum = 2
    WONE = "W"
    LayerZero <- MCLayerZero
    Excluded <- MCLayerZero
    NoFile = NoFile
    Windows <- MCWindows
    InitialSince = 3
    Cutoff = 5
    Validator = {1}
    Owner <- MCOwner
    Worlds <- MCWorlds
    Edited <- MCEdited
    MaxEdits = 1
    MaxFaults = 2
    MaxRefusals = 2
INVARIANTS
    EveryCoinHasOnePlace
    PlanPaysWhatWasOwned
    ExchangesArePaidApart
    VerdictNeedsNoCache
    OnePassRepairs
