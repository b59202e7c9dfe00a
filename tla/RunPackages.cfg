CONSTANTS
    Target = {ethereum, bsc}
    MaxGen = 3
SPECIFICATION FairSpec
INVARIANTS CurrentIsTheLastBuild NothingIsDeleted ListedAsAWhole RecoverCanFinish
PROPERTY QuarantineEnds
CHECK_DEADLOCK FALSE
