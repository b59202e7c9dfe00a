CONSTANTS
    weth = weth
    coin = coin
    one = one
    NATIVE = coin
    wrappedNative = weth
    OneToken = one
    NoFile = NoFile
    NoPlan = NoPlan
    claimCount = 3
    List <- MCList
    Token <- MCToken
    Funds <- MCFunds
    Approval <- MCApproval
    Submitted <- MCSubmitted
    MaxDepth = 2
    MaxBatch = 1
    MaxMistake = 1
    Escrow <- MCEscrow
    SafeOwner = {"safe"}
    Library = 2
    MaxPlans = 2
    MaxSetbacks = 1
    Allocations <- MCAllocations
    Custody = "S"
    Compiled = "pinned"
    MaxBuilds = 2
    MaxNonce = 3
    MaxSigned = 1
    MaxHeld <- MCMaxHeld
SPECIFICATION FundedSpec
INVARIANTS PaysEachRowOnce FunderPaysTheMarkedRows HoldsOnlyMistakes ReleaseRestores FundingIsSound
PROPERTY EveryRowIsPaid
