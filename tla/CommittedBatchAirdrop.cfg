SPECIFICATION DeployedSpec
CONSTANTS
  zero = zero
  reserve = reserve
  airdrop = airdrop
  alice = alice
  bob = bob
  ZeroAddress = zero
  Reserve = reserve
  Airdrop = airdrop
  Admin = reserve
  Account <- MCAccount
  BatchCount = 3
  Published <- MCPublished
  Submission <- MCSubmission
  WordBits = 2
  MaxUint = 7
  Amount = {0, 2, 5, 7}
  InitBalance <- MCInitBalance
  NoCall = NoCall
  MaxBatches = 5
  Content = {x, y}
  Decimals = 1
  WeightScale = 8
  Builds <- MCBuilds
  MaxBatchSize = 3
  MaxRuns = 2
  NoFiles = NoFiles
INVARIANTS
  PaidExactlyOnce
  ApprovalCapsSpending
  ReportsAreSound
  ProofsAdmitExactlyTheList
  VerifiedCopyIsWhatIsPaid
PROPERTY
  ExecuteIsAtomic
