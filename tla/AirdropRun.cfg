SPECIFICATION RunSpec
CONSTANTS
  zero = zero
  reserve = reserve
  airdrop = airdrop
  alice = alice
  bob = bob
  carol = carol
  w1 = w1
  w2 = w2
  treasury = treasury
  ZeroAddress = zero
  Reserve = reserve
  Airdrop = airdrop
  Admin = reserve
  Elsewhere = treasury
  Wallet = {w1, w2}
  Slot = {1, 2}
  MaxFaults = 1
  Account <- MCAccount
  BatchCount = 2
  Published <- MCPublished
  Submission = {}
  WordBits = 2
  MaxUint = 7
  Amount = {4}
  InitBalance <- MCInitBalance
  NoCall = NoCall
INVARIANTS
  RecipientsPaidExactly
  RehearsalPredictsExecution
PROPERTY
  EverythingIsSent
