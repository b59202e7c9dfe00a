SPECIFICATION Spec
CONSTANTS
  v1 = v1
  v2 = v2
  v3 = v3
  alice = alice
  bob = bob
  reserve = reserve
  r1 = r1
  r2 = r2
  Zero = Zero
  Vault = {v1, v3}
  Account = {alice, bob, reserve}
  MaxUint = 3
  Fees = {2, 3}
  MaxFee = 2
  Amounts = {1, 3}
  Holdings <- Short
  Safe = reserve
  List <- TwoList
  Part <- TwoPart
  MinVault = 2
  Run = {r1, r2}
  Rpc = {TRUE, FALSE}
  Allow = {TRUE, FALSE}
  Sequential = TRUE
  Rest = 1
  MaxDropped = 1
SYMMETRY Symmetry
CONSTRAINT Bound
INVARIANTS
  NeverCreditedTwice
  ReconcileOkMeansDone
  ReserveAccounted
  RebuildCompletes
CHECK_DEADLOCK FALSE
