SPECIFICATION Spec
CONSTANTS
  v1 = v1
  v2 = v2
  v3 = v3
  alice = alice
  bob = bob
  reserve = reserve
  r1 = r1
  r2 = r2
  Zero = Zero
  Vault = {v1, v2, v3}
  Account = {alice, bob, reserve}
  MaxUint = 9
  Fees = {}
  MaxFee = 0
  Amounts = {}
  Holdings <- Short
  Safe = reserve
  List <- MCList
  Part <- MCPart
  MinVault = 2
  Run = {r1}
  Rpc = {TRUE}
  Allow = {FALSE}
  Sequential = TRUE
  Rest = 1
  MaxDropped = 1
INVARIANTS
  NothingStaysApproved
CHECK_DEADLOCK FALSE
