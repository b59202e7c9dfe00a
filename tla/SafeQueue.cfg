SPECIFICATION PaymentSpec
CONSTANTS
  past = past
  p1 = p1
  p2 = p2
  r1 = r1
  r2 = r2
  twice = twice
  calls = calls
  dark = dark
  Id = {past, p1, p2}
  Content <- MCContent
  Transfers <- MCTransfers
  Plain <- MCPlain
  Readable <- MCReadable
  Payee = {1, 2, 3, 4}
  Sheets <- MCSheets
  Tolerance = 1
  DoNotPay = {}
  Reviewer = {r1, r2}
  History = {past}
  Past <- MCPast
  FirstNonce = 1
  MaxNonce = 2
  Decimals = 1
  WeightScale = 8
  Lists <- MCLists
  Selections <- MCSelections
  Splits <- MCSplits
  Own = {9}
  Foreign = {twice, calls, dark}
  MaxRounds = 2
SYMMETRY Symmetry
INVARIANTS
  NobodyPaidTwice
  SheetPaidExactly
  SelectionUsesTheBudget
CHECK_DEADLOCK FALSE
