CONSTANTS
    Target = {ethereum, bsc}
    MaxGen = 2
SPECIFICATION Spec
INVARIANT FailureUnlists
CHECK_DEADLOCK FALSE
