----------------------------- MODULE MCVaultRun ------------------------------
(* Two vaults with three deposits in two funding transactions, and one below the minimum. *)
EXTENDS VaultRun, TLC

CONSTANTS v1, v2, v3, alice, bob, reserve, r1, r2

MCList == <<v1, alice>> :> 2 @@ <<v1, bob>> :> 1 @@ <<v2, bob>> :> 2 @@ <<v3, alice>> :> 1

MCPart == <<v1, alice>> :> "fund-1" @@ <<v1, bob>> :> "fund-2" @@ <<v2, bob>> :> "fund-2" @@ <<v3, alice>> :> "fund-2"

TwoList == <<v1, alice>> :> 2 @@ <<v1, bob>> :> 1 @@ <<v3, alice>> :> 1

TwoPart == <<v1, alice>> :> "fund-1" @@ <<v1, bob>> :> "fund-2" @@ <<v3, alice>> :> "fund-2"

\* Enough for the deposits that reach the minimum, and no more.
Short == reserve :> 3 @@ alice :> 0 @@ bob :> 0

\* Where a build was told not to look, nothing is rejected that could be executed.
Bound == careful \/ dropped = 0

Symmetry == Permutations(Run)
=============================================================================
