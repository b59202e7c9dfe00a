--------------------------- MODULE MCBridgeClaims ---------------------------
(***************************************************************************)
(* ClaimFunding and the modules under it for TLC.                          *)
(*                                                                         *)
(* Escrows: one of a key holder, whose receive version has to be set for   *)
(* the release, and one of a Safe.  Allocations: two with a contract for   *)
(* ONE, paid by the same Safe on request, one where it is the same Safe    *)
(* anyway and there is one contract, and one built with another compiler.  *)
(*                                                                         *)
(* The contract: rows 0 and 1 pay the native coin, row 2 pays the wrapped  *)
(* coin as a token, so that all three draw on one approval and one         *)
(* balance, which is exactly what they add up to.                          *)
(***************************************************************************)
EXTENDS ClaimFunding, TLC

CONSTANTS weth, coin, one

Settings(version) == [uln |-> "none", executor |-> "none", trusted |-> "none", version |-> version]

MCEscrow == [pool |-> [owner |-> "key", settings |-> Settings(0), locked |-> 1],
             vault |-> [owner |-> "safe", settings |-> Settings(2), locked |-> 2]]

Pays(who, t, n) == [account |-> who, token |-> t, amount |-> n]

Allocation(rows, oneCustody, funders, bytecode) ==
    [rows |-> rows, claimable |-> [t \in {coin, weth, one} |-> Amount(Of(rows, t))],
     custody |-> "S", oneCustody |-> oneCustody, funders |-> funders, bytecode |-> bytecode]

MCAllocations ==
    {Allocation({Pays("p", coin, 1), Pays("q", weth, 1), Pays("p", one, 1)}, "T", [one |-> "S"], "pinned"),
     Allocation({Pays("p", coin, 2), Pays("q", one, 1)}, "T", [one |-> "S"], "pinned"),
     Allocation({Pays("p", coin, 1), Pays("p", one, 1)}, "S", <<>>, "pinned"),
     Allocation({Pays("p", coin, 1), Pays("q", one, 1)}, "T", <<>>, "other")}

MCMaxHeld == [t \in {coin, weth, one} |-> IF t = one THEN 1 ELSE 2]

MCToken == {weth}
MCFunds == [t \in {weth} |-> 4]
MCList == (0 :> Pays("safe", coin, 1)) @@ (1 :> Pays("exchange", coin, 2)) @@ (2 :> Pays("safe", weth, 1))

\* The approvals of the manifest: exactly the total of each token.
MCApproval == approvals_of({List[i] : i \in Row})

MCSubmitted ==
    [index : Row, proof : {"valid"}] \cup
    {[index |-> 0, proof |-> "other"], [index |-> claimCount, proof |-> "other"]}
=============================================================================
