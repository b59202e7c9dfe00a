----------------------------- MODULE MCAirdropRun -----------------------------
(* Two batches, one of two rows, sent by two wallets. *)
EXTENDS AirdropRun, TLC

CONSTANTS zero, reserve, airdrop, alice, bob, carol, w1, w2, treasury

B(rs, xs) == [recipients |-> rs, amounts |-> xs]

\* The recipients of a consolidated list are distinct.
MCPublished == 0 :> B(<<alice>>, <<1>>) @@ 1 :> B(<<bob, carol>>, <<1, 1>>)

MCAccount == {zero, reserve, airdrop, alice, bob, carol, w1, w2, treasury}

MCInitBalance == [a \in MCAccount |-> IF a = reserve THEN 5 ELSE 0]
=============================================================================
