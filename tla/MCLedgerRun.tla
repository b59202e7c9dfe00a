----------------------------- MODULE MCLedgerRun -----------------------------
(***************************************************************************)
(* A small chain.  W is the wrapped coin's contract, L the bridge          *)
(* collateral, A a validator's account, B and Z wallets, C a contract; X   *)
(* and V are wallets of the exchange e1, Y is one of e2, N and S hold only *)
(* wrapped coins, S too few of them.  Two coins are the threshold.         *)
(***************************************************************************)
EXTENDS LedgerRun

MCLayerZero == {"L"}
MCOwner == <<"A">>
MCWindows == {1, 3}

Account(balance, code) == [balance |-> balance, code |-> code]
Stake(active, undelegation, reward) == [active |-> active, undelegation |-> undelegation, reward |-> reward]

MCChain ==
    [shard0 |-> [W |-> Account(5, "code"), L |-> Account(2, "code"), A |-> Account(1, "code"),
                 B |-> Account(1, "empty"), C |-> Account(2, "code"), X |-> Account(1, "empty"),
                 V |-> Account(2, "empty"), Y |-> Account(2, "empty"), Z |-> Account(1, "empty")],
     shard1 |-> [W |-> Account(1, ""), Z |-> Account(1, "empty")],
     staking |-> [A |-> Stake(1, 0, 0), B |-> Stake(1, 0, 0), X |-> Stake(1, 0, 1), Z |-> Stake(1, 0, 0)],
     receipts |-> {[to |-> "B", amount |-> 1, group |-> "pending"]},
     pending |-> 1, coverage |-> "complete"]

Submission(mode, format, wallets, destination) ==
    [mode |-> mode, format |-> format, received |-> TRUE,
     wallets |-> [a \in wallets |-> [shard0 |-> 1, shard1 |-> 0]], declared |-> 0,
     signed |-> <<>>, marked |-> {}, rolledBack |-> 0, withdrawn |-> 0, declaredTo |-> "",
     supplement |-> {}, destination |-> destination]

First == [Submission("aggregate_split", "csv_bybit_amount", {"X"}, [wallet |-> "D1", staking |-> "D2"])
          EXCEPT !.declared = 1, !.supplement = {"V"}]

MCWorld(second, review, existing, activity) ==
    [chain |-> MCChain,
     codes |-> [a \in {"N", "S"} |-> "empty"],
     holders |-> [N |-> 2, S |-> 1, W |-> 1, X |-> 1],
     order |-> <<"e1", "e2">>,
     submissions |-> [e1 |-> First, e2 |-> second],
     reported |-> [e2 |-> 3],
     review |-> [W |-> "other", L |-> "other", A |-> "validator-account", C |-> review],
     accounts |-> {"A"},
     existing |-> existing, caps |-> <<>>, leaks |-> <<>>,
     delegations |-> [p \in {<<1, "A">>, <<1, "B">>, <<1, "X">>, <<1, "Z">>} |-> 1],
     activity |-> [W |-> 3, L |-> 3, A |-> 3, B |-> 3, C |-> 3, V |-> 3, X |-> 3, Y |-> activity, Z |-> 3],
     base |-> {RouteRow(25, 400, "L", "shard0_liquid", 0, "wallet_first_pro_rata_vault", "layerzero",
                        Named("layerzero-nativeoft-custody"))},
     destinations |-> [d \in {<<"policy", "not-issuing">>, <<"policy", "wone-holder-redistribution">>} |->
                          IF d[2] = "not-issuing" THEN "not_issuing" ELSE "redistributed"],
     governors |-> <<>>, pending |-> {}]

\* e2 is paid to its own wallet, and the review of C changes.
Plain == MCWorld(Submission("same_address", "csv_okx_atto", {"Y"}, NoFile), "onewallet", <<>>, 3)

\* e2 has yet to name a destination, and then does; its wallet has signed for it.
Blank == MCWorld([Submission("aggregate", "xlsx_mexc_eip191", {"Y"}, NoFile)
                     EXCEPT !.signed = [Y |-> [by |-> "Y", names |-> {"D3"}]]], "multisig-wallet", <<>>, 3)

\* e2 is paid to its own wallets where they are active, to one place otherwise.  It finds another
\* wallet, with native or with wrapped coins, or an inventory turns out to hold Z.
Tiered == MCWorld(Submission("tiered", "xlsx_address", {"B", "Y"}, [aggregate |-> "D3"]), "other", <<>>, 1)

With(w, wallets) ==
    [w EXCEPT !.submissions.e2.wallets = [a \in wallets |-> [shard0 |-> 1, shard1 |-> 0]],
              !.reported.e2 = MapThenSumSet(LAMBDA a : Field(MCChain.shard0, a, "balance"), wallets)]

MCWorlds == {Plain, Blank, Tiered}

MCEdited(w) ==
    CASE w = Plain -> {[w EXCEPT !.review.C = "other"]}
      [] w = Blank -> {[w EXCEPT !.submissions.e2.destination = [aggregate |-> "D3"]]}
      [] w = Tiered -> {With(w, {"B", "Y", "S"}), With(w, {"B", "Y", "Z"}), [w EXCEPT !.existing = [Z |-> 2]]}
      [] OTHER -> {}
=============================================================================
