----------------------------- MODULE StagePolicy -----------------------------
(***************************************************************************)
(* Which qualified addresses are credited as they are, which are contracts *)
(* under review and which are kept out (the exchanges' wallets):           *)
(*   apply-eligibility-policy.py, verify-eligibility-policy.py             *)
(* Which part of every qualified claim is issued, and in which stage:      *)
(*   summarize-claim-activity.py      how many were active in each window  *)
(*   build-migration-stage-policy.py  the stage of every qualified address *)
(*   verify-migration-stage-policy.py the policy against the routing       *)
(* A row of the activity file is a row of the migration ledger with        *)
(* `activity', the time of the last activity (0 for none).  The review     *)
(* gives the class of every qualified address with code.                   *)
(***************************************************************************)
EXTENDS NativeClaims

CONSTANTS
    Windows,      \* the times the activity windows open
    InitialSince  \* the one of the initial stage

ASSUME StageAssumption == Windows \subseteq Nat \ {0} /\ InitialSince \in Windows

(***************************************************************************)
(* Eligibility.  The qualified ledger with its activity is `rows';         *)
(* `accounts' are the validator accounts: addresses with code that count   *)
(* as wallets.                                                             *)
(***************************************************************************)
Label(rows, accounts, excluded, a) ==
    IF a \in excluded THEN "excluded_address"
    ELSE IF a \in accounts THEN "automatic"
    ELSE IF code_bearing(rows[a]) THEN "contract_review"
    ELSE "automatic"

Qualified(rows) == {a \in DOMAIN rows : rows[a].qualification >= Minimum}

\* Every address named must be there, and an account that is waved through must have code.
apply_eligibility_policy(rows, accounts, excluded) ==
    LET qualified == Qualified(rows)
        Rows(label) == [a \in {b \in qualified : Label(rows, accounts, excluded, b) = label} |-> rows[a]]
    IN  Result(/\ \A a \in DOMAIN rows : rows[a].code0 # ""
                                         /\ rows[a].wallet + rows[a].staked = rows[a].total
               /\ \A a \in (accounts \ excluded) \cap qualified : code_bearing(rows[a])
               /\ excluded \subseteq qualified
               /\ accounts \ excluded \subseteq qualified,
               [automatic |-> Rows("automatic"), contract_review |-> Rows("contract_review"),
                excluded_address |-> Rows("excluded_address")])

PolicySummary(rows, accounts, excluded, categories) ==
    [input |-> rows, accounts |-> accounts, excluded |-> excluded, categories |-> categories,
     totals |-> [c \in DOMAIN categories |-> Total(categories[c], LAMBDA r : r.total)]]

\* read_category: the rows of a file, each fit to be there.
read_category(file, expected, active) ==
    /\ \A a \in DOMAIN file :
         /\ file[a].wallet + file[a].staked = file[a].total
         /\ file[a].qualification >= Minimum
         /\ file[a].code0 # ""
         /\ expected = "automatic" => (code_bearing(file[a]) <=> a \in active)
         /\ expected = "contract_review" => code_bearing(file[a]) /\ a \notin active
    /\ expected = "automatic" => active \subseteq DOMAIN file

\* verify-eligibility-policy: the files against the summary, the ledger and the sources.
verify_eligibility_policy(rows, accounts, excluded, categories, policy) ==
    LET files == {"automatic", "contract_review", "excluded_address"}
        active == accounts \ excluded
    IN  Result(/\ excluded = policy.excluded
               /\ accounts = policy.accounts
               /\ \A c \in files : read_category(categories[c], c, active)
               /\ \A c, d \in files : c # d => DOMAIN categories[c] \cap DOMAIN categories[d] = {}
               /\ UNION {DOMAIN categories[c] : c \in files} = Qualified(rows)
               /\ DOMAIN categories["excluded_address"] = excluded \cap Qualified(rows)
               /\ \A a \in DOMAIN rows : rows[a].code0 # ""
               /\ \A c \in files : categories[c] = policy.categories[c],
               [input |-> rows, policy |-> policy, output |-> categories])

-----------------------------------------------------------------------------
(* Stages. *)

\* summarize-claim-activity; `enriched' is the output that the enrichment summary names.
summarize(rows, enriched, cutoff) ==
    LET Of(S) == [accounts |-> Cardinality(S), total |-> MapThenSumSet(LAMBDA a : rows[a].total, S)]
    IN  Result(/\ enriched = rows
               /\ \A a \in DOMAIN rows : /\ rows[a].qualification >= Minimum
                                         /\ rows[a].wallet + rows[a].staked = rows[a].total
                                         /\ rows[a].activity <= cutoff,
               [input |-> rows,
                all |-> Of(DOMAIN rows),
                found |-> Of({a \in DOMAIN rows : rows[a].activity > 0}),
                windows |-> [w \in Windows |-> Of({a \in DOMAIN rows : rows[a].activity >= w})]])

-----------------------------------------------------------------------------
\* What is left of a claim is taken from the stake only once the wallet is used up.
split_final_components(wallet, staked, final) ==
    LET deduction == wallet + staked - final
        kept == IF wallet > deduction THEN wallet - deduction ELSE 0
    IN  [wallet |-> kept, staked |-> final - kept]

\* Mistaken variant of wallet_stage: the threshold is not looked at again after the deductions.
wallet_stage_gross(allocation, net, activity) ==
    CASE allocation = 0 -> ""
      [] allocation > 0 /\ activity >= InitialSince -> "initial"
      [] OTHER -> "deferred"

wallet_stage(allocation, net, activity) ==
    CASE allocation = 0 -> ""
      [] allocation > 0 /\ net >= Minimum /\ activity >= InitialSince -> "initial"
      [] OTHER -> "deferred"

\* [group, stage] of a reviewed contract; a validator's account is a wallet.
contract_policy(a, class) ==
    CASE class = "multisig-wallet" -> [group |-> "multisig", stage |-> "next_stage"]
      [] class = "onewallet" -> [group |-> "onewallet", stage |-> "next_stage"]
      [] class \notin {"multisig-wallet", "onewallet"} /\ a \in LayerZero ->
             [group |-> "layerzero_bridge_collateral", stage |-> "next_stage"]
      [] class = "smartvault-wallet" /\ a \notin LayerZero -> [group |-> "smartvault", stage |-> ""]
      [] OTHER -> [group |-> "other_reviewed_contract", stage |-> ""]

\* `in' is the record of the inputs: [activity, actsum, migsum, review, existing, historical,
\* manual]; existing and historical are the amounts withheld, manual the exchanges' wallets.
Genuine(in, a) == a \in DOMAIN in.review /\ in.review[a] # "validator-account"

BeforePolicy(in, a) ==
    in.activity[a].total - At(in.existing, a) - At(in.historical, a)
    - (IF a = WONE THEN in.migsum.reserve ELSE 0)

\* A turn of the loop over the qualified rows.
StageRow(in, a) ==
    LET r == in.activity[a]
        net == r.qualification - At(in.existing, a) - At(in.historical, a)
        policy == contract_policy(a, in.review[a])
        stage == IF Genuine(in, a) THEN policy.stage
                 ELSE wallet_stage(BeforePolicy(in, a), net, r.activity)
        allocation == IF Genuine(in, a) /\ stage = "" THEN 0 ELSE BeforePolicy(in, a)
        parts == split_final_components(r.wallet, r.staked, allocation)
    IN  [classification |-> IF Genuine(in, a) THEN "genuine_contract"
                            ELSE IF a \in DOMAIN in.review THEN "validator_wallet" ELSE "wallet",
         group |-> IF Genuine(in, a) THEN policy.group ELSE "wallet",
         category |-> IF Genuine(in, a) THEN "contract_policy"
                      ELSE IF a \in in.manual THEN "exchange_or_manual" ELSE "automatic_policy",
         stage |-> stage,
         treatment |-> IF allocation > 0 THEN "issue" ELSE "not_issued",
         qualification |-> r.qualification, gross |-> r.total,
         existing |-> At(in.existing, a), historical |-> At(in.historical, a),
         offset |-> IF a = WONE THEN in.migsum.reserve ELSE 0,
         contract |-> BeforePolicy(in, a) - allocation,
         allocation |-> allocation, wallet |-> parts.wallet, staked |-> parts.staked,
         activity |-> r.activity]

StageTotal(rows, stage) == Total(rows, LAMBDA r : IF r.stage = stage THEN r.allocation ELSE 0)

\* The wallets that meet the threshold once the deductions are made.
QualifyingWallets(rows) ==
    {a \in DOMAIN rows : /\ rows[a].classification # "genuine_contract"
                         /\ rows[a].allocation > 0
                         /\ rows[a].qualification - rows[a].existing - rows[a].historical >= Minimum}

\* The summary: what main adds up, and the hashes of its sources and its output.
StageSummary(in, rows) ==
    LET Wallets(S) == MapThenSumSet(LAMBDA a : rows[a].allocation, S)
        qualifying == QualifyingWallets(rows)
        exclusions == SumFunction(in.existing) + SumFunction(in.historical) + in.migsum.retained
                      + Total(rows, LAMBDA r : r.contract)
        total == in.migsum.nativeTotal - exclusions
        contracts == Total(rows, LAMBDA r : IF r.classification = "genuine_contract" THEN r.allocation ELSE 0)
        below == total - Wallets(qualifying) - contracts
        older == Wallets({a \in qualifying : rows[a].activity < InitialSince})
    IN  [sources |-> in, output |-> rows,
         rows |-> [s \in {rows[a].stage : a \in DOMAIN rows} \ {""} |->
                      Cardinality({a \in DOMAIN rows : rows[a].stage = s})],
         native |-> in.migsum.nativeTotal, exclusions |-> exclusions, total |-> total,
         below |-> below, initial |-> Wallets({a \in qualifying : rows[a].stage = "initial"}),
         next |-> contracts, deferred |-> below + older]

\* main: the checks of the inputs, of the rows and of the sums, then the three files.
StagePolicyFiles(in, rows, summary) ==
    LET contracts == {a \in DOMAIN in.review : Genuine(in, a)}
    IN  Result(/\ in.actsum.input = in.activity
               /\ DOMAIN in.existing \cap DOMAIN in.historical = {}
               /\ in.migsum.reserve = in.migsum.delivered + in.migsum.retained
               /\ \A a \in DOMAIN in.activity :
                    LET r == in.activity[a] IN
                    /\ r.qualification >= Minimum
                    /\ r.wallet + r.staked = r.total
                    /\ BeforePolicy(in, a) >= 0
               /\ in.actsum.all.accounts = Cardinality(DOMAIN rows)
               /\ DOMAIN in.review \subseteq DOMAIN rows
               /\ LayerZero \subseteq contracts
               /\ in.manual \cap contracts = {}
               /\ in.manual \subseteq DOMAIN rows
               /\ summary.below >= 0
               /\ summary.initial + summary.next + summary.deferred = summary.total
               /\ Total(rows, LAMBDA r : r.gross) = in.actsum.all.total,
               [rows |-> rows, summary |-> summary])

build_migration_stage_policy(in) ==
    LET rows == [a \in DOMAIN in.activity |-> StageRow(in, a)]
    IN  StagePolicyFiles(in, rows, StageSummary(in, rows))

-----------------------------------------------------------------------------
\* A row that verify-migration-stage-policy accepts.
StageRowOk(r) ==
    LET meets == r.qualification - r.existing - r.historical >= Minimum
        active == r.activity > 0 /\ r.activity >= InitialSince
        wallet == r.classification \in {"wallet", "validator_wallet"}
    IN  /\ r.qualification >= Minimum
        /\ \A n \in {r.gross, r.existing, r.historical, r.offset, r.contract, r.allocation, r.wallet, r.staked} : n >= 0
        /\ r.gross - r.existing - r.historical - r.offset - r.contract = r.allocation
        /\ r.wallet + r.staked = r.allocation
        /\ r.treatment = "issue" => r.stage \in {"initial", "next_stage", "deferred"} /\ r.allocation > 0
        /\ r.treatment = "not_issued" => r.stage = "" /\ r.allocation = 0
        /\ r.stage = "initial" => wallet /\ active /\ meets
        /\ ~ (r.stage = "deferred" /\ wallet /\ active /\ meets)

\* `routing' is the summary of apply-routes; `current' the sources as they are now.
verify_migration_stage_policy(rows, summary, routing, current) ==
    LET Overridden(stage) == At(routing.overrides, stage) IN
    /\ summary.output = rows
    /\ routing.stages = rows
    /\ summary.sources = current
    /\ \A a \in DOMAIN rows : StageRowOk(rows[a])
    /\ DOMAIN summary.rows = {rows[a].stage : a \in DOMAIN rows} \ {""}
    /\ \A s \in DOMAIN summary.rows : summary.rows[s] = Cardinality({a \in DOMAIN rows : rows[a].stage = s})
    /\ summary.native - summary.exclusions = summary.total
    /\ summary.initial + summary.next + summary.deferred = summary.total
    /\ {"exchange_manual", "initial", "next_stage", "deferred"} \subseteq DOMAIN routing.totals
    /\ routing.totals["exchange_manual"] = SumFunction(routing.overrides)
    /\ routing.exchange = "ready"
    /\ StageTotal(rows, "initial") = summary.initial /\ StageTotal(rows, "next_stage") = summary.next
    /\ \A s \in {"initial", "next_stage", "deferred"} :
         routing.totals[s] = StageTotal(rows, s) - Overridden(s)
    /\ routing.notIssued = summary.exclusions
=============================================================================
