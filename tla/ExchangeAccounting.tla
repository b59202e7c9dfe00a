-------------------------- MODULE ExchangeAccounting --------------------------
(***************************************************************************)
(* The exchanges are paid by hand, out of the reserve of 2050.             *)
(*   build-exchange-accounting.py     what each wallet of an exchange is   *)
(*                                    owed and the routes that take it out *)
(*                                    of the airdrop                       *)
(*   verify-exchange-routing.py       the routes against the compiled rows *)
(*   build-exchange-native-policy.py  the transfers to be made             *)
(* The accounting is run twice: before the eligibility policy, which needs *)
(* its list of wallets, and after the stage policy, which its routes need. *)
(* Memos, reports and statistics are left out.                             *)
(***************************************************************************)
EXTENDS ExchangeWallets, RoutingInputs

ManualPriority == 300

\* `in' is [order, normalized, normsum, claims, holders, activity, categories, stages]; the
\* last two are NoFile on the first run.
NormalizedOk(in) ==
    LET ids == Range(in.order) IN
    /\ ids \subseteq DOMAIN in.normsum.exchanges
    /\ \A e \in ids : in.normalized[e] = in.normsum.exchanges[e].output
    /\ \A e, f \in ids : e # f => DOMAIN in.normalized[e] \cap DOMAIN in.normalized[f] = {}

CategoryOf(in, a) ==
    IF in.categories = NoFile THEN ""
    ELSE IF \E c \in Categories : a \in DOMAIN in.categories[c]
    THEN CHOOSE c \in Categories : a \in DOMAIN in.categories[c] ELSE ""

NoClaim(wone) ==
    [wone |-> wone, woneAirdrop |-> 0, wallet |-> 0, staked |-> 0, total |-> 0, nativeWallet |-> 0,
     nativeTotal |-> 0, qualification |-> wone, l0 |-> 0, l1 |-> 0, receipt |-> 0,
     undelegation |-> 0, reward |-> 0]

\* claim_values: a wallet without a claim is owed nothing; stake, undelegations and rewards are
\* the staking part, the rest is the wallet part.
claim_values(in, a) ==
    LET wone == At(in.holders, a)
        r == IF a \in DOMAIN in.claims THEN in.claims[a] ELSE NoClaim(wone)
    IN  [present |-> a \in DOMAIN in.claims, wone |-> wone, claimWone |-> r.wone,
         woneAirdrop |-> r.woneAirdrop, wallet |-> r.wallet, staked |-> r.staked, total |-> r.total,
         nativeWallet |-> r.nativeWallet, nativeTotal |-> r.nativeTotal,
         qualification |-> r.qualification, l0 |-> r.l0, l1 |-> r.l1,
         receipt |-> r.receipt, undelegation |-> r.undelegation, reward |-> r.reward,
         walletPart |-> r.l0 + r.l1 + r.receipt + r.woneAirdrop,
         stakingPart |-> r.staked + r.undelegation + r.reward]

\* load_claims and claim_values refuse a row that does not add up.
ClaimOk(v) ==
    /\ v.wallet = v.nativeWallet + v.woneAirdrop
    /\ v.wallet + v.staked = v.total
    /\ v.claimWone = v.wone
    /\ v.qualification = v.nativeTotal + v.wone
    /\ v.walletPart + v.stakingPart = v.total

\* Where the parts of a wallet go, by the exchange's mode: [tier, wallet, staking].
Tier(in, e, a, initial) ==
    LET r == in.normalized[e][a]
        Of(tier, wallet, staking) == [tier |-> tier, wallet |-> wallet, staking |-> staking]
        mode == in.normsum.exchanges[e].mode
    IN  CASE mode = "same_address" -> Of("same_address", a, a)
          [] mode = "aggregate" -> Of("aggregate", r.to, r.to)
          [] mode = "aggregate_split" -> Of("aggregate_split", r.to, r.staking)
          [] mode = "tiered" /\ in.stages = NoFile -> Of("tier_pending", "", "")
          [] mode = "tiered" /\ in.stages # NoFile ->
                 IF initial THEN Of("same_address_initial", a, a) ELSE Of("aggregated_non_initial", r.to, r.to)

\* Whether what is owed to a wallet can be sent.
AuditStatus(v, withheld, target, tier) ==
    CASE withheld -> "not_issued"
      [] ~withheld /\ target = 0 -> IF v.wone > 0 THEN "wone_not_in_migration_claim" ELSE "no_cutoff_claim"
      [] ~withheld /\ target > 0 /\ tier.tier = "tier_pending" -> "tier_pending"
      [] OTHER -> IF tier.wallet = "" \/ (v.stakingPart > 0 /\ tier.staking = "")
                  THEN "manual_destination_hold" ELSE "exchange_manual"

AuditRow(in, e, a, v, withheld, target, tier, status) ==
    LET planned == IF status \in {"exchange_manual", "manual_destination_hold", "tier_pending"}
                   THEN target ELSE 0
        parts == split_final_components(v.wallet, v.staked, target)
    IN  v @@ [mode |-> in.normsum.exchanges[e].mode, tier |-> tier.tier, status |-> status,
              toWallet |-> IF planned = 0 THEN "" ELSE tier.wallet,
              toStaking |-> IF planned = 0 THEN "" ELSE tier.staking,
              category |-> CategoryOf(in, a),
              treatment |-> IF withheld THEN "not_issued" ELSE "manual_from_reserve",
              plannedStaked |-> IF planned = 0 THEN 0 ELSE parts.staked, planned |-> planned]

\* build_audit_row: what is owed to a wallet, and where it goes.
build_audit_row(in, e, a) ==
    LET v == claim_values(in, a)
        staged == in.stages # NoFile /\ a \in DOMAIN in.stages
        withheld == staged /\ in.stages[a].treatment = "not_issued"
        target == IF withheld THEN in.stages[a].allocation ELSE v.total
        tier == Tier(in, e, a, staged /\ in.stages[a].stage = "initial" /\ ~withheld)
    IN  AuditRow(in, e, a, v, withheld, target, tier, AuditStatus(v, withheld, target, tier))

\* What build_audit_row, main and summarize_exchange refuse in a row.
AuditRowOk(in, a, r) ==
    LET qualifies == r.qualification >= Minimum IN
    /\ ClaimOk(r)
    /\ in.categories # NoFile => (qualifies <=> r.category # "")
    /\ in.categories # NoFile => (qualifies => r.category = "excluded_address")
    /\ in.stages # NoFile => (qualifies => a \in DOMAIN in.stages)
    /\ qualifies => a \in DOMAIN in.activity
    /\ r.planned <= r.qualification
    /\ r.wone = r.woneAirdrop \/ r.treatment = "not_issued"

Audit(in, e) == [a \in DOMAIN in.normalized[e] |-> build_audit_row(in, e, a)]

\* main's loop: the audit of an exchange is in place before the next exchange is looked at.
AuditsInTurn(in, rows) ==
    LET Fits(e) == \A a \in DOMAIN rows[e] : AuditRowOk(in, a, rows[e][a])
        done == {i \in 1 .. Len(in.order) : \A j \in 1 .. i : Fits(in.order[j])}
    IN  [i \in 1 .. Cardinality(done) |-> [exchange |-> in.order[i], rows |-> rows[in.order[i]]]]

Audits(in) ==
    IF ~NormalizedOk(in) THEN <<>> ELSE AuditsInTurn(in, [e \in Range(in.order) |-> Audit(in, e)])

\* summarize_exchange: can the exchange be paid.
memo_status(in, e, rows) ==
    LET n == in.normsum.exchanges[e] IN
    CASE ~n.received -> "awaiting_wallet_inventory"
      [] n.received /\ n.mode # "same_address" /\ n.status # "configured" -> "hold_missing_destination"
      [] OTHER -> IF \E a \in DOMAIN rows : rows[a].status = "tier_pending"
                  THEN "stage_policy_pending" ELSE "ready_for_manual_reserve_delivery"

-----------------------------------------------------------------------------
\* The routes of a wallet that is owed something.  Route 40 takes it all, or the wallet part
\* when the exchange has a second destination for what was staked; route 41 takes that.
exchange_routes(e, a, r) ==
    LET status == IF r.status = "exchange_manual" THEN "exchange_manual" ELSE "hold"
        To(role) == [id |-> <<e, role>>, direct |-> FALSE, status |-> status]
        Whole(to) == RouteRow(40, ManualPriority, a, "all", 0, "wallet_first_pro_rata_vault", "exchange", to)
        split == r.mode = "aggregate_split"
    IN  IF r.tier \in {"same_address", "same_address_initial"}
        THEN {Whole([id |-> <<e, "own">>, direct |-> TRUE, status |-> status])}
        ELSE IF split /\ r.walletPart > 0 /\ r.stakingPart > 0
        THEN {RouteRow(40, ManualPriority, a, "fixed", r.walletPart, "wallet_only", "exchange", To("wallet")),
              RouteRow(41, ManualPriority + 1, a, "all", 0, "wallet_first_pro_rata_vault", "exchange",
                       To("staking"))}
        ELSE {Whole(To(IF split /\ r.walletPart = 0 THEN "staking" ELSE "wallet"))}

\* The destinations that main declares: [to, status] by exchange and role.
ExchangeDestinations(in) ==
    LET Status(e) == IF in.normsum.exchanges[e].status = "configured" THEN "exchange_manual" ELSE "hold"
        shared == {e \in Range(in.order) : in.normsum.exchanges[e].mode # "same_address"}
        split == {e \in shared : in.normsum.exchanges[e].mode = "aggregate_split"}
    IN  [d \in (shared \X {"wallet"}) \cup (split \X {"staking"}) |->
            [to |-> IF d[2] = "wallet" THEN in.normsum.exchanges[d[1]].to ELSE in.normsum.exchanges[d[1]].staking,
             status |-> Status(d[1])]]

\* What main writes once every audit is in place.
Accounting(in, audits) ==
    LET ids == DOMAIN audits
        routes == IF in.stages = NoFile THEN {}
                  ELSE UNION {UNION {exchange_routes(e, a, audits[e][a]) :
                                        a \in {b \in DOMAIN audits[e] : audits[e][b].planned > 0}} : e \in ids}
        memos == [e \in ids |-> memo_status(in, e, audits[e])]
        exclusions == UNION {{a \in DOMAIN audits[e] : audits[e][a].qualification >= Minimum} : e \in ids}
    IN  [exclusions |-> exclusions, routes |-> routes, destinations |-> ExchangeDestinations(in),
         summary |-> [status |-> IF \A e \in ids : memos[e] = "ready_for_manual_reserve_delivery"
                                 THEN "passed" ELSE "hold",
                      emitted |-> in.stages # NoFile, normalization |-> in.normsum, claims |-> in.claims,
                      activity |-> in.activity, stages |-> in.stages, routes |-> routes,
                      audits |-> audits, memos |-> memos]]

-----------------------------------------------------------------------------
(***************************************************************************)
(* verify-exchange-routing.  `compiled' is what apply-routes wrote for the *)
(* exceptions: its rows, and the address each destination had.             *)
(***************************************************************************)
\* load_routes: the file is the one the audits call for.
RoutesMatchAudits(routes, audits) ==
    /\ \A r \in routes : \E e \in DOMAIN audits :
         /\ r.to.id[1] = e /\ r.source \in DOMAIN audits[e]
         /\ audits[e][r.source].planned > 0
         /\ audits[e][r.source].treatment = "manual_from_reserve"
         /\ r.to.status = IF audits[e][r.source].status = "exchange_manual" THEN "exchange_manual" ELSE "hold"
         /\ r.id = 40 /\ r.take = "fixed" => r.n = audits[e][r.source].walletPart
    /\ \A e \in DOMAIN audits : \A a \in DOMAIN audits[e] :
         audits[e][a].planned > 0 => \E r \in routes : r.to.id[1] = e /\ r.source = a

\* The address a route was planned to end at.
PlannedDestination(r, row) ==
    CASE r.to.direct -> r.source
      [] ~r.to.direct /\ r.to.id[2] = "staking" -> row.toStaking
      [] OTHER -> row.toWallet

\* load_compiled: every route was compiled, to the amount, the status and the place of the audit.
load_compiled(routes, audits, compiled) ==
    LET Of(r) == {x \in compiled.rows : x.source = r.source /\ x.route = r.id}
        Paid(rows) == MapThenSumSet(LAMBDA x : x.amount, rows)
    IN  /\ \A x \in compiled.rows : x.route \in {40, 41} =>
             \E r \in routes : r.source = x.source /\ r.id = x.route
        /\ \A r \in routes :
             LET row == audits[r.to.id[1]][r.source]
                 whole == {x \in compiled.rows : x.source = r.source /\ x.route \in {40, 41}}
             IN  /\ Of(r) # {}
                 /\ r.take = "fixed" => Paid(Of(r)) = row.walletPart
                 /\ r.id = 41 => Paid(Of(r)) = row.stakingPart
                 /\ Paid(whole) = row.planned
                 /\ \A x \in Of(r) : /\ x.status = r.to.status
                                     /\ x.stage = "exchange_manual" /\ x.treatment = "manual_from_reserve"
                 /\ r.to.status = "exchange_manual" =>
                      r.to.direct \/ (/\ r.to.id \in DOMAIN compiled.places
                                      /\ compiled.places[r.to.id] = PlannedDestination(r, row))

verify_exchange_routing(routes, audits, summary, compiled, routing) ==
    /\ RoutesMatchAudits(routes, audits)
    /\ load_compiled(routes, audits, compiled)
    /\ summary.emitted
    /\ summary.routes = routes
    /\ summary.status = "passed" /\ summary.audits = audits
    /\ routing.inactive = {}
    /\ routing.exroutes = routes

-----------------------------------------------------------------------------
(***************************************************************************)
(* build-exchange-native-policy.  `in' is [audits, summary, normsum,       *)
(* native, delegations, vaults, order, supplements, reported], the last    *)
(* two for the exchange whose wallets are paid in two tiers.               *)
(***************************************************************************)
Planned(rows) == {a \in DOMAIN rows : rows[a].planned > 0}

\* load_audit: no wallet is paid in part.
AuditsOk(audits) ==
    \A e \in DOMAIN audits : \A a \in DOMAIN audits[e] : LET r == audits[e][a] IN
        /\ r.nativeWallet + r.staked = r.nativeTotal /\ r.nativeTotal + r.woneAirdrop = r.total
        /\ r.walletPart + r.stakingPart = r.total
        /\ r.planned \in {0, r.total}
        /\ r.planned > 0 => r.treatment = "manual_from_reserve"

\* cross_check_native: the audits against the native ledger, which the overlay never touched.
cross_check_native(audits, native) ==
    \A e \in DOMAIN audits :
        LET rows == audits[e] IN
        /\ DOMAIN rows \cap DOMAIN native = {a \in DOMAIN rows : rows[a].present /\ rows[a].nativeTotal > 0}
        /\ \A a \in DOMAIN rows \ DOMAIN native : rows[a].nativeTotal = 0 /\ rows[a].nativeWallet = 0
        /\ \A a \in DOMAIN rows \cap DOMAIN native :
             \A field \in {"l0", "l1", "receipt", "undelegation", "reward"} : native[a][field] = rows[a][field]
        /\ Total(rows, LAMBDA r : r.nativeWallet)
             = MapThenSumSet(LAMBDA a : native[a].wallet, DOMAIN rows \cap DOMAIN native)
        /\ Total(rows, LAMBDA r : r.staked)
             = MapThenSumSet(LAMBDA a : native[a].staked, DOMAIN rows \cap DOMAIN native)

\* load_delegations and load_vault_adjustments: what leaves each vault.
Released(wallets, delegations, v) ==
    MapThenSumSet(LAMBDA p : delegations[p], {p \in DOMAIN delegations : p[1] = v /\ p[2] \in wallets})

VaultAdjustments(wallets, delegations, vaults) ==
    LET left == {p[1] : p \in {q \in DOMAIN delegations : q[2] \in wallets}} IN
    [v \in left \cap DOMAIN vaults |->
        [base |-> vaults[v].assets, withdrawal |-> Released(wallets, delegations, v)]]

\* Mistaken variant of Parts: what comes back from staking is sent with the liquid coins.
PartsByState(r) ==
    IF r.toStaking # "" /\ r.toStaking # r.toWallet
    THEN {[to |-> r.toWallet, amount |-> r.total - r.staked, released |-> 0],
          [to |-> r.toStaking, amount |-> r.staked, released |-> r.staked]}
    ELSE {[to |-> r.toWallet, amount |-> r.total, released |-> r.staked]}

\* build_deliveries: the transfers of an exchange, one for each tier, place and status.
Parts(r) ==
    LET native == r.walletPart - r.woneAirdrop IN
    IF r.toStaking # "" /\ r.toStaking # r.toWallet
    THEN {[to |-> r.toWallet, amount |-> native + r.woneAirdrop, released |-> 0],
          [to |-> r.toStaking, amount |-> r.stakingPart, released |-> r.staked]}
    ELSE {[to |-> r.toWallet, amount |-> r.total, released |-> r.staked]}

build_deliveries(rows) ==
    LET parts == {<<a, p>> : a \in Planned(rows), p \in UNION {Parts(rows[b]) : b \in Planned(rows)}}
        own == {x \in parts : x[2] \in Parts(rows[x[1]]) /\ x[2].amount > 0}
        keys == {<<rows[x[1]].tier, x[2].to, rows[x[1]].status>> : x \in own}
        Group(k) == {x \in own : k = <<rows[x[1]].tier, x[2].to, rows[x[1]].status>>}
    IN  [k \in keys |-> [amount |-> MapThenSumSet(LAMBDA x : x[2].amount, Group(k)),
                         released |-> MapThenSumSet(LAMBDA x : x[2].released, Group(k))]]

\* require_summary_agreement: the destinations of the rows are those of the accounting.
AgreesWithSummary(in, e) ==
    LET rows == in.audits[e]
        n == in.summary.normalization.exchanges[e]
        deliveries == build_deliveries(rows)
        To(S) == {rows[a].toWallet : a \in S}
    IN  /\ in.summary.memos[e] = "ready_for_manual_reserve_delivery"
        /\ n.status \in {"configured", "same_address"}
        /\ CASE n.mode = "aggregate" -> To(Planned(rows)) = {n.to}
             [] n.mode = "aggregate_split" -> /\ To(Planned(rows)) = {n.to}
                                              /\ {rows[a].toStaking : a \in Planned(rows)} = {n.staking}
             [] n.mode = "same_address" -> \A a \in Planned(rows) : rows[a].toWallet = a
             [] n.mode = "tiered" ->
                  /\ To({a \in Planned(rows) : rows[a].tier = "aggregated_non_initial"}) = {n.to}
                  /\ \A a \in Planned(rows) : rows[a].tier = "same_address_initial" => rows[a].toWallet = a
        /\ Total(deliveries, LAMBDA d : d.amount) = Total(rows, LAMBDA r : r.planned)
        /\ Total(deliveries, LAMBDA d : d.released) = Total(rows, LAMBDA r : r.plannedStaked)

\* gate_reconciliation: the total the exchange reported is its liquid coins on shard 0 and
\* all of the wallets it added by hand.
Reconciles(rows, supplement, reported) ==
    /\ supplement \subseteq DOMAIN rows
    /\ reported = MapThenSumSet(LAMBDA a : rows[a].l0, DOMAIN rows \ supplement)
                  + MapThenSumSet(LAMBDA a : rows[a].nativeTotal, supplement)

build_exchange_native_policy(in) ==
    LET ids == Range(in.order)
        wallets == UNION {DOMAIN in.audits[e] : e \in ids}
        Stake(a) == MapThenSumSet(LAMBDA p : in.delegations[p], {p \in DOMAIN in.delegations : p[2] = a})
        Owned(a) == (CHOOSE r \in {in.audits[e][a] : e \in {f \in ids : a \in DOMAIN in.audits[f]}} : TRUE).staked
        adjustments == VaultAdjustments(wallets, in.delegations, in.vaults)
        deliveries == [e \in ids |-> build_deliveries(in.audits[e])]
    IN  Result(/\ in.summary.status = "passed" /\ in.summary.emitted
               /\ in.summary.normalization = in.normsum
               /\ in.summary.audits = in.audits
               /\ AuditsOk(in.audits)
               /\ cross_check_native(in.audits, in.native)
               /\ \A a \in wallets : Stake(a) = Owned(a)
               /\ \A p \in DOMAIN in.delegations : p[2] \in wallets => p[1] \in DOMAIN in.vaults
               /\ \A v \in DOMAIN adjustments : adjustments[v].base >= adjustments[v].withdrawal
               /\ \A e \in ids : AgreesWithSummary(in, e)
               /\ \A e \in ids : in.normsum.exchanges[e].mode = "tiered" =>
                    Reconciles(in.audits[e], in.supplements[e], in.reported[e]),
               [deliveries |-> deliveries, vaults |-> adjustments,
                summary |-> [audits |-> in.audits, exsum |-> in.summary, native |-> in.native,
                             vaults |-> in.vaults, deliveries |-> deliveries]])
=============================================================================
