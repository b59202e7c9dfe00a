----------------------------- MODULE WoneVerify -----------------------------
(***************************************************************************)
(* verify-wone-allocation.py: the whole path of the wrapped coin, computed *)
(* again, from the holders to the compiled routing.  The pass over the     *)
(* claim ledgers is long, and its result is kept in a cache under the      *)
(* hashes of all it read.  `in' is the record of the inputs:               *)
(*   [native, holders, metadata, migration, threshold, migsum, thrsum,     *)
(*    normalized, normsum                   what the ledger pass reads     *)
(*    routes, base, bridgesum, exceptions, governors, routing]             *)
(***************************************************************************)
EXTENDS WoneOverlay, RoutingInputs

\* parse_exclusions: the addresses the overlay was told to leave out.
Exclusions == Excluded \cup {WONE}

\* load_aggregate_delivery_addresses: the summary the overlay named is the one in place.
AggregateOk(in) ==
    /\ in.migsum.normalization = in.normsum
    /\ load_aggregate_delivery_addresses(in.normalized, in.normsum).ok

ActiveAggregate(in) ==
    load_aggregate_delivery_addresses(in.normalized, in.normsum).out \ Exclusions

\* load_holders, validate_exclusion_details and a check of ledger_pass.
HoldersOk(in) ==
    /\ \A a \in DOMAIN in.holders : in.holders[a] > 0
    /\ DOMAIN in.holders \cap LayerZero = {}
    /\ in.migsum.excluded = MapThenSumSet(LAMBDA a : in.holders[a], DOMAIN in.holders \cap Exclusions)

\* validate_native_row.
NativeRowOk(r) ==
    /\ r.l0 + r.l1 + r.undelegation + r.reward + r.receipt = r.wallet
    /\ r.wallet + r.staked = r.total

\* validate_wone_only_static: a holder without a native row has an empty one.
NativePart(in, a) == IF a \in DOMAIN in.native THEN in.native[a] ELSE EmptyRow(in.metadata[a].code)

holder_amount_for_native(in, a) == IF a \in Exclusions THEN 0 ELSE At(in.holders, a)

\* validate_migration_row: the row a ledger must have, from its native row or its metadata.
ExpectedRow(in, a) ==
    LET native == NativePart(in, a)
        effective == holder_amount_for_native(in, a)
        qualification == native.total + effective
        airdrop == IF qualification >= Minimum \/ a \in ActiveAggregate(in) THEN effective ELSE 0
    IN  [native EXCEPT !.wallet = native.wallet + airdrop, !.total = native.total + airdrop]
        @@ [nativeWallet |-> native.wallet, nativeTotal |-> native.total, wone |-> effective,
            woneAirdrop |-> airdrop, qualification |-> qualification]

\* load_metadata and the closing checks of verify_claim_ledgers.
MetadataComplete(in) ==
    LET owed == {a \in DOMAIN in.holders \ (DOMAIN in.native \cup Exclusions) :
                    in.holders[a] >= Minimum \/ a \in ActiveAggregate(in)}
    IN  /\ DOMAIN in.metadata = owed
        /\ \A a \in owed : in.metadata[a].wone = in.holders[a]

\* ThresholdCursor: an exact copy of each row that qualifies, and nothing else.
ThresholdIsCopy(in) ==
    in.threshold = [a \in {b \in DOMAIN in.migration : in.migration[b].qualification >= Minimum} |->
                       in.migration[a]]

\* verify_claim_ledgers: the three ledgers are merged row by row.
verify_claim_ledgers(in) ==
    LET rows == in.migration IN
    /\ \A a \in DOMAIN in.native : NativeRowOk(in.native[a])
    /\ MetadataComplete(in)
    /\ DOMAIN rows = DOMAIN in.native \cup DOMAIN in.metadata
    /\ \A a \in DOMAIN rows : rows[a] = ExpectedRow(in, a)
    /\ ThresholdIsCopy(in)
    /\ LayerZero \cup {WONE} \subseteq DOMAIN in.native

\* validate_claim_summaries: both summaries name these files and give these totals.
MigrationTotals(in) ==
    LET s == in.migsum
        delivered == Total(in.migration, LAMBDA r : r.woneAirdrop)
    IN  /\ s.reserve = Reserve(in.holders)
        /\ s.delivered = delivered
        /\ s.retained = s.reserve - delivered /\ s.retained >= 0
        /\ s.nativeTotal = Total(in.native, LAMBDA r : r.total)
        /\ s.wallet = Total(in.migration, LAMBDA r : r.wallet)
        /\ s.staked = Total(in.migration, LAMBDA r : r.staked)
        /\ s.total = s.nativeTotal + delivered

ThresholdSummaryOk(in) ==
    /\ in.thrsum.input = in.migration /\ in.thrsum.output = in.threshold
    /\ in.thrsum.total = Total(in.threshold, LAMBDA r : r.total)
    /\ in.thrsum.wone = Total(in.threshold, LAMBDA r : r.woneAirdrop)

validate_claim_summaries(in) ==
    /\ in.migsum.native = in.native /\ in.migsum.metadata = in.metadata
    /\ in.migsum.output = in.migration
    /\ MigrationTotals(in)
    /\ ThresholdSummaryOk(in)

\* ledger_pass: refused, or what the checks of the routing need.
ledger_pass(in) ==
    LET delivered == Total(in.migration, LAMBDA r : r.woneAirdrop) IN
    Result(/\ AggregateOk(in)
           /\ HoldersOk(in)
           /\ verify_claim_ledgers(in)
           /\ validate_claim_summaries(in),
           [reserve |-> Reserve(in.holders), delivered |-> delivered,
            retained |-> Reserve(in.holders) - delivered,
            special |-> [a \in LayerZero \cup {WONE} |-> in.migration[a]],
            recipients |-> {a \in DOMAIN in.migration : in.migration[a].woneAirdrop > 0},
            qualified |-> Cardinality(DOMAIN in.threshold),
            wallet |-> Total(in.threshold, LAMBDA r : r.wallet),
            staked |-> Total(in.threshold, LAMBDA r : r.staked)])

-----------------------------------------------------------------------------
\* Mistaken variant of ledger_cache_key: the hashes of the three ledgers alone.
LedgerKey(in) == [native |-> in.native, migration |-> in.migration, threshold |-> in.threshold]

\* ledger_cache_key: the hashes of every input but those of the routing.
ledger_cache_key(in) ==
    [native |-> in.native, holders |-> in.holders, metadata |-> in.metadata,
     migration |-> in.migration, threshold |-> in.threshold, migsum |-> in.migsum,
     thrsum |-> in.thrsum, normalized |-> in.normalized, normsum |-> in.normsum]

\* load_ledger_cache; `cache' is <<>> or <<[key, ledger]>>.
load_ledger_cache(cache, key) ==
    IF cache # <<>> /\ cache[1].key = key THEN Result(TRUE, cache[1].ledger) ELSE Refused

-----------------------------------------------------------------------------
\* verify_bridge_routes: the base routes, exactly the two routes of the reserve, and one route
\* for each of the bridge collateral contracts.
BaseRoutesKept(in) ==
    /\ \A r \in in.base : r.source # WONE
    /\ {r \in in.routes : r.id \notin WoneIds} = in.base

ReserveRoutesOk(in, ledger) ==
    LET Of(id) == {r \in in.routes : r.id = id /\ r.source = WONE} IN
    /\ Of(20) = {RouteRow(20, 400, WONE, "fixed", ledger.delivered, "wallet_only", "wone",
                          Named("wone-holder-redistribution"))}
    /\ Of(21) = {RouteRow(21, 401, WONE, "fixed", ledger.retained, "wallet_only", "wone",
                          Named("not-issuing"))}

CollateralRoutesOk(in) ==
    \A a \in LayerZero : \E r \in in.routes :
        /\ {q \in in.routes : q.source = a} = {r}
        /\ r.take = "shard0_liquid" /\ r.priority = 400 /\ r.reason = "layerzero"

verify_bridge_routes(in, ledger) ==
    /\ BaseRoutesKept(in)
    /\ ReserveRoutesOk(in, ledger)
    /\ CollateralRoutesOk(in)
    /\ in.bridgesum = WoneRouteSummary(in.migsum, in.base, in.routes)

\* verify_routing_exceptions, first part: stage and treatment of every exception.
ExceptionRowOk(x) ==
    LET Treatment == CASE x.status \in {"ready", "hold"} -> "issue"
                       [] x.status = "not_issuing" -> "not_issued"
                       [] x.status = "redistributed" -> "redistributed"
                       [] OTHER -> "error"
    IN  /\ x.amount > 0
        /\ IF x.reason = "exchange"
           THEN /\ x.treatment = "manual_from_reserve" /\ x.status \in {"exchange_manual", "hold"}
                /\ x.stage = "exchange_manual"
           ELSE /\ x.treatment = Treatment
                /\ x.treatment = "issue" => x.stage \in {"initial", "next_stage", "deferred", "manual_review"}
        /\ x.status = "redistributed" => x.source = WONE /\ x.route = 20
        /\ x.source \in LayerZero => x.status \notin {"redistributed", "not_issuing"}

Amounts(rows) == MapThenSumSet(LAMBDA x : x.amount, rows)

\* ... the reserve is split as the ledgers say, and what else the contract has is not issued ...
ReserveExceptionsOk(in, ledger) ==
    LET Of(ids) == {x \in in.exceptions : x.source = WONE /\ x.route \in ids}
        wone == ledger.special[WONE]
        residual == {x \in in.exceptions : x.source = WONE} \ Of(WoneIds)
        Split(id, amount, status) ==
            \E x \in Of({id}) : /\ Of({id}) = {x} /\ x.component = "wallet"
                                /\ x.amount = amount /\ x.status = status /\ x.stage = ""
    IN  /\ wone.staked = 0 /\ wone.l0 = ledger.reserve
        /\ wone.wone = 0 /\ wone.woneAirdrop = 0
        /\ wone.nativeWallet - ledger.reserve >= wone.l1
        /\ Split(20, ledger.delivered, "redistributed")
        /\ Split(21, ledger.retained, "not_issuing")
        /\ \A x \in residual : /\ x.component = "wallet" /\ x.status = "not_issuing" /\ x.stage = ""
                               /\ x.reason = "reviewed_contract"
        /\ Amounts(residual) = wone.nativeWallet - ledger.reserve

\* ... and the bridge collateral waits for the next stage.
CollateralExceptionsOk(in, ledger) ==
    \A a \in LayerZero :
        LET claim == ledger.special[a]
            rows == {x \in in.exceptions : x.source = a}
        IN  /\ claim.wone = 0 /\ claim.woneAirdrop = 0
            /\ \A x \in rows : /\ x.component = "wallet" /\ x.status = "hold"
                               /\ x.stage = "next_stage" /\ x.reason = "layerzero"
            /\ \E x \in rows : {y \in rows : y.route = x.route} = {x} /\ x.amount = claim.l0
            /\ Amounts(rows) = claim.nativeWallet

verify_routing_exceptions(in, ledger) ==
    /\ \A x \in in.exceptions : ExceptionRowOk(x)
    /\ ReserveExceptionsOk(in, ledger)
    /\ CollateralExceptionsOk(in, ledger)

\* validate_routing_summary: its amounts close and are those of the rows ...
AmountsClose(in) ==
    LET Of(c, P(_)) == Amounts({x \in in.exceptions : x.component = c /\ P(x)}) IN
    \A c \in {"wallet", "shares"} : LET t == in.routing.amounts[c] IN
        /\ t.exception + t.implicit = t.source
        /\ t.issuable = t.source - t.notIssued - t.redistributed - t.exchange
        /\ t.unresolved <= t.issuable
        /\ t.exception = Of(c, LAMBDA x : TRUE)
        /\ t.notIssued = Of(c, LAMBDA x : x.status = "not_issuing")
        /\ t.redistributed = Of(c, LAMBDA x : x.status = "redistributed")
        /\ t.exchange = Of(c, LAMBDA x : x.reason = "exchange")

\* ... and it names these files and counts the rows of the ledgers.
validate_routing_summary(in, ledger) ==
    LET s == in.routing
        withheld == {x \in in.exceptions : x.component = "wallet" /\ x.status = "not_issuing"}
    IN  /\ s.exceptions = in.exceptions /\ s.governors = in.governors
        /\ AmountsClose(in)
        /\ s.amounts["wallet"].redistributed = ledger.delivered
        /\ s.amounts["shares"].redistributed = 0
        /\ s.wone = ledger.delivered
        /\ s.withheldRecipients = Cardinality({x.source : x \in withheld} \cap ledger.recipients)
        /\ s.priority = ledger.qualified /\ s.claims = s.priority + s.deferred
        /\ s.amounts["wallet"].source >= ledger.wallet /\ s.amounts["shares"].source >= ledger.staked

-----------------------------------------------------------------------------
\* verify: [cache, ok, result].  The cache is written before the routing is looked at.
VerdictWith(in, cache, key, ledger) ==
    [cache |-> IF ledger.ok THEN <<[key |-> key, ledger |-> ledger.out]>> ELSE cache,
     ok |-> /\ ledger.ok
            /\ verify_bridge_routes(in, ledger.out)
            /\ verify_routing_exceptions(in, ledger.out)
            /\ validate_routing_summary(in, ledger.out),
     result |-> in]

verify_wone_allocation(in, cache) ==
    LET key == ledger_cache_key(in)
        known == load_ledger_cache(cache, key)
    IN  VerdictWith(in, cache, key, IF known.ok THEN known ELSE ledger_pass(in))
=============================================================================
