----------------------------- MODULE WoneOverlay -----------------------------
(***************************************************************************)
(* The wrapped coin.  Its contract holds one native coin per wrapped coin; *)
(* a holder who qualifies, or whose exchange is paid by hand, is credited  *)
(* with the wrapped balance, and the contract's reserve is given away by   *)
(* the same amount.                                                        *)
(*   build-wone-new-holder-metadata.py  holders without a native row       *)
(*   apply-wone-qualification.py        the migration ledger               *)
(*   filter-claims-by-one.py            the rows at or above the threshold *)
(* The two ledgers (with and without account metadata) take the same path. *)
(***************************************************************************)
EXTENDS NativeClaims

(***************************************************************************)
(* load_aggregate_delivery_addresses, the same in the three programs: the  *)
(* normalization summary names each exchange's file by its hash.           *)
(***************************************************************************)
load_aggregate_delivery_addresses(normalized, summary) ==
    LET ids == DOMAIN summary.exchanges IN
    Result(/\ \A e \in ids : normalized[e] = summary.exchanges[e].output
           /\ \A e, f \in ids : e # f => DOMAIN normalized[e] \cap DOMAIN normalized[f] = {},
           UNION {DOMAIN normalized[e] : e \in ids})

\* load_wone leaves the excluded holders out; WONE's own balance is always excluded.
load_wone(holders) == [a \in DOMAIN holders \ (Excluded \cup {WONE}) |-> holders[a]]

Reserve(holders) == MapThenSumSet(LAMBDA a : holders[a], DOMAIN holders)

\* Holders whose wrapped coin is delivered whatever they own natively.
DeliverySet(holders, aggregate) ==
    {a \in DOMAIN load_wone(holders) : holders[a] >= Minimum \/ a \in aggregate}

\* `codes' is what the archival RPC answers for an address at the cutoff.
build_new_holder_metadata(native, holders, aggregate, codes) ==
    [a \in DeliverySet(holders, aggregate) \ DOMAIN native |->
        [wone |-> holders[a], code |-> codes[a]]]

-----------------------------------------------------------------------------
apply_overlay(row, wone, aggregate) ==
    LET airdrop == IF row.total + wone >= Minimum \/ aggregate THEN wone ELSE 0 IN
    [row EXCEPT !.wallet = @ + airdrop, !.total = @ + airdrop]
    @@ [nativeWallet |-> row.wallet, nativeTotal |-> row.total, wone |-> wone,
        woneAirdrop |-> airdrop, qualification |-> row.total + wone]

EmptyRow(code) ==
    [l0 |-> 0, l1 |-> 0, undelegation |-> 0, reward |-> 0, receipt |-> 0, wallet |-> 0,
     staked |-> 0, total |-> 0, code0 |-> code, code1 |-> ""]

new_holder_row(wone, code, aggregate) == apply_overlay(EmptyRow(code), wone, aggregate)

\* require_complete_new_holder_metadata and the checks of a metadata row.
MetadataOk(native, holders, metadata, aggregate) ==
    /\ DOMAIN metadata \cap DOMAIN native = {}
    /\ DOMAIN metadata = DeliverySet(holders, aggregate) \ DOMAIN native
    /\ \A a \in DOMAIN metadata : metadata[a].wone = holders[a]

\* main: the merge of the native rows and the new holders.
Overlaid(native, holders, metadata, aggregate) ==
    LET counted == load_wone(holders) IN
    [a \in DOMAIN native \cup DOMAIN metadata |->
        IF a \in DOMAIN native
        THEN apply_overlay(native[a], At(counted, a), a \in aggregate \ (Excluded \cup {WONE}))
        ELSE new_holder_row(holders[a], metadata[a].code, a \in aggregate)]

\* main: the contract holds the reserve, the totals close, no more than the reserve is given.
apply_wone_qualification(native, holders, metadata, aggregate) ==
    LET rows == Overlaid(native, holders, metadata, aggregate)
        delivered == Total(rows, LAMBDA r : r.woneAirdrop)
    IN  Result(/\ MetadataOk(native, holders, metadata, aggregate)
               /\ \A a \in DOMAIN native : native[a].wallet + native[a].staked = native[a].total
               /\ WONE \in DOMAIN native
               /\ native[WONE].l0 = Reserve(holders)
               /\ delivered <= Reserve(holders),
               rows)

\* The summary of the overlay: its totals and the hashes of what it read and wrote.
OverlaySummary(native, holders, metadata, normalization, rows) ==
    LET delivered == Total(rows, LAMBDA r : r.woneAirdrop) IN
    [native |-> native, metadata |-> metadata, normalization |-> normalization, output |-> rows,
     excluded |-> Reserve(holders) - Reserve(load_wone(holders)),
     reserve |-> Reserve(holders), delivered |-> delivered,
     retained |-> Reserve(holders) - delivered,
     nativeTotal |-> Total(native, LAMBDA r : r.total),
     wallet |-> Total(rows, LAMBDA r : r.wallet), staked |-> Total(rows, LAMBDA r : r.staked),
     total |-> Total(rows, LAMBDA r : r.total)]

-----------------------------------------------------------------------------
\* A row that filter-claims-by-one accepts: it recomputes what the overlay credited.
FilterRowOk(r, aggregate) ==
    /\ r.wallet + r.staked = r.total
    /\ r.qualification = r.nativeTotal + r.wone
    /\ r.woneAirdrop = IF r.qualification >= Minimum \/ aggregate THEN r.wone ELSE 0
    /\ r.total = r.nativeTotal + r.woneAirdrop

\* filter-claims-by-one --comparison ge.
filter_claims_by_one(rows, aggregate) ==
    Result(\A a \in DOMAIN rows : FilterRowOk(rows[a], a \in aggregate),
           [a \in {b \in DOMAIN rows : rows[b].qualification >= Minimum} |-> rows[a]])

FilterSummary(input, output, normalization) ==
    [input |-> input, output |-> output, normalization |-> normalization,
     total |-> Total(output, LAMBDA r : r.total),
     wone |-> Total(output, LAMBDA r : r.woneAirdrop)]
=============================================================================
