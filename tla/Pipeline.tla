------------------------------ MODULE Pipeline ------------------------------
(***************************************************************************)
(* The offline programs as they are run on files, from the chain's state   *)
(* to the initial plan, the transfers to the exchanges and the last        *)
(* verification (docs/reproduce.md).                                       *)
(*                                                                         *)
(* `f' is the record of the generated files, `w' the record of what is     *)
(* given: [chain, codes, holders, order, submissions, reported, review,    *)
(* accounts, existing, caps, leaks, delegations, activity, base,           *)
(* destinations, governors, pending].  A program yields [ok, writes]: the  *)
(* files it replaces, in order, and whether it got to its end.  A summary  *)
(* that names a file by its hash holds the file's content.                 *)
(*                                                                         *)
(* A program that refuses to overwrite is run after its old outputs have   *)
(* been moved aside: the removals are its first writes.                    *)
(***************************************************************************)
EXTENDS InitialStage, ExchangeAccounting, WoneVerify

CONSTANT Cutoff    \* the time of the cutoff

-----------------------------------------------------------------------------
(***************************************************************************)
(* airdrop/tools/verify_cutoff_amounts.py: the amounts of a list, computed *)
(* again from what the public nodes answer for the cutoff blocks.  What    *)
(* the chain cannot answer comes with the list, as its evidence:           *)
(*   address -> [deduction, pending, tx]                                   *)
(* A transaction of the chain is [hash, at, parties, canonical].  The      *)
(* comparison with the head is only reported and is left out.              *)
(***************************************************************************)
\* staking_parts and read_state at the cutoff blocks.
read_state(chain, holders, a) ==
    [liquid_shard0 |-> Field(chain.shard0, a, "balance"), liquid_shard1 |-> Field(chain.shard1, a, "balance"),
     wone |-> At(holders, a), reward |-> Field(chain.staking, a, "reward"),
     undelegation |-> Field(chain.staking, a, "undelegation"), active |-> Field(chain.staking, a, "active")]

\* The evidence transaction is on the chain, involves the address and lies in the window.
check_activity(txs, since, row, a) ==
    \E tx \in txs : /\ tx.hash = row.tx
                    /\ tx.canonical
                    /\ a \in tx.parties
                    /\ since <= tx.at /\ tx.at < Cutoff

\* receipt_report_pending, and the comparison in main: the report is complete and has what the
\* evidence says is still under way.
PendingVerified(chain, listed, evidence) ==
    /\ chain.coverage = "complete"
    /\ \A a \in DOMAIN listed : evidence[a].pending = At(load_pending_receipts(chain), a)

ComputedAmount(state, row) ==
    state.liquid_shard0 + state.liquid_shard1 + state.wone + state.reward + state.undelegation
    + row.pending - row.deduction

\* main with --receipts-report: PASS, or not.
verify_cutoff_amounts(chain, holders, txs, since, listed, evidence) ==
    /\ DOMAIN listed \subseteq DOMAIN evidence
    /\ PendingVerified(chain, listed, evidence)
    /\ \A a \in DOMAIN listed :
         LET state == read_state(chain, holders, a)
             computed == ComputedAmount(state, evidence[a])
         IN  /\ computed = listed[a]
             /\ computed + state.active >= Minimum
             /\ check_activity(txs, since, evidence[a], a)

-----------------------------------------------------------------------------
(* The files. *)

Labels == {"ledger", "native", "native_meta", "norm", "normsum", "meta",
           "migration", "migsum", "threshold", "thrsum",
           "migration_meta", "migsum_meta", "threshold_meta", "thrsum_meta",
           "activity", "enriched", "actsum",
           "audits", "exclusions", "exroutes", "exdest", "exsum", "categories", "polsum", "polverify",
           "stages", "stagesum", "vaults", "priority", "deferred", "basesum",
           "nonroutes", "woneroutes", "bridgesum", "conroutes",
           "exceptions", "governors", "vaultstages", "routingsum",
           "exverify", "deliveries", "nativesum", "stageverify", "plan_wallets", "plan_shares", "plansum", "cache", "woneverify"}

Present(f, labels) == \A l \in labels : f[l] # NoFile

Write(file, content) == [file |-> file, content |-> content]

Removed(labels) == [i \in DOMAIN labels |-> Write(labels[i], NoFile)]

\* A run: whether it got to its end, what it wrote in order, the places in that order whose `.partial`
\* file it leaves behind, and whether a `.partial` file that was there before has stopped it.
Ends(writes) == [ok |-> TRUE, writes |-> writes, left |-> {}, stuck |-> FALSE]

Stops(writes) == [ok |-> FALSE, writes |-> writes, left |-> {}, stuck |-> FALSE]

\* A program that has begun to write a file when it refuses a row.
Leaves(run, places) == [run EXCEPT !.left = IF run.ok THEN {} ELSE places]

\* A program with one output, and one with an output and its summary.
One(result, file) == IF result.ok THEN Ends(<<Write(file, result.out)>>) ELSE Stops(<<>>)

Two(result, file, summary, content(_)) ==
    IF result.ok THEN Ends(<<Write(file, result.out), Write(summary, content(result.out))>>) ELSE Stops(<<>>)

\* A program that gets to its end or writes nothing.
All(result, writes(_)) == IF result.ok THEN Ends(writes(result.out)) ELSE Stops(<<>>)

-----------------------------------------------------------------------------
(* The ledgers. *)

NormalizeFiles(f, w, files) ==
    LET Norm(i) == FoldLeft(LAMBDA norm, x : (x.exchange :> x.rows) @@ norm, f.norm, SubSeq(files, 1, i))
        writes == [i \in DOMAIN files |-> Write("norm", Norm(i))]
    IN  IF Len(files) < Len(w.order) THEN Stops(writes)
        ELSE Ends(Append(writes, Write("normsum", NormalizationSummary(w.submissions, Norm(Len(files))))))

Normalize(f, w) == NormalizeFiles(f, w, Normalized(w.order, w.submissions))

Aggregate(f) == load_aggregate_delivery_addresses(f.norm, f.normsum)

NewHolders(f, w) ==
    One(IF Aggregate(f).ok
        THEN Result(TRUE, build_new_holder_metadata(f.native, w.holders, Aggregate(f).out, w.codes))
        ELSE Refused, "meta")

Overlay(f, w, native, migration, migsum) ==
    Two(IF Aggregate(f).ok THEN apply_wone_qualification(native, w.holders, f.meta, Aggregate(f).out) ELSE Refused,
        migration, migsum, LAMBDA rows : OverlaySummary(native, w.holders, f.meta, f.normsum, rows))

\* The two old files are moved aside, and the list is the third write.
Filter(f, rows, threshold, thrsum) ==
    LET run == Two(IF Aggregate(f).ok THEN filter_claims_by_one(rows, Aggregate(f).out) ELSE Refused,
                   threshold, thrsum, LAMBDA out : FilterSummary(rows, out, f.normsum))
    IN  Leaves([run EXCEPT !.writes = Removed(<<threshold, thrsum>>) \o @], IF Aggregate(f).ok THEN {3} ELSE {})

\* The scans and their enrichment (module ActivityRun) give each qualified row its last activity.
Activity(f, w) ==
    LET rows == [a \in DOMAIN f.threshold_meta |->
                    f.threshold_meta[a] @@ [activity |-> At(w.activity, a)]]
    IN  Ends(<<Write("activity", rows), Write("enriched", rows)>>)

-----------------------------------------------------------------------------
(* The policies. *)

AccountFiles(f, w, in, done) ==
    LET Of(i) == FoldLeft(LAMBDA audits, x : (x.exchange :> x.rows) @@ audits, f.audits, SubSeq(done, 1, i))
        writes == [i \in DOMAIN done |-> Write("audits", Of(i))]
        out == Accounting(in, Of(Len(done)))
    IN  IF Len(done) < Len(w.order) THEN Stops(writes)
        ELSE Ends(writes \o <<Write("exclusions", out.exclusions), Write("exroutes", out.routes),
                              Write("exdest", out.destinations), Write("exsum", out.summary)>>)

Accounts(f, w, categories, stages) ==
    LET in == [order |-> w.order, normalized |-> f.norm, normsum |-> f.normsum, claims |-> f.migration_meta,
               holders |-> w.holders, activity |-> f.activity, categories |-> categories, stages |-> stages]
    IN  AccountFiles(f, w, in, Audits(in))

Eligible(f, w) ==
    LET run == Two(apply_eligibility_policy(f.activity, w.accounts, f.exclusions), "categories", "polsum",
                   LAMBDA out : PolicySummary(f.activity, w.accounts, f.exclusions, out))
    IN  [run EXCEPT !.writes = Removed(<<"categories", "polsum">>) \o @]

\* What the stage policy reads; the incident caps and the leak credits are one inventory.
StageInputs(f, w) ==
    [activity |-> f.activity, actsum |-> f.actsum, migsum |-> f.migsum, review |-> w.review,
     existing |-> w.existing,
     historical |-> [a \in DOMAIN w.caps \cup DOMAIN w.leaks |-> At(w.caps, a) + At(w.leaks, a)],
     manual |-> f.exclusions]

Staged(f, w) ==
    All(build_migration_stage_policy(StageInputs(f, w)),
        LAMBDA out : <<Write("stages", out.rows), Write("stagesum", out.summary)>>)

Shares(f, w) ==
    LET out == build_vault_share_allocation(f.migration, f.categories, w.delegations)
        aside == Removed(<<"vaults", "priority", "deferred", "basesum">>)
    IN  IF out.ok THEN Ends(aside \o <<Write("vaults", out.out.vaults), Write("priority", out.out.priority),
                                       Write("deferred", out.out.deferred), Write("basesum", out.out.summary)>>)
        ELSE Stops(aside)

WoneRoutes(f, w) ==
    Two(build_wone_routes(f.migsum, w.base), "woneroutes", "bridgesum",
        LAMBDA out : WoneRouteSummary(f.migsum, w.base, out))

-----------------------------------------------------------------------------
(* The routing. *)

\* load_claims and load_routed_deferred_claims: the category files, then the full ledger.
RoutedClaims(f) ==
    LET Claim(category, r) ==
            [category |-> category, code |-> IF code_bearing(r) THEN "yes" ELSE "no", wallet |-> r.wallet,
             wone |-> r.woneAirdrop, staked |-> r.staked, liquid |-> r.l0]
        Listed(c) == DOMAIN f.categories[c]
        Of(a) == CHOOSE c \in Categories : a \in Listed(c)
        listed == UNION {Listed(c) : c \in Categories}
    IN  [a \in listed |-> Claim(Of(a), f.categories[Of(a)][a])]
        @@ [a \in DOMAIN f.migration_meta \ listed |-> Claim("deferred", f.migration_meta[a])]

RoutingRecord(f, w) ==
    [claims |-> RoutedClaims(f), stages |-> f.stages, shares |-> f.priority @@ f.deferred,
     routes |-> f.nonroutes \cup f.woneroutes \cup f.conroutes \cup f.exroutes,
     destinations |-> w.destinations @@ [d \in DOMAIN f.exdest |-> f.exdest[d].status],
     governors |-> w.governors, pending |-> w.pending, validators |-> w.accounts]

\* The stake that is routed is no more than each vault's assets.
VaultsCover(f, rows) ==
    \A v \in Validator :
        LET routed == Sum({r \in rows : r.component = "shares" /\ r.validator = v})
        IN  routed > 0 => v \in DOMAIN f.vaults /\ routed <= f.vaults[v].assets

\* A stage other than the one the policy gave, which only an exchange's route brings about.
Overridden(in, r) == Issued(r) /\ r.stage # Policy(in, r.source).stage

\* stage_readiness of the exchanges: nothing held, and no vault they leave has a held governor.
exchange_readiness(in, rows) ==
    LET manual == {r \in rows : Issued(r) /\ r.stage = "exchange_manual"}
        stuck == Held(governor_exceptions_output(in))
    IN  IF /\ \A r \in manual : r.status # "hold"
           /\ \A v \in stuck : vault_stage_output(rows)[v]["exchange_manual"] = 0
        THEN "ready" ELSE "hold"

\* The amounts of the summary, for a component.
RoutedAmounts(in, rows, c) ==
    LET own == {r \in rows : r.component = c}
        explicit == exceptions_output(own)
        Of(P(_)) == Sum({r \in explicit : P(r)})
        withheld == Of(LAMBDA r : r.status = "not_issuing")
        given == Of(LAMBDA r : r.status = "redistributed")
        manual == Of(LAMBDA r : r.treatment = "manual_from_reserve")
    IN  [source |-> Sum(own), exception |-> Sum(explicit), implicit |-> Sum(own) - Sum(explicit),
         notIssued |-> withheld, redistributed |-> given, exchange |-> manual,
         issuable |-> Sum(own) - withheld - given - manual,
         unresolved |-> Of(LAMBDA r : r.status = "hold")]

RoutingSummary(f, in, rows) ==
    LET issued == {r \in rows : Issued(r)}
        moved == {r \in rows : Overridden(in, r)}
        loaded == Loaded(in)
        amounts == [c \in {"wallet", "shares"} |-> RoutedAmounts(in, rows, c)]
    IN  [stages |-> in.stages, exroutes |-> f.exroutes,
         exceptions |-> exceptions_output(rows), governors |-> governor_exceptions_output(in),
         vaultstages |-> vault_stage_output(rows),
         totals |-> [s \in {r.stage : r \in issued} |-> Sum({r \in issued : r.stage = s})],
         overrides |-> [s \in {Policy(in, r.source).stage : r \in moved} |->
                           Sum({r \in moved : Policy(in, r.source).stage = s})],
         ready |-> readiness(in, rows), exchange |-> exchange_readiness(in, rows),
         amounts |-> amounts, notIssued |-> amounts["wallet"].notIssued + amounts["shares"].notIssued,
         inactive |-> {r.id : r \in {q \in in.routes : q.source \notin DOMAIN in.claims}},
         wone |-> MapThenSumSet(LAMBDA a : in.claims[a].wone, loaded),
         withheldRecipients |-> Cardinality({r.source : r \in {q \in rows : /\ q.component = "wallet"
                                   /\ q.status = "not_issuing" /\ in.claims[q.source].wone > 0}}),
         claims |-> Cardinality(loaded),
         priority |-> Cardinality({a \in loaded : in.claims[a].category # "deferred"}),
         deferred |-> Cardinality({a \in loaded : in.claims[a].category = "deferred"})]

RoutedFiles(f, in, rows) ==
    LET writes == <<Write("exceptions", [rows |-> exceptions_output(rows),
                                         places |-> [d \in DOMAIN f.exdest |-> f.exdest[d].to]]),
                    Write("governors", governor_exceptions_output(in)),
                    Write("vaultstages", vault_stage_output(rows))>>
    IN  IF ~ (InputsOk(in) /\ RoutesOk(in, rows) /\ VaultsCover(f, rows)) THEN Stops(<<>>)
        ELSE IF ~ RunOk(in, rows) THEN Stops(writes)
        ELSE Ends(Append(writes, Write("routingsum", RoutingSummary(f, in, rows))))

ApplyRoutes(f, w) == LET in == RoutingRecord(f, w) IN RoutedFiles(f, in, Rows(in))

-----------------------------------------------------------------------------
(* The verifiers, and what is made of the routing. *)

VerifyExchange(f) ==
    IF verify_exchange_routing(f.exroutes, f.audits, f.exsum, f.exceptions, f.routingsum)
    THEN Ends(<<Write("exverify", f.exceptions)>>) ELSE Stops(<<>>)

NativePolicy(f, w) ==
    All(build_exchange_native_policy(
                   [audits |-> f.audits, summary |-> f.exsum, normsum |-> f.normsum, native |-> f.native_meta,
                    delegations |-> w.delegations, vaults |-> f.vaults, order |-> w.order,
                    supplements |-> [e \in DOMAIN w.submissions |-> w.submissions[e].supplement],
                    reported |-> w.reported]),
        LAMBDA out : <<Write("deliveries", out.deliveries), Write("nativesum", out.summary)>>)

VerifyStage(f, w) ==
    IF verify_migration_stage_policy(f.stages, f.stagesum, f.routingsum, StageInputs(f, w))
    THEN Ends(<<Write("stageverify", f.stagesum)>>) ELSE Stops(<<>>)

\* load_routing_summary: the summary names the stage policy and the outputs as they are.
RoutingNamed(f) ==
    /\ f.routingsum.stages = f.stages
    /\ f.routingsum.exceptions = f.exceptions.rows
    /\ f.routingsum.governors = f.governors /\ f.routingsum.vaultstages = f.vaultstages

Materialize(f) ==
    LET shares == f.priority @@ f.deferred IN
    IF /\ RoutingNamed(f)
       /\ MaterializeOk(f.stages, shares, f.exceptions.rows, f.vaultstages, f.governors, f.routingsum.ready)
    THEN Ends(<<Write("plan_wallets", materialize_wallets(f.stages, f.exceptions.rows)),
                Write("plan_shares", materialize_shares(f.stages, shares, f.exceptions.rows)),
                Write("plansum", f.routingsum.ready.status)>>)
    ELSE Stops(<<>>)

WoneInputs(f, w) ==
    [native |-> f.native, holders |-> w.holders, metadata |-> f.meta, migration |-> f.migration,
     threshold |-> f.threshold, migsum |-> f.migsum, thrsum |-> f.thrsum, normalized |-> f.norm,
     normsum |-> f.normsum, routes |-> f.woneroutes, base |-> w.base, bridgesum |-> f.bridgesum,
     exceptions |-> f.exceptions.rows, governors |-> f.governors, routing |-> f.routingsum]

VerdictFiles(out) ==
    LET kept == <<Write("cache", out.cache)>>
    IN  IF out.ok THEN Ends(kept \o <<Write("woneverify", out.result)>>) ELSE Stops(kept)

VerifyWone(f, w) == VerdictFiles(verify_wone_allocation(WoneInputs(f, w), f.cache))

-----------------------------------------------------------------------------
\* The programs in the order of docs/reproduce.md.
Script ==
    <<"actual-supply", "format", "metadata", "normalize", "new-holders", "overlay", "overlay-meta",
      "filter", "filter-meta", "activity", "summarize", "bootstrap", "eligibility", "verify-eligibility",
      "stage-policy", "accounting", "shares", "non-issuance", "wone-routes", "contract-routes",
      "apply-routes", "verify-exchange", "native-policy", "verify-stage", "materialize", "verify-wone">>

\* The files a program cannot do without.
Needs(p) ==
    CASE p \in {"actual-supply", "normalize", "non-issuance"} -> {}
      [] p = "format" -> {"ledger"}
      [] p = "metadata" -> {"native"}
      [] p = "new-holders" -> {"native", "normsum"}
      [] p = "overlay" -> {"native", "normsum", "meta"}
      [] p = "overlay-meta" -> {"native_meta", "normsum", "meta"}
      [] p = "filter" -> {"migration", "normsum"}
      [] p = "filter-meta" -> {"migration_meta", "normsum"}
      [] p = "activity" -> {"threshold_meta"}
      [] p = "summarize" -> {"activity", "enriched"}
      [] p = "bootstrap" -> {"normsum", "migration_meta", "activity"}
      [] p = "eligibility" -> {"activity", "exclusions"}
      [] p = "verify-eligibility" -> {"activity", "exclusions", "categories", "polsum"}
      [] p = "stage-policy" -> {"activity", "actsum", "migsum", "exclusions"}
      [] p = "accounting" -> {"normsum", "migration_meta", "activity", "categories", "stages"}
      [] p = "shares" -> {"migration", "categories"}
      [] p = "wone-routes" -> {"migsum"}
      [] p = "contract-routes" -> {"stages"}
      [] p = "apply-routes" -> {"migration_meta", "categories", "stages", "vaults", "priority", "deferred",
                                "nonroutes", "woneroutes", "conroutes", "exroutes", "exdest"}
      [] p = "verify-exchange" -> {"exroutes", "exsum", "exceptions", "routingsum"}
      [] p = "native-policy" -> {"exsum", "normsum", "native_meta", "vaults"}
      [] p = "verify-stage" -> {"stages", "stagesum", "routingsum", "actsum", "migsum"}
      [] p = "materialize" -> {"stages", "priority", "deferred", "exceptions", "governors", "vaultstages", "routingsum"}
      [] p = "verify-wone" -> {"native", "meta", "migration", "threshold", "migsum", "thrsum", "normsum",
                               "woneroutes", "bridgesum", "exceptions", "governors", "routingsum"}

\* What a program does to the files.
Program(p, f, w) ==
    IF ~ Present(f, Needs(p)) THEN Stops(<<>>)
    ELSE CASE p = "actual-supply" -> One(actual_supply_ledger(w.chain), "ledger")
           [] p = "format" -> Leaves(One(format_all_claims(f.ledger), "native"), {1})
           [] p = "metadata" -> One(enrich_claim_metadata(f.native, w.codes), "native_meta")
           [] p = "normalize" -> Normalize(f, w)
           [] p = "new-holders" -> NewHolders(f, w)
           [] p = "overlay" -> Overlay(f, w, f.native, "migration", "migsum")
           [] p = "overlay-meta" -> Overlay(f, w, f.native_meta, "migration_meta", "migsum_meta")
           [] p = "filter" -> Filter(f, f.migration, "threshold", "thrsum")
           [] p = "filter-meta" -> Filter(f, f.migration_meta, "threshold_meta", "thrsum_meta")
           [] p = "activity" -> Activity(f, w)
           [] p = "summarize" -> One(summarize(f.activity, f.enriched, Cutoff), "actsum")
           [] p = "bootstrap" -> Accounts(f, w, NoFile, NoFile)
           [] p = "eligibility" -> Eligible(f, w)
           [] p = "verify-eligibility" ->
                  One(verify_eligibility_policy(f.activity, w.accounts, f.exclusions, f.categories, f.polsum), "polverify")
           [] p = "stage-policy" -> Staged(f, w)
           [] p = "accounting" -> Accounts(f, w, f.categories, f.stages)
           [] p = "shares" -> Shares(f, w)
           [] p = "non-issuance" -> One(build_non_issuance_routes(w.existing, w.caps, w.leaks), "nonroutes")
           [] p = "wone-routes" -> WoneRoutes(f, w)
           [] p = "contract-routes" -> One(build_contract_policy_routes(f.stages, w.review), "conroutes")
           [] p = "apply-routes" -> ApplyRoutes(f, w)
           [] p = "verify-exchange" -> VerifyExchange(f)
           [] p = "native-policy" -> NativePolicy(f, w)
           [] p = "verify-stage" -> VerifyStage(f, w)
           [] p = "materialize" -> Materialize(f)
           [] p = "verify-wone" -> VerifyWone(f, w)

\* The accounting is one program that runs twice, with the same outputs.
Tool(p) == IF p = "bootstrap" THEN "accounting" ELSE p

\* A file is written as `.partial` and renamed; what is moved aside is not, and the cache's own
\* `.partial` file is simply written over.
Renamed(x) == x.content # NoFile /\ x.file # "cache"

\* The programs that look for a `.partial` file when they come to write it; the others look for all
\* of theirs before anything else.
LooksLate == {"normalize", "bootstrap", "accounting", "stage-policy", "verify-exchange", "native-policy",
              "verify-stage", "materialize"}

\* A program that may find `.partial` files at some of its places: it refuses, and none of them is removed.
Attempt(p, run, places) ==
    LET met == IF p \in LooksLate THEN places \cap DOMAIN run.writes ELSE places
        before == IF p \in LooksLate THEN SubSeq(run.writes, 1, Min(met) - 1)
                  ELSE SelectSeq(run.writes, LAMBDA x : x.content = NoFile)
    IN  IF met = {} THEN run ELSE [Stops(before) EXCEPT !.stuck = TRUE]
=============================================================================
