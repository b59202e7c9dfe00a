---------------------------- MODULE RoutingInputs ----------------------------
(***************************************************************************)
(* The files that apply-routes.py reads and that are generated.            *)
(*   build-vault-share-allocation.py   the stake of each address by vault  *)
(*   build-non-issuance-routes.py      amounts withheld after review       *)
(*   build-wone-routes.py              what becomes of the WONE reserve    *)
(*   build-contract-policy-routes.py   the reviewed contracts              *)
(* A route is [id, priority, source, take, n, method, reason, to] as in    *)
(* Routing; its id tells the file it came from, and is unique within an    *)
(* address.  The three eligibility categories are one record of files.     *)
(***************************************************************************)
EXTENDS StagePolicy

Categories == {"automatic", "contract_review", "excluded_address"}

\* load_all_claims: no row is credited more of the wrapped coin than its wallet gets.
AllClaimsOk(claims) ==
    \A a \in DOMAIN claims : /\ claims[a].wallet + claims[a].staked = claims[a].total
                             /\ claims[a].woneAirdrop <= claims[a].wallet
                             /\ claims[a].qualification >= claims[a].total

\* load_category: each row of a category is the row of the ledger.
load_category(categories, claims) ==
    /\ \A c \in Categories : \A a \in DOMAIN categories[c] :
         /\ a \in DOMAIN claims
         /\ LET r == categories[c][a] IN
            /\ r.total = claims[a].total /\ r.wallet = claims[a].wallet
            /\ r.staked = claims[a].staked /\ r.woneAirdrop = claims[a].woneAirdrop
    /\ \A c, d \in Categories : c # d => DOMAIN categories[c] \cap DOMAIN categories[d] = {}

\* `delegations' maps <<validator, delegator>> to the stake.
build_vault_share_allocation(claims, categories, delegations) ==
    LET assigned == UNION {DOMAIN categories[c] : c \in Categories}
        Stake(P) == MapThenSumSet(LAMBDA p : delegations[p], P)
        pairs == DOMAIN delegations
        Share(P) == [p \in P |-> delegations[p]]
        priority == {p \in pairs : p[2] \in assigned}
        vaults == [v \in {p[1] : p \in pairs} |->
                     LET own == {p \in pairs : p[1] = v} IN
                     [assets |-> Stake(own), priority |-> Stake(own \cap priority),
                      deferred |-> Stake(own \ priority)]]
    IN  Result(/\ AllClaimsOk(claims)
               /\ load_category(categories, claims)
               /\ assigned = {a \in DOMAIN claims : claims[a].qualification >= Minimum}
               /\ \A p \in pairs : delegations[p] > 0 /\ p[2] \in DOMAIN claims
               /\ \A a \in DOMAIN claims : Stake({p \in pairs : p[2] = a}) = claims[a].staked,
               [vaults |-> vaults, priority |-> Share(priority), deferred |-> Share(pairs \ priority),
                summary |-> [claims |-> claims, vaults |-> vaults, priority |-> Share(priority),
                             deferred |-> Share(pairs \ priority)]])

-----------------------------------------------------------------------------
Named(id) == [id |-> <<"policy", id>>, direct |-> FALSE, status |-> ""]

RouteRow(id, priority, source, take, n, method, reason, to) ==
    [id |-> id, priority |-> priority, source |-> source, take |-> take, n |-> n,
     method |-> method, reason |-> reason, to |-> to]

\* An inventory's amounts; zero amounts make no route.  Only the incident caps may name an
\* address that another inventory names (the leak credits, `leaks').
Withhold(id, amounts) ==
    {RouteRow(id, 100, a, "fixed", amounts[a], "wallet_first_pro_rata_vault", "not_issuing",
              Named("not-issuing")) : a \in {b \in DOMAIN amounts : amounts[b] > 0}}

build_non_issuance_routes(existing, caps, leaks) ==
    Result(/\ DOMAIN existing \cap (DOMAIN caps \cup DOMAIN leaks) = {},
           Withhold(10, existing) \cup Withhold(11, caps) \cup Withhold(12, leaks))

WoneIds == {20, 21}

\* The bridge route file again, with the two rows of the reserve as the overlay split it.
build_wone_routes(migsum, base) ==
    Result(/\ migsum.delivered + migsum.retained = migsum.reserve
           /\ migsum.delivered >= 0 /\ migsum.retained >= 0
           /\ \A r \in base : r.id \in WoneIds => r.source = WONE,
           {r \in base : r.id \notin WoneIds}
           \cup {r \in {RouteRow(20, 400, WONE, "fixed", migsum.delivered, "wallet_only", "wone",
                                 Named("wone-holder-redistribution")),
                        RouteRow(21, 401, WONE, "fixed", migsum.retained, "wallet_only", "wone",
                                 Named("not-issuing"))} : r.n > 0})

WoneRouteSummary(migsum, base, routes) == [wone |-> migsum, input |-> base, output |-> routes]

-----------------------------------------------------------------------------
\* route_policy: [to, reason] of a reviewed contract.  LayerZero collateral has a route of its own.
RoutePolicyOk(a, class, row) ==
    /\ row.classification = "genuine_contract"
    /\ IF row.treatment = "not_issued"
       THEN row.stage = "" /\ row.allocation = 0 /\ row.contract > 0
       ELSE /\ row.stage = "next_stage" /\ row.contract = 0
            /\ \/ class = "multisig-wallet" /\ row.group = "multisig"
               \/ class = "onewallet" /\ row.group = "onewallet"
               \/ a \in LayerZero /\ row.group = "layerzero_bridge_collateral"

route_policy(row) ==
    CASE row.treatment = "not_issued" -> [to |-> "not-issuing", reason |-> "reviewed_contract"]
      [] row.group = "multisig" -> [to |-> "", reason |-> "next_stage_multisig"]
      [] OTHER -> [to |-> "onewallet-recovery-multisig", reason |-> "next_stage_onewallet"]

build_contract_policy_routes(stages, review) ==
    LET contracts == {a \in DOMAIN review : review[a] # "validator-account"}
        dedicated == {a \in contracts : stages[a].treatment = "issue"
                                        /\ stages[a].group = "layerzero_bridge_collateral"}
    IN  Result(/\ contracts \subseteq DOMAIN stages
               /\ \A a \in contracts : RoutePolicyOk(a, review[a], stages[a])
               /\ \A a, b \in contracts : stages[a].group = stages[b].group =>
                    stages[a].stage = stages[b].stage /\ stages[a].treatment = stages[b].treatment
               /\ Cardinality(dedicated) = Cardinality(LayerZero)
               /\ {a \in DOMAIN stages : stages[a].classification = "genuine_contract"} = contracts,
               {RouteRow(30, 500, a, "all", 0, "wallet_first_pro_rata_vault", route_policy(stages[a]).reason,
                         Named(route_policy(stages[a]).to)) : a \in contracts \ dedicated})
=============================================================================
