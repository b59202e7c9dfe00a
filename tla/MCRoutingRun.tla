---------------------------- MODULE MCRoutingRun ----------------------------
(* A wallet with wrapped coin and two vault positions, the owner of a vault, the
   contract of the wrapped coin, and a wallet below the threshold. *)
EXTENDS RoutingRun, TLC

MCOwner == 1 :> "own" @@ 2 :> "else"

Claim(category, code, wallet, wone, staked, liquid) ==
    [category |-> category, code |-> code, wallet |-> wallet, wone |-> wone, staked |-> staked, liquid |-> liquid]

MCClaims ==
    "alice" :> Claim("automatic", "no", 2, 1, 3, 1) @@ "own" :> Claim("automatic", "yes", 1, 0, 0, 0)
    @@ "wrap" :> Claim("contract_review", "yes", 1, 0, 0, 1) @@ "low" :> Claim("deferred", "no", 1, 0, 1, 1)

Stage(stage, treatment, wallet, staked, category, classification) ==
    [stage |-> stage, treatment |-> treatment, wallet |-> wallet, staked |-> staked,
     category |-> category, classification |-> classification]

Policies(stage, staked) ==
    "alice" :> Stage(stage, "issue", 2, staked, "automatic_policy", "wallet")
    @@ "own" :> Stage("initial", "issue", 1, 0, "automatic_policy", "validator")
    @@ "wrap" :> Stage("", "not_issued", 0, 0, "contract_policy", "genuine_contract")

To(id, direct, status) == [id |-> id, direct |-> direct, status |-> status]

Route(id, priority, source, take, n, method, reason, to) ==
    [id |-> id, priority |-> priority, source |-> source, take |-> take, n |-> n, method |-> method,
     reason |-> reason, to |-> to]

First == "wallet_first_pro_rata_vault"

Always == Route(1, 1, "wrap", "all", 0, First, "wone", To("wone", FALSE, "redistributed"))

Optional ==
    {Route(2, 2, "alice", "fixed", 1, First, "other", To("", TRUE, "")),
     Route(3, 1, "alice", "fixed", 2, "vault_only_pro_rata", "other", To("safe", FALSE, "")),
     Route(4, 3, "alice", "all", 0, First, "exchange", To("exch", FALSE, "exchange_manual")),
     Route(5, 2, "alice", "fixed", 4, First, "other", To("not-issuing", FALSE, "")),
     Route(6, 2, "own", "all", 0, First, "other", To("", TRUE, "")),
     Route(7, 2, "alice", "fixed", 1, "vault_only_pro_rata", "other", To("not-issuing", FALSE, "not_issuing")),
     Route(8, 2, "low", "all", 0, First, "other", To("", TRUE, "hold")),
     Route(9, 4, "alice", "shard0_liquid", 0, "wallet_only", "other", To("later", FALSE, ""))}

\* Up to two routes of alice, or one of another source beside one of alice's.
MCRoutes ==
    LET few == {T \in SUBSET Optional : Cardinality(T) <= 2}
    IN  {{Always} \cup T : T \in {S \in few : (\E r \in S : r.source # "alice") => \A r \in S : r.id \in {2, 6, 8}}}

MCStages == {Policies("initial", 3), Policies("initial", 2), Policies("next_stage", 3)}

MCShares ==
    {<<1, "alice">> :> 2 @@ <<2, "alice">> :> 1 @@ <<2, "low">> :> 1,
     <<1, "alice">> :> 1 @@ <<2, "alice">> :> 2 @@ <<2, "low">> :> 1}

Destinations(status) ==
    "wone" :> "redistributed" @@ "not-issuing" :> "not_issuing" @@ "exch" :> "exchange_manual" @@ "safe" :> status

NoGovernors == [v \in {} |-> To("", TRUE, "")]

MCInputs ==
    [claims : {MCClaims}, stages : MCStages, shares : MCShares, routes : MCRoutes,
     destinations : {Destinations("hold")}, governors : {NoGovernors}, pending : {{}}, validators : {{"own"}}]

\* One file is replaced: a route is withdrawn, the policy or the shares are built again, a
\* destination becomes ready, a governor is named, or a decision is opened.
MCEdited(in) ==
    {[in EXCEPT !.stages = s] : s \in MCStages}
    \cup {[in EXCEPT !.shares = s] : s \in MCShares}
    \cup {[in EXCEPT !.routes = @ \ {r}] : r \in in.routes \ {Always}}
    \cup {[in EXCEPT !.destinations = Destinations("ready")]}
    \cup {[in EXCEPT !.governors = (1 :> To("", TRUE, ""))]}
    \cup {[in EXCEPT !.pending = {d}] : d \in {"layerzero-nativeoft-reconciliation", "initial-wallet-activity-stage"}}
=============================================================================
