------------------------------ MODULE Routing ------------------------------
(***************************************************************************)
(* toolkit/scripts/routing/apply-routes.py as a function: from the claims, *)
(* the stage policy, the vault shares, the routes and their destinations   *)
(* to the rows that say where every part of every claim goes.              *)
(*                                                                         *)
(* The inputs are one record `in':                                         *)
(*   claims  address -> [category, code, wallet, wone, staked, liquid]     *)
(*   stages  address -> [stage, treatment, wallet, staked, category,       *)
(*           classification]                                              *)
(*   shares  <<validator, address>> -> amount, the priority and deferred   *)
(*           share files together                                         *)
(*   routes  set of [id, priority, source, take, n, method, reason, to]    *)
(*   destinations  destination id -> status                               *)
(*   governors     validator -> the destination of an override             *)
(*   pending       the undecided policy decisions                         *)
(*   validators    the verified validator accounts                        *)
(* A destination `to' is [id, direct, status] of its row.  Validators are  *)
(* numbers in the order of their secure keys; Owner gives their addresses. *)
(* Parsing, addresses, the origin of the contract policy routes and the    *)
(* deposits of the base vaults are left out; a route's id stands for the   *)
(* destination it resolves to.                                             *)
(***************************************************************************)
EXTENDS Integers, FiniteSets, SequencesExt

CONSTANTS
    Validator,  \* validators, by the order of their secure keys
    Owner       \* validator -> its address

ASSUME RoutingAssumption == Validator \subseteq Nat /\ IsFiniteSet(Validator) /\ DOMAIN Owner = Validator

Sum(rows) == MapThenSumSet(LAMBDA r : r.amount, rows)

\* resolve_destination: the status a row's destination has, or "error".
Resolve(to, destinations) ==
    LET known == to.id \in DOMAIN destinations
    IN  CASE to.direct /\ to.status \in {"not_issuing", "redistributed"} -> "error"
          [] to.direct -> IF to.status = "" THEN "ready" ELSE to.status
          [] ~to.direct /\ ~known -> IF to.status \in {"", "hold"} THEN "hold" ELSE "error"
          [] known /\ to.status \in {"not_issuing", "redistributed"} /\ destinations[to.id] # to.status -> "error"
          [] known /\ to.status = "exchange_manual" /\ destinations[to.id] \notin {"exchange_manual", "hold"} -> "error"
          [] OTHER -> IF to.status = "hold" THEN "hold" ELSE destinations[to.id]

route_stage(policy, r) == IF r.reason = "exchange" THEN "exchange_manual" ELSE policy.stage

route_treatment(reason, status) ==
    CASE reason = "exchange" -> IF status \in {"exchange_manual", "hold"} THEN "manual_from_reserve" ELSE "error"
      [] reason # "exchange" /\ status = "exchange_manual" -> "error"
      [] status = "not_issuing" -> "not_issued"
      [] status = "redistributed" -> "redistributed"
      [] OTHER -> "issue"

-----------------------------------------------------------------------------
(***************************************************************************)
(* The claims of the run.  A claim below the threshold is read only when a *)
(* route names it, and is left to manual review.                           *)
(***************************************************************************)
Loaded(in) ==
    {a \in DOMAIN in.claims :
        in.claims[a].category = "deferred" => \E r \in in.routes : r.source = a}

Policy(in, a) ==
    IF a \in DOMAIN in.stages THEN in.stages[a]
    ELSE [stage |-> "manual_review", treatment |-> "issue", wallet |-> -1, staked |-> -1]

\* load_validator_accounts: the code-bearing automatic claims.
validator_accounts(in) ==
    {a \in DOMAIN in.claims : in.claims[a].category = "automatic" /\ in.claims[a].code = "yes"}

Positions(in, a) ==
    [v \in {w \in Validator : <<w, a>> \in DOMAIN in.shares} |-> in.shares[<<v, a>>]]

\* What main checks before it routes anything.
InputsOk(in) ==
    /\ \A a \in DOMAIN in.claims : in.claims[a].wone <= in.claims[a].wallet
    /\ \A a \in DOMAIN in.stages :
         LET s == in.stages[a] IN
         IF s.treatment = "issue" THEN s.stage # "" /\ s.wallet + s.staked > 0
         ELSE s.stage = "" /\ s.wallet + s.staked = 0
    /\ in.validators = validator_accounts(in)
    /\ DOMAIN in.stages = {a \in DOMAIN in.claims : in.claims[a].category # "deferred"}
    /\ \A r \in in.routes : Resolve(r.to, in.destinations) # "error"
    /\ \A r, q \in in.routes : r.take = "all" /\ q.take = "all" /\ r.source = q.source => r = q
    /\ \A a \in Loaded(in) : SumFunction(Positions(in, a)) = in.claims[a].staked
    /\ \A v \in DOMAIN in.governors :
         Resolve(in.governors[v], in.destinations) \notin {"error", "not_issuing", "redistributed"}

-----------------------------------------------------------------------------
(***************************************************************************)
(* pro_rata: `amount' over the positions in proportion, the units lost to  *)
(* rounding to the largest remainders, in key order where they are equal.  *)
(* Its two closing checks are what RoutesClose says.                       *)
(***************************************************************************)

\* Mistaken variant of pro_rata: the units lost to rounding are forgotten.
pro_rata_floor(amount, pos) ==
    [v \in DOMAIN pos |-> IF amount = 0 THEN 0 ELSE (amount * pos[v]) \div SumFunction(pos)]

pro_rata(amount, pos) ==
    LET total == SumFunction(pos)
        share(v) == (amount * pos[v]) \div total
        rest(v) == (amount * pos[v]) % total
        extras == amount - SumFunction([v \in DOMAIN pos |-> share(v)])
        before(v) == {w \in DOMAIN pos : pos[w] > 0 /\ (rest(w) > rest(v) \/ (rest(w) = rest(v) /\ w < v))}
    IN  [v \in DOMAIN pos |->
            IF amount = 0 \/ pos[v] = 0 THEN 0
            ELSE share(v) + IF Cardinality(before(v)) < extras THEN 1 ELSE 0]

\* The routes of an address in the order they are applied.
RoutesOf(in, a) ==
    SetToSortSeq({r \in in.routes : r.source = a},
                 LAMBDA r, q : r.priority < q.priority \/ (r.priority = q.priority /\ r.id < q.id))

\* The rows of one route: the wallet amount and the share of each position.
RowsOf(a, wallet, parts, r) ==
    LET row(component, v, n) ==
            [component |-> component, source |-> a, validator |-> v, amount |-> n, route |-> r.id,
             stage |-> r.stage, treatment |-> r.treatment, status |-> r.status,
             exception |-> r.exception, reason |-> r.reason]
    IN  {row("wallet", 0, wallet)} \cup {row("shares", v, parts[v]) : v \in DOMAIN parts}

\* How much of the wallet and of the vault positions the route takes.
Amount(in, a, left, r) ==
    CASE r.take = "all" -> left.wallet + SumFunction(left.pos)
      [] r.take = "shard0_liquid" -> in.claims[a].liquid
      [] OTHER -> r.n

FromWallet(r, amount, wallet) ==
    CASE r.method = "wallet_first_pro_rata_vault" -> IF wallet < amount THEN wallet ELSE amount
      [] r.method = "wallet_only" -> amount
      [] OTHER -> 0

\* One turn of the loop over an address's routes.
ApplyRoute(in, a, left, r) ==
    LET amount == Amount(in, a, left, r)
        wallet == FromWallet(r, amount, left.wallet)
        vault == amount - wallet
        parts == pro_rata(vault, left.pos)
        status == Resolve(r.to, in.destinations)
        full == [id |-> r.id, stage |-> route_stage(Policy(in, a), r), status |-> status, reason |-> r.reason,
                 treatment |-> route_treatment(r.reason, status), exception |-> "explicit_route"]
        ok == /\ left.ok
              /\ full.treatment # "error"
              /\ amount > 0
              /\ wallet <= left.wallet /\ vault <= SumFunction(left.pos)
    IN  IF ~ok THEN [left EXCEPT !.ok = FALSE]
        ELSE [ok |-> TRUE, wallet |-> left.wallet - wallet,
              pos |-> [v \in DOMAIN left.pos |-> left.pos[v] - parts[v]],
              rows |-> left.rows \cup RowsOf(a, wallet, parts, full)]

\* Where an address goes that no route takes.
DefaultRoute(in, a) ==
    LET category == in.claims[a].category
    IN  [id |-> 0, stage |-> Policy(in, a).stage, treatment |-> "issue", reason |-> "default",
         status |-> IF category = "automatic" THEN "ready" ELSE "hold",
         exception |-> IF a \in validator_accounts(in) /\ ~\E r \in in.routes : r.source = a /\ r.reason = "exchange"
                       THEN "validator_wrapper_same_address"
                       ELSE IF category = "automatic" THEN "" ELSE "hold"]

\* All rows of an address: its routes in order, and the default for the rest.
WithDefault(in, a, left) ==
    LET last == RowsOf(a, left.wallet, left.pos, DefaultRoute(in, a))
    IN  [left EXCEPT !.rows = {r \in @ \cup last : r.amount # 0}]

RouteClaim(in, a) ==
    LET start == [ok |-> TRUE, wallet |-> in.claims[a].wallet, pos |-> Positions(in, a), rows |-> {}]
    IN  WithDefault(in, a, FoldLeft(LAMBDA l, r : ApplyRoute(in, a, l, r), start, RoutesOf(in, a)))

-----------------------------------------------------------------------------
\* The rows of a run, wallet_rows and share_rows.
Rows(in) == UNION {RouteClaim(in, a).rows : a \in Loaded(in)}

\* The column of the vault table a share row is counted in.
Bucket(row) ==
    CASE row.treatment = "not_issued" -> "not_issued"
      [] row.treatment = "manual_from_reserve" -> "exchange_manual"
      [] OTHER -> row.stage

Stages == {"initial", "exchange_manual", "next_stage", "deferred", "manual_review", "not_issued"}

\* What main checks before it writes its first output.
RoutesOk(in, rows) ==
    /\ \A a \in Loaded(in) : RouteClaim(in, a).ok
    /\ \A a \in Loaded(in) : in.claims[a].code = "yes" => \E r \in rows : r.source = a /\ r.exception # ""
    /\ \A r \in rows : r.component = "shares" => r.treatment # "redistributed" /\ Bucket(r) \in Stages

exceptions_output(rows) == {r \in rows : r.exception # ""}

vault_stage_output(rows) ==
    [v \in Validator |-> [s \in Stages |->
        Sum({r \in rows : r.component = "shares" /\ r.validator = v /\ Bucket(r) = s})]]

\* The status of each vault's governor that is not simply the validator's own key.
governor_exceptions_output(in) ==
    LET routed == {v \in Validator : \E r \in in.routes : r.source = Owner[v]}
    IN  [v \in DOMAIN in.governors \cup routed |->
            IF v \in DOMAIN in.governors THEN Resolve(in.governors[v], in.destinations) ELSE "hold"]

Held(governors) == {v \in DOMAIN governors : governors[v] = "hold"}

Issued(row) == row.treatment \in {"issue", "manual_from_reserve"}

Compiled(rows, a, component) == Sum({r \in rows : r.source = a /\ r.component = component /\ Issued(r)})

\* What main checks after it has written them, before the summary.
RunOk(in, rows) ==
    /\ \A r \in rows : (r.component = "wallet" /\ r.status = "not_issuing" /\ in.claims[r.source].wone > 0)
                         => /\ r.source \in DOMAIN in.stages
                            /\ in.stages[r.source].classification = "genuine_contract"
                            /\ in.stages[r.source].treatment = "not_issued"
    /\ Sum({r \in rows : r.treatment = "redistributed"}) = MapThenSumSet(LAMBDA a : in.claims[a].wone, Loaded(in))
    /\ \A r \in rows : Issued(r) => r.stage # ""
    /\ \A a \in DOMAIN in.stages : /\ Compiled(rows, a, "wallet") = in.stages[a].wallet
                                   /\ Compiled(rows, a, "shares") = in.stages[a].staked

\* The stages a pending decision holds up.
Scope(decision) ==
    CASE decision = "layerzero-nativeoft-reconciliation" -> {"next_stage"}
      [] OTHER -> {"initial", "next_stage", "deferred", "manual_review"}

\* stage_readiness of the initial stage.
readiness(in, rows) ==
    LET of(component, held) == Sum({r \in rows : /\ r.component = component /\ r.stage = "initial" /\ r.treatment = "issue"
                                                 /\ held => r.status = "hold"})
        stuck == Held(governor_exceptions_output(in))
        totals == [wallet |-> of("wallet", FALSE), shares |-> of("shares", FALSE),
                   held_wallet |-> of("wallet", TRUE), held_shares |-> of("shares", TRUE),
                   held_governors |-> SumFunctionOnSet([v \in Validator |-> vault_stage_output(rows)[v]["initial"]], stuck),
                   pending |-> {d \in in.pending : "initial" \in Scope(d)}]
    IN  [totals |-> totals,
         status |-> IF /\ totals.held_wallet + totals.held_shares = 0
                       /\ totals.held_governors = 0 /\ totals.pending = {}
                    THEN "ready" ELSE "hold"]
=============================================================================
