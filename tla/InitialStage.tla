---------------------------- MODULE InitialStage ----------------------------
(***************************************************************************)
(* toolkit/scripts/routing/materialize-initial-stage.py as a function: the *)
(* initial wallet and vault allocations, made again from the stage policy, *)
(* the base shares and the exceptions that apply-routes wrote.  Rows that  *)
(* need no exception were not written; they are inferred here.             *)
(***************************************************************************)
EXTENDS Routing

\* The addresses of the initial stage; an exchange route takes its address out.
Initial(stages, exceptions) ==
    {a \in DOMAIN stages :
        /\ stages[a].stage = "initial"
        /\ ~\E r \in exceptions : r.source = a /\ r.reason = "exchange"}

\* load_exceptions raises on a row whose stage or treatment contradicts its source.
ExceptionsOk(stages, exceptions) ==
    \A r \in exceptions :
        /\ r.source \in DOMAIN stages =>
             r.stage = stages[r.source].stage \/ (r.reason = "exchange" /\ r.stage = "exchange_manual")
        /\ r.treatment = route_treatment(r.reason, r.status)

Explicit(exceptions, a, component, v) ==
    {r \in exceptions : r.source = a /\ r.component = component /\ r.validator = v}

Issue(rows) == {r \in rows : r.treatment = "issue"}

Row(component, a, v, amount, route, status) ==
    [component |-> component, source |-> a, validator |-> v, amount |-> amount, route |-> route, status |-> status]

\* A row of the plan for a row of the routing.
Plan(r) == Row(r.component, r.source, r.validator, r.amount, r.route, r.status)

implicit_wallet(stages, exceptions, a) ==
    stages[a].wallet - Sum(Issue(Explicit(exceptions, a, "wallet", 0)))

WalletsOk(stages, exceptions) ==
    \A a \in Initial(stages, exceptions) :
        LET implicit == implicit_wallet(stages, exceptions, a)
        IN  /\ implicit >= 0
            /\ implicit > 0 => stages[a].category = "automatic_policy" /\ stages[a].classification = "wallet"

materialize_wallets(stages, exceptions) ==
    LET initial == Initial(stages, exceptions)
        implicit(a) == implicit_wallet(stages, exceptions, a)
    IN  UNION {{Plan(r) : r \in Issue(Explicit(exceptions, a, "wallet", 0))} : a \in initial}
        \cup {Row("wallet", a, 0, implicit(a), 0, "ready") : a \in {b \in initial : implicit(b) > 0}}

\* The base positions of the initial addresses.
Base(stages, shares, exceptions) == {p \in DOMAIN shares : p[2] \in Initial(stages, exceptions)}

implicit_shares(shares, exceptions, p) ==
    shares[p] - Sum(Explicit(exceptions, p[2], "shares", p[1]))

materialize_shares(stages, shares, exceptions) ==
    LET base == Base(stages, shares, exceptions)
        implicit(p) == implicit_shares(shares, exceptions, p)
    IN  UNION {{Plan(r) : r \in Issue(Explicit(exceptions, p[2], "shares", p[1]))} : p \in base}
        \cup {Row("shares", p[2], p[1], implicit(p), 0, "ready") : p \in {q \in base : implicit(q) > 0}}

SharesOk(stages, shares, exceptions) ==
    /\ \A p \in Base(stages, shares, exceptions) :
         LET implicit == implicit_shares(shares, exceptions, p)
         IN  implicit >= 0 /\ (implicit > 0 => stages[p[2]].category = "automatic_policy")
    /\ \A a \in Initial(stages, exceptions) :
         Sum({r \in materialize_shares(stages, shares, exceptions) : r.source = a}) = stages[a].staked

\* materialize_vaults: every vault's initial assets are the shares of the plan.
VaultsOk(vaults, plan) ==
    \A v \in Validator :
        vaults[v]["initial"] = Sum({r \in plan : r.component = "shares" /\ r.validator = v})

\* The vaults of the plan whose governor is not settled.
held_vaults(vaults, governors) == {v \in Held(governors) : vaults[v]["initial"] > 0}

materialize(stages, shares, exceptions) ==
    materialize_wallets(stages, exceptions) \cup materialize_shares(stages, shares, exceptions)

\* The totals main compares with the readiness of the routing summary.
TotalsOf(plan, vaults, governors, pending) ==
    LET of(component, held) == Sum({r \in plan : r.component = component /\ (held => r.status = "hold")})
    IN  [wallet |-> of("wallet", FALSE), shares |-> of("shares", FALSE),
         held_wallet |-> of("wallet", TRUE), held_shares |-> of("shares", TRUE),
         held_governors |-> SumFunctionOnSet([v \in Validator |-> vaults[v]["initial"]], held_vaults(vaults, governors)),
         pending |-> pending]

\* ready when build_unresolved finds nothing.
computed_status(plan, vaults, governors, pending) ==
    IF (\E r \in plan : r.status = "hold") \/ held_vaults(vaults, governors) # {} \/ pending # {}
    THEN "hold" ELSE "ready"

\* main, up to its first output.
MaterializeOk(stages, shares, exceptions, vaults, governors, ready) ==
    LET plan == materialize(stages, shares, exceptions)
        of(component) == Sum({r \in plan : r.component = component})
        initial == Initial(stages, exceptions)
    IN  /\ ExceptionsOk(stages, exceptions)
        /\ WalletsOk(stages, exceptions)
        /\ SharesOk(stages, shares, exceptions)
        /\ VaultsOk(vaults, plan)
        /\ of("wallet") = MapThenSumSet(LAMBDA a : stages[a].wallet, initial)
        /\ of("shares") = MapThenSumSet(LAMBDA a : stages[a].staked, initial)
        /\ TotalsOf(plan, vaults, governors, ready.totals.pending) = ready.totals
        /\ computed_status(plan, vaults, governors, ready.totals.pending) = ready.status
=============================================================================
