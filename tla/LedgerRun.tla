------------------------------ MODULE LedgerRun ------------------------------
(***************************************************************************)
(* The pipeline as an operator runs it: the programs in their documented   *)
(* order, one after the other.  A program may be killed between two of the *)
(* files it replaces, or while it writes one, and is run again; a          *)
(* `.partial` file it leaves stops that program until the operator removes *)
(* it.  What is given (the exchanges' submissions, the reviews, the        *)
(* inventories) may change, and the programs from the submissions on are   *)
(* then run again, as they are when one of them refuses.  Somebody may run *)
(* one of them out of turn, and after a change the operator may leave one  *)
(* out, whose outputs are still there.                                     *)
(***************************************************************************)
EXTENDS Pipeline

CONSTANTS
    Worlds,     \* what may be given at first
    Edited(_),  \* what a change may turn it into
    MaxEdits,   \* bound on the changes
    MaxFaults,  \* bound on the changes, the kills, the runs out of turn and the omissions
    MaxRefusals \* bound on the passes that end with a refusal

ASSUME LedgerAssumption == MaxEdits \in Nat /\ MaxFaults \in Nat /\ MaxRefusals \in Nat

VARIABLES
    world,   \* what is given
    files,   \* what was generated: label -> content
    partial, \* the `.partial` files that are left: program and place among its writes
    pc,      \* the place in the script
    edits, faults,
    refusals \* how often a program refused since the last change or fault, but for a `.partial` file

vars == <<world, files, partial, pc, edits, faults, refusals>>

Finished == pc > Len(Script)

\* The first program that depends on something that may change.
Again == SelectInSeq(Script, LAMBDA p : p = "normalize")

\* The programs that are not themselves a condition of the release.
Skippable == {"new-holders", "overlay", "overlay-meta", "filter", "filter-meta", "activity", "summarize",
              "bootstrap", "eligibility", "stage-policy", "accounting", "shares", "non-issuance",
              "wone-routes", "contract-routes", "apply-routes"}

Init ==
    /\ world \in Worlds
    /\ files = [l \in Labels |-> IF l \in {"norm", "audits", "cache"} THEN <<>> ELSE NoFile]
    /\ partial = {}
    /\ pc = 1
    /\ edits = 0 /\ faults = 0 /\ refusals = 0

\* The files after the first n writes of a run.
After(writes, n) ==
    FoldLeft(LAMBDA f, x : [f EXCEPT ![x.file] = x.content], files, SubSeq(writes, 1, n))

Places(p) == {x[2] : x \in {y \in partial : y[1] = Tool(p)}}

Leave(p, places) == partial' = partial \cup {<<Tool(p), i>> : i \in places}

\* What the program at place i of the script would do now.
Run(i) == Attempt(Script[i], Program(Script[i], files, world), Places(Script[i]))

\* The next program of the script runs to its end, or refuses.
Runs(run) ==
    /\ files' = After(run.writes, Len(run.writes))
    /\ Leave(Script[pc], run.left)
    /\ pc' = IF run.ok THEN pc + 1 ELSE IF pc > Again THEN Again ELSE pc
    /\ refusals' = IF run.ok \/ run.stuck THEN refusals ELSE refusals + 1

Step ==
    /\ ~Finished /\ refusals < MaxRefusals
    /\ Runs(Run(pc))
    /\ UNCHANGED <<world, edits, faults>>

\* The program is killed after n of its writes, or while it writes the next file; the operator
\* will run it again.
Kill ==
    /\ ~Finished /\ edits + faults < MaxFaults
    /\ \E run \in {Run(pc)} : \E n \in 0 .. Len(run.writes) - 1 :
         /\ files' = After(run.writes, n)
         /\ \/ n > 0 /\ UNCHANGED partial
            \/ Renamed(run.writes[n + 1]) /\ Leave(Script[pc], {n + 1})
    /\ faults' = faults + 1 /\ refusals' = 0
    /\ UNCHANGED <<world, pc, edits>>

\* The operator removes the `.partial` files.
CleanUp ==
    /\ partial # {} /\ partial' = {}
    /\ UNCHANGED <<world, files, pc, edits, faults, refusals>>

\* Something given changes, and the operator starts over from there.
Edit ==
    /\ pc >= Again /\ edits < MaxEdits /\ edits + faults < MaxFaults
    /\ world' \in Edited(world)
    /\ pc' = Again
    /\ edits' = edits + 1 /\ refusals' = 0
    /\ UNCHANGED <<files, partial, faults>>

\* A program runs out of turn.
Stray ==
    /\ pc > Again /\ ~Finished /\ edits + faults < MaxFaults
    /\ \E i \in Again .. Len(Script) : \E run \in {Run(i)} :
         /\ files' = After(run.writes, Len(run.writes)) /\ files' # files
         /\ Leave(Script[i], run.left)
    /\ faults' = faults + 1 /\ refusals' = 0
    /\ UNCHANGED <<world, pc, edits>>

\* A program is left out, since its outputs are there from before the change.
Skip ==
    /\ ~Finished /\ edits > 0 /\ edits + faults < MaxFaults
    /\ Script[pc] \in Skippable
    /\ pc' = pc + 1
    /\ faults' = faults + 1 /\ refusals' = 0
    /\ UNCHANGED <<world, files, partial, edits>>

\* The end, or the operator gives up.
Rest == (Finished \/ refusals = MaxRefusals) /\ UNCHANGED vars

Next == Step \/ Kill \/ CleanUp \/ Edit \/ Stray \/ Skip \/ Rest

Spec == Init /\ [][Next]_vars

-----------------------------------------------------------------------------
\* What an address had at the cutoff: liquid and under way, and staked or on its way back.
Liquid(a) ==
    Field(world.chain.shard0, a, "balance") + Field(world.chain.shard1, a, "balance")
    + MapThenSumSet(LAMBDA r : r.amount, {r \in world.chain.receipts : r.to = a})

Bonded(a) ==
    Field(world.chain.staking, a, "active") + Field(world.chain.staking, a, "undelegation")
    + Field(world.chain.staking, a, "reward")

Owned(a) == Liquid(a) + Bonded(a)

Addresses == DOMAIN world.chain.shard0 \cup DOMAIN world.chain.shard1 \cup DOMAIN world.chain.staking
             \cup {r.to : r \in world.chain.receipts}

Withheld(a) == At(world.existing, a) + At(world.caps, a) + At(world.leaks, a)

\* The wallets an exchange sent in.
Wallets(e) == DOMAIN world.submissions[e].wallets \cup world.submissions[e].supplement

Sent(e) == Total(files.deliveries[e], LAMBDA d : d.amount)

plan == files.plan_wallets \cup files.plan_shares

\* What docs/reproduce.md asks for before the plan is released and the exchanges are paid:
\* every program has got to its end and the three reports say "ready".
Releasable ==
    /\ Finished
    /\ files.plansum = "ready"
    /\ files.routingsum.ready.status = "ready" /\ files.routingsum.exchange = "ready"

\* Once every program and every verifier has run to its end, the initial plan, the transfers to
\* the exchanges, the later stages, what is not issued and what stays below the threshold add up
\* to what the chain held at the cutoff (the sums of apply-routes, the stage policy, the native
\* policy and the WONE overlay, across all of their files).
EveryCoinHasOnePlace ==
    Releasable =>
        LET totals == files.routingsum.totals
            routed == UNION {Wallets(e) : e \in DOMAIN world.submissions}
                      \cup {a \in Addresses : Withheld(a) > 0}
            below == {a \in DOMAIN files.migration : files.migration[a].qualification < Minimum} \ routed
        IN  Sum(plan) + MapThenSumSet(Sent, DOMAIN files.deliveries)
            + At(totals, "next_stage") + At(totals, "deferred") + At(totals, "manual_review")
            + files.routingsum.notIssued
            + MapThenSumSet(LAMBDA a : files.migration[a].total, below)
            = MapThenSumSet(Owned, Addresses)

\* The wallet rows of the plan by address, where nothing is withheld from the stake, and the evidence that goes with them.
Listed ==
    LET Wallet(a) == Owned(a) - Field(world.chain.staking, a, "active") + At(world.holders, a)
        whole == {a \in {r.source : r \in files.plan_wallets} : Withheld(a) <= Wallet(a)}
    IN  [a \in whole |-> Sum({r \in files.plan_wallets : r.source = a})]

Evidence ==
    [a \in DOMAIN files.enriched |->
        [deduction |-> Withheld(a), pending |-> Field(files.native, a, "receipt"),
         tx |-> <<a, files.enriched[a].activity>>]]

Transactions ==
    {[hash |-> <<a, world.activity[a]>>, at |-> world.activity[a], parties |-> {a}, canonical |-> TRUE] :
        a \in DOMAIN world.activity}

\* An address of the initial plan gets all it owned and its wrapped coins, less what is withheld;
\* that is at least the threshold, the address was active, and no exchange has sent it in: it is
\* not paid here and by hand.  What it gets in its wallet is confirmed by verify_cutoff_amounts,
\* which shares no file with the programs that made the plan but the evidence.
PlanPaysWhatWasOwned ==
    Releasable =>
        /\ verify_cutoff_amounts(world.chain, world.holders, Transactions, InitialSince, Listed, Evidence)
        /\ \A a \in {r.source : r \in plan} :
             LET whole == Owned(a) + At(world.holders, a) - Withheld(a) IN
             /\ Sum({r \in plan : r.source = a}) = whole
             /\ whole >= Minimum
             /\ world.activity[a] >= InitialSince
             /\ \A e \in DOMAIN world.submissions : a \notin Wallets(e)

\* An exchange is sent all that its wallets owned, wrapped coins included, to the places it gave;
\* where it gave two, the second gets what was staked or on its way back from staking.
ExchangesArePaidApart ==
    Releasable => \A e \in DOMAIN world.submissions :
        LET places == world.submissions[e].destination
            At2(to) == MapThenSumSet(LAMBDA k : files.deliveries[e][k].amount,
                                     {k \in DOMAIN files.deliveries[e] : k[2] = to})
        IN  /\ Sent(e) = MapThenSumSet(LAMBDA a : Owned(a) + At(world.holders, a), Wallets(e))
            /\ world.submissions[e].mode = "aggregate_split" =>
                 At2(places["staking"]) = MapThenSumSet(Bonded, Wallets(e))

\* The verdict on the wrapped coin is the one the ledger pass would give now, cache or no cache.
VerdictNeedsNoCache == Releasable => ledger_pass(WoneInputs(files, world)).ok

\* However a program was killed, run out of turn or left out, and whatever was changed, the
\* damage is gone after one refusal: the next pass over the script is accepted by every program
\* and verifier, unless an exchange has yet to say where it wants to be paid.  A pass that a
\* `.partial` file stops does not count, since no program removes one; but the stopped passes,
\* and what they replaced before they were stopped, add no refusal of another kind.
OnePassRepairs ==
    refusals > 1 => \E e \in DOMAIN world.submissions : /\ world.submissions[e].mode # "same_address"
                                                       /\ world.submissions[e].destination = NoFile
==============================================================================
