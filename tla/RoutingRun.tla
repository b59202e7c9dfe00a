----------------------------- MODULE RoutingRun -----------------------------
(***************************************************************************)
(* The routing and the initial plan as an operator runs them: apply-routes *)
(* reads its inputs, replaces four outputs one after the other, checks     *)
(* what it computed and only then writes the summary;                      *)
(* materialize-initial-stage compares the summary's hashes with the files  *)
(* and replaces its own outputs.  Either may raise or be killed between    *)
(* two writes, and the inputs may be replaced at any time.  A file is its  *)
(* content, so equal hashes are equal contents.                            *)
(***************************************************************************)
EXTENDS InitialStage

CONSTANTS
    Inputs,    \* the inputs there may be at first
    Edited(_), \* the inputs one replacement may turn them into
    MaxEdits,  \* bound on the replacements
    MaxKills   \* bound on the kills

ASSUME RunAssumption == MaxEdits \in Nat /\ MaxKills \in Nat

VARIABLES
    inputs,   \* the input files
    disk,     \* the outputs of apply-routes: label -> content
    summary,  \* its summary
    partial,  \* the .partial files left behind
    plans,    \* the outputs of materialize-initial-stage: label -> content
    report,   \* its summary
    pc,       \* what runs, and the outputs it has still to write
    run,      \* what it holds in memory
    edits, kills

vars == <<inputs, disk, summary, partial, plans, report, pc, run, edits, kills>>

None == [kind |-> "none"]

Idle == [what |-> "idle", todo |-> <<>>]

Outputs == <<"exceptions", "governors", "vaults", "unresolved">>

Plans == <<"plan_wallets", "plan_shares", "plan_vaults", "plan_unresolved">>

Init ==
    /\ inputs \in Inputs
    /\ disk = [o \in ToSet(Outputs) |-> None]
    /\ summary = None
    /\ partial = {}
    /\ plans = [o \in ToSet(Plans) |-> None]
    /\ report = None
    /\ pc = Idle /\ run = None
    /\ edits = 0 /\ kills = 0

\* Somebody replaces an input file.
Edit ==
    /\ edits < MaxEdits
    /\ inputs' \in Edited(inputs) \ {inputs}
    /\ edits' = edits + 1
    /\ UNCHANGED <<disk, summary, partial, plans, report, pc, run, kills>>

-----------------------------------------------------------------------------
(* apply-routes *)

\* main up to its first output.  It refuses to start over a .partial file of its own.
Load ==
    LET rows == Rows(inputs) IN
    /\ pc = Idle
    /\ partial \cap ToSet(Outputs \o <<"summary">>) = {}
    /\ InputsOk(inputs) /\ RoutesOk(inputs, rows)
    /\ run' = [kind |-> "routing", in |-> inputs, rows |-> rows]
    /\ pc' = [what |-> "apply", todo |-> Outputs]
    /\ UNCHANGED <<inputs, disk, summary, partial, plans, report, edits, kills>>

\* What an output holds.
OutputOf(label) ==
    CASE label = "exceptions" -> [kind |-> "file", rows |-> exceptions_output(run.rows)]
      [] label = "governors" -> [kind |-> "file", status |-> governor_exceptions_output(run.in)]
      [] label = "vaults" -> [kind |-> "file", stages |-> vault_stage_output(run.rows)]
      [] OTHER -> [kind |-> "file", held |-> {r \in exceptions_output(run.rows) : r.status = "hold"},
                   governors |-> Held(governor_exceptions_output(run.in))]

Write ==
    /\ pc.what = "apply" /\ pc.todo # <<>>
    /\ disk' = [disk EXCEPT ![Head(pc.todo)] = OutputOf(Head(pc.todo))]
    /\ pc' = [pc EXCEPT !.todo = Tail(@)]
    /\ UNCHANGED <<inputs, summary, partial, plans, report, run, edits, kills>>

\* The summary names the outputs and the stage policy as they are on disk by then; `of' is the
\* run it describes.
SummaryOf ==
    [kind |-> "summary", stages |-> inputs.stages, outputs |-> disk,
     ready |-> readiness(run.in, run.rows), of |-> run]

\* The remaining checks, and the summary.
Close ==
    /\ pc.what = "apply" /\ pc.todo = <<>>
    /\ summary' = IF RunOk(run.in, run.rows) THEN SummaryOf ELSE summary
    /\ pc' = Idle /\ run' = None
    /\ UNCHANGED <<inputs, disk, partial, plans, report, edits, kills>>

-----------------------------------------------------------------------------
(* materialize-initial-stage *)

\* Mistaken variant of Identified: the outputs are not compared with the summary.
StageIdentified ==
    /\ summary # None
    /\ summary.stages = inputs.stages
    /\ \A o \in {"exceptions", "governors", "vaults"} : disk[o] # None

\* load_routing_summary: the summary identifies the stage policy and the outputs.
Identified ==
    /\ summary # None
    /\ summary.stages = inputs.stages
    /\ \A o \in {"exceptions", "governors", "vaults"} : disk[o] # None /\ disk[o] = summary.outputs[o]

\* main up to its first output.
Materialize ==
    LET exceptions == disk["exceptions"].rows
        vaults == disk["vaults"].stages
        governors == disk["governors"].status
    IN  /\ pc = Idle
        /\ Identified
        /\ MaterializeOk(inputs.stages, inputs.shares, exceptions, vaults, governors, summary.ready)
        /\ run' = [kind |-> "plan", stages |-> inputs.stages, shares |-> inputs.shares,
                   rows |-> materialize(inputs.stages, inputs.shares, exceptions),
                   vaults |-> vaults, governors |-> governors,
                   status |-> summary.ready.status, of |-> summary.of]
        /\ pc' = [what |-> "materialize", todo |-> Plans]
        /\ UNCHANGED <<inputs, disk, summary, partial, plans, report, edits, kills>>

\* What an output holds: rows, or the vaults and the governors they were made from.
PlanOf(label) ==
    CASE label = "plan_wallets" -> [kind |-> "file", rows |-> {r \in run.rows : r.component = "wallet"}]
      [] label = "plan_shares" -> [kind |-> "file", rows |-> {r \in run.rows : r.component = "shares"}]
      [] label = "plan_vaults" -> [kind |-> "file", vaults |-> run.vaults, governors |-> run.governors]
      [] OTHER -> [kind |-> "file", held |-> {r \in run.rows : r.status = "hold"},
                   governors |-> held_vaults(run.vaults, run.governors)]

WritePlan ==
    /\ pc.what = "materialize" /\ pc.todo # <<>>
    /\ Head(pc.todo) \notin partial
    /\ plans' = [plans EXCEPT ![Head(pc.todo)] = PlanOf(Head(pc.todo))]
    /\ pc' = [pc EXCEPT !.todo = Tail(@)]
    /\ UNCHANGED <<inputs, disk, summary, partial, report, run, edits, kills>>

Report ==
    /\ pc.what = "materialize" /\ pc.todo = <<>>
    /\ "plan_summary" \notin partial
    /\ report' = [kind |-> "report", run |-> run]
    /\ pc' = Idle /\ run' = None
    /\ UNCHANGED <<inputs, disk, summary, partial, plans, edits, kills>>

\* The .partial file of an earlier attempt is in the way: the outputs before it were replaced.
Refuse ==
    /\ pc.what = "materialize"
    /\ (IF pc.todo = <<>> THEN "plan_summary" ELSE Head(pc.todo)) \in partial
    /\ pc' = Idle /\ run' = None
    /\ UNCHANGED <<inputs, disk, summary, partial, plans, report, edits, kills>>

-----------------------------------------------------------------------------
\* The program is killed, perhaps while it writes a file.
Kill ==
    /\ pc # Idle /\ kills < MaxKills
    /\ LET file == IF pc.todo # <<>> THEN Head(pc.todo)
                   ELSE IF pc.what = "apply" THEN "summary" ELSE "plan_summary"
       IN  partial' \in {partial, partial \cup {file}}
    /\ pc' = Idle /\ run' = None
    /\ kills' = kills + 1
    /\ UNCHANGED <<inputs, disk, summary, plans, report, edits>>

\* The operator removes what a killed program left.
CleanUp ==
    /\ pc = Idle /\ partial # {}
    /\ partial' = {}
    /\ UNCHANGED <<inputs, disk, summary, plans, report, pc, run, edits, kills>>

Next ==
    \/ Edit \/ Load \/ Write \/ Close
    \/ Materialize \/ WritePlan \/ Report \/ Refuse
    \/ Kill \/ CleanUp

Spec == Init /\ [][Next]_vars

-----------------------------------------------------------------------------
(* Properties. *)

\* Every unit of every claim goes to exactly one row, position by position, and a route with a
\* fixed amount gets exactly that, however the routes of one source follow each other and however
\* the vault amounts are rounded ("routed components do not close", "pro-rata allocation does not
\* close" and "pro-rata allocation exceeds position" are never raised).
RoutesClose ==
    run.kind = "routing" /\ pc.todo = Outputs =>
        LET in == run.in IN
        /\ \A r \in run.rows : r.amount > 0
        /\ \A a \in Loaded(in) :
             /\ Sum({r \in run.rows : r.source = a /\ r.component = "wallet"}) = in.claims[a].wallet
             /\ \A v \in Validator :
                  Sum({r \in run.rows : r.source = a /\ r.component = "shares" /\ r.validator = v})
                    = IF <<v, a>> \in DOMAIN in.shares THEN in.shares[<<v, a>>] ELSE 0
        /\ \A q \in in.routes : q.take = "fixed" => Sum({r \in run.rows : r.route = q.id}) = q.n

\* The summary was made from the inputs its own run read, and the plan from the same shares.  No
\* hash binds the shares or the moment at which the stage policy was read.
Bound(plan) == plan.stages = plan.of.in.stages /\ plan.shares = plan.of.in.shares

\* The rows a routing issues in the initial stage.
InitialRows(rows) == {Plan(r) : r \in {q \in rows : q.stage = "initial" /\ q.treatment = "issue"}}

\* The plan that materialize-initial-stage infers from the exceptions is exactly the initial rows
\* of one routing that passed all of its checks, whatever was edited, killed or refused between
\* the writes of the two programs.  An address with an exchange route is not in it, and if it is
\* reported ready it holds nothing back: no row without a destination, no vault whose governor
\* waits for a decision, and no pending decision about the initial stage.
PlanIsTheRouting ==
    report # None /\ Bound(report.run) =>
        LET in == report.run.of.in
            rows == report.run.rows
        IN  /\ rows = InitialRows(report.run.of.rows)
            /\ RunOk(in, report.run.of.rows)
            /\ \A r \in rows : ~\E q \in in.routes : q.source = r.source /\ q.reason = "exchange"
            /\ report.run.status = "ready" =>
                 /\ \A r \in rows : r.status = "ready"
                 /\ \A d \in in.pending : "initial" \notin Scope(d)
                 /\ \A r \in rows : r.component = "shares" /\ r.validator \notin DOMAIN in.governors =>
                      ~\E q \in in.routes : q.source = Owner[r.validator]
=============================================================================
