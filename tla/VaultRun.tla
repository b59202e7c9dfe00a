------------------------------ MODULE VaultRun -------------------------------
(***************************************************************************)
(* Deploying and funding the vaults from the reserve Safe                  *)
(* (airdrop/tools/vault_batch.py): `build' plans transactions from the     *)
(* deposit list and the chain, reviewers `show' the queue, the owners      *)
(* execute it in nonce order, `deploy' sends deployments from a plain      *)
(* wallet, and `reconcile' compares a run with the chain.                  *)
(*                                                                         *)
(* A transaction <<r, "deploy">> of run r deploys the run's new vaults,    *)
(* <<r, n>> approves and deposits the n-th part of its deposits.  Safe and *)
(* MultiSendCallOnly are external: calls run in order, a call that reverts *)
(* reverts the transaction, which then keeps its nonce, and a call to an   *)
(* address without code succeeds and does nothing.                         *)
(***************************************************************************)
EXTENDS GovernorDelegator

CONSTANTS
  Safe,
  List,        \* the deposit list: <<vault, delegator>> -> amount
  Part,        \* <<vault, delegator>> -> the funding transaction it is packed into
  MinVault,    \* --min-vault-one
  Run,         \* run directories
  Rpc,         \* whether builds read the chain: a subset of BOOLEAN
  Allow,       \* --allow-existing-credits: a subset of BOOLEAN
  Sequential,  \* a build starts only when no other run has a deposit left to make
  Rest,        \* what a delegator who withdraws leaves in the vault
  MaxDropped   \* bound on the transactions rejected although they could be executed

Pair == DOMAIN List

Governor == CHOOSE a \in Account : a # Safe

ASSUME RunAssumption ==
  /\ Safe \in Account /\ Account # {Safe}
  /\ Pair \subseteq Vault \X (Account \ {Safe}) /\ \A p \in Pair : List[p] \in 1 .. MaxUint
  /\ DOMAIN Part = Pair
  /\ Rpc \cup Allow \cup {Sequential} \subseteq BOOLEAN
  /\ MinVault \in Nat /\ Rest \in Nat /\ MaxDropped \in Nat

VARIABLES
  step,      \* run -> "none", "read" or "built"
  online,    \* run -> whether its build read the chain
  fresh,     \* run -> the vaults its build found no code at
  plan,      \* run -> the deposits it funds
  phase,     \* run -> --phase
  proposed,  \* the transactions proposed so far
  queue,     \* the Safe's queue, by nonce
  reviewed,  \* the transactions that passed `show'
  dropped,   \* how many transactions were rejected although they could be executed
  credited,  \* <<vault, delegator>> -> what the Safe has deposited for it, ever
  careful,   \* no run was built without an RPC or with --allow-existing-credits
  report,    \* run -> what `reconcile' said last
  open       \* the funding is over and the vaults are in use

builds == <<step, online, fresh, plan, phase>>

safe == <<proposed, queue, reviewed, dropped>>

vars == <<vaults, builds, safe, credited, careful, report, open>>

Total(S) == SumFunctionOnSet(List, S)

Of(S, v) == {p \in S : p[1] = v}

VaultsOf(S) == {p[1] : p \in S}

Init ==
  /\ VaultInit
  /\ step = [r \in Run |-> "none"]
  /\ online = [r \in Run |-> FALSE]
  /\ fresh = [r \in Run |-> {}]
  /\ plan = [r \in Run |-> {}]
  /\ phase = [r \in Run |-> "all"]
  /\ proposed = {} /\ queue = <<>> /\ reviewed = {} /\ dropped = 0
  /\ credited = [p \in Pair |-> 0]
  /\ careful = TRUE
  /\ report = [r \in Run |-> "none"]
  /\ open = FALSE

-----------------------------------------------------------------------------
(* build *)

\* build looks up the code of the vaults; without an RPC it takes every vault for new.
ReadVaults(r, rpc) ==
  /\ step[r] = "none"
  /\ Sequential => \A q \in Run \ {r} : step[q] = "none" \/ <<step[q], phase[q]>> = <<"built", "deploy">>
  /\ step' = [step EXCEPT ![r] = "read"]
  /\ online' = [online EXCEPT ![r] = rpc]
  /\ fresh' = [fresh EXCEPT ![r] = IF rpc THEN {v \in VaultsOf(Pair) : ~Deployed(v)} ELSE VaultsOf(Pair)]
  /\ UNCHANGED <<plan, phase, vaults, safe, credited, careful, report>>

Credit(p) == balanceOf[p[1]][p[2]]

\* Mistaken variant of Held: the credits in the vaults found without code.
HeldInFresh(r) == {p \in Pair : online[r] /\ p[1] \in fresh[r] /\ Credit(p) # 0}

\* The deposits whose delegator already holds a credit in a vault that exists.
Held(r) == {p \in Pair : online[r] /\ p[1] \notin fresh[r] /\ Credit(p) # 0}

Exact(r, skip) == IF skip THEN {p \in Held(r) : Credit(p) = List[p]} ELSE {}

Stops(r, skip, allow) == Held(r) \ Exact(r, skip) # {} /\ ~allow

\* Mistaken variant of Excluded: the minimum also applies to vaults that exist.
ExcludedAnywhere(r, S) == {v \in VaultsOf(S) : Total(Of(S, v)) < MinVault}

\* The vaults left out because their deposits do not reach the minimum.
Excluded(r, S) == {v \in VaultsOf(S) \cap fresh[r] : Total(Of(S, v)) < MinVault}

\* The deposits of the run.
Included(r, skip) ==
  LET rest == Pair \ Exact(r, skip)
  IN  {p \in rest : p[1] \notin Excluded(r, rest)}

\* build reads the credits, and writes the run or stops.
WritePlan(r, ph, skip, allow) ==
  LET included == Included(r, skip)
      ok == /\ skip => online[r]
            /\ ~Stops(r, skip, allow)
            /\ included # {}
            /\ ph = "fund" /\ online[r] => VaultsOf(included) \cap fresh[r] = {}
  IN  /\ step[r] = "read"
      /\ step' = [step EXCEPT ![r] = IF ok THEN "built" ELSE "none"]
      /\ plan' = [plan EXCEPT ![r] = IF ok THEN included ELSE {}]
      /\ phase' = [phase EXCEPT ![r] = IF ok THEN ph ELSE "all"]
      /\ fresh' = [fresh EXCEPT ![r] = IF ok THEN @ ELSE {}]
      /\ online' = [online EXCEPT ![r] = ok /\ @]
      /\ careful' = (careful /\ (ok => online[r] /\ ~allow))
      /\ UNCHANGED <<vaults, safe, credited, report>>

Deploys(r) == IF phase[r] = "fund" THEN {} ELSE VaultsOf(plan[r]) \cap fresh[r]

\* The deposits of transaction t.
Funds(t) ==
  IF t[2] = "deploy" \/ phase[t[1]] = "deploy" THEN {}
  ELSE {p \in plan[t[1]] : Part[p] = t[2]}

\* plan_transactions
Transactions(r) ==
  {t \in {r} \X ({"deploy"} \cup {Part[p] : p \in plan[r]}) :
     IF t[2] = "deploy" THEN Deploys(r) # {} ELSE Funds(t) # {}}

\* The vaults transaction t deploys.
Creates(t) == IF t[2] = "deploy" THEN Deploys(t[1]) ELSE {}

\* Whether the run still has a transaction in the queue.
InQueue(r) == \E t \in Range(queue) : t[1] = r

\* A transaction of the run is proposed, once, at the end of the queue.
Propose(r, t) ==
  /\ step[r] = "built"
  /\ t \in Transactions(r) \ proposed
  /\ proposed' = proposed \cup {t}
  /\ queue' = Append(queue, t)
  /\ UNCHANGED <<reviewed, dropped, vaults, builds, credited, report, careful>>

\* The operator is done with a run, or gives it up: what was not proposed never is.
Finish(r) ==
  /\ step[r] = "built"
  /\ ~InQueue(r)
  /\ step' = [step EXCEPT ![r] = "none"]
  /\ online' = [online EXCEPT ![r] = FALSE]
  /\ fresh' = [fresh EXCEPT ![r] = {}]
  /\ plan' = [plan EXCEPT ![r] = {}]
  /\ phase' = [phase EXCEPT ![r] = "all"]
  /\ report' = [report EXCEPT ![r] = "none"]
  /\ proposed' = {t \in proposed : t[1] # r}
  /\ reviewed' = {t \in reviewed : t[1] # r}
  /\ UNCHANGED <<queue, dropped, vaults, credited, careful>>

-----------------------------------------------------------------------------
(* show, and the Safe *)

\* show finds nothing wrong with the queue.
ShowOk ==
  /\ queue # <<>>
  /\ \A s, t \in Range(queue) : s # t => Funds(s) \cap Funds(t) = {} /\ Creates(s) \cap Creates(t) = {}
  /\ \A t \in Range(queue) : \A v \in VaultsOf(Funds(t)) :
       Deployed(v) \/ \E s \in Range(queue) : v \in Creates(s)

Show ==
  /\ ShowOk
  /\ reviewed' = reviewed \cup Range(queue)
  /\ UNCHANGED <<proposed, queue, dropped, vaults, builds, credited, report, careful>>

\* approve and depositBatch for each vault of S, in one transaction.  Where there is no vault
\* the approval stays, and nothing is deposited.
Fund(S) ==
  LET live == {p \in S : Deployed(p[1])}
  IN  /\ Total(live) <= tokens[Safe]
      /\ tokens' = [a \in Holder |-> IF a = Safe THEN tokens[a] - Total(live)
                                     ELSE tokens[a] + IF a \in Vault THEN Total(Of(live, a)) ELSE 0]
      /\ allowance' = [allowance EXCEPT ![Safe] =
           [v \in Vault |-> IF v \in VaultsOf(live) THEN 0
                            ELSE IF v \in VaultsOf(S) THEN Total(Of(S, v)) ELSE @[v]]]
      /\ balanceOf' = [v \in Vault |-> [a \in Holder |->
                         balanceOf[v][a] + IF <<v, a>> \in live THEN List[<<v, a>>] ELSE 0]]
      /\ credited' = [p \in Pair |-> credited[p] + IF p \in live THEN List[p] ELSE 0]
      /\ UNCHANGED <<governor, feeBps>>

\* A deployment reverts when the address was created before.
Create(S) ==
  /\ \A v \in S : ~Deployed(v)
  /\ governor' = [v \in Vault |-> IF v \in S THEN Governor ELSE governor[v]]
  /\ UNCHANGED <<feeBps, balanceOf, token, credited>>

\* The owners sign and execute the first transaction of the queue once it was reviewed.
Execute ==
  /\ queue # <<>>
  /\ Head(queue) \in reviewed
  /\ LET t == Head(queue)
     IN  IF t[2] = "deploy" THEN Create(Creates(t)) ELSE Fund(Funds(t))
  /\ queue' = Tail(queue)
  /\ UNCHANGED <<proposed, reviewed, dropped, builds, report, careful>>

\* The first transaction can not be executed: it would revert, or `show' objects to the queue.
Stuck ==
  \/ \E v \in Creates(Head(queue)) : Deployed(v)
  \/ Head(queue) \notin reviewed /\ ~ShowOk

\* The owners execute a rejection instead, which uses up the nonce.
Drop ==
  /\ queue # <<>>
  /\ IF Stuck THEN UNCHANGED dropped ELSE dropped < MaxDropped /\ dropped' = dropped + 1
  /\ queue' = Tail(queue)
  /\ UNCHANGED <<proposed, reviewed, vaults, builds, credited, report, careful>>

-----------------------------------------------------------------------------
(* deploy, reconcile, and the delegators *)

\* deploy sends one transaction for a vault of the run that is not on the chain.
DeployByKey(r, v) ==
  /\ step[r] = "built"
  /\ v \in Deploys(r)
  /\ Construct(v, Governor)
  /\ UNCHANGED <<builds, safe, credited, report, careful>>

\* The deployer is public, and so is a vault's address: anybody may deploy a vault, one below the
\* minimum too, and it is the same contract with the same governor.
DeployByOthers(v) ==
  /\ Construct(v, Governor)
  /\ UNCHANGED <<builds, safe, credited, report, careful>>

\* Mistaken variant of Reconciled: only the custody is compared.
CustodyEqual(r) == \A v \in VaultsOf(plan[r]) : Deployed(v) /\ tokens[v] = Total(Of(plan[r], v))

\* reconcile: a vault is funded when every credit and the custody equal the plan.
Reconciled(r) ==
  \A v \in VaultsOf(plan[r]) :
    /\ Deployed(v)
    /\ \A p \in Of(plan[r], v) : Credit(p) = List[p]
    /\ tokens[v] = Total(Of(plan[r], v))

Reconcile(r) ==
  /\ step[r] = "built"
  /\ report' = [report EXCEPT ![r] = IF Reconciled(r) THEN "ok" ELSE "differs"]
  /\ UNCHANGED <<vaults, builds, safe, credited, careful>>

Withdraw(p, amount) ==
  /\ Credit(p) - amount >= Rest
  /\ withdraw(p[2], p[1], amount, p[2])
  /\ UNCHANGED <<builds, safe, credited, report, careful>>

\* The funding ends when nothing is left to do.  Its history is of no use from here on.
Open ==
  /\ \A r \in Run : step[r] = "none"
  /\ queue = <<>>
  /\ \A p \in Pair : credited[p] > 0 \/ (~Deployed(p[1]) /\ Total(Of(Pair, p[1])) < MinVault)
  /\ open' = TRUE
  /\ credited' = [p \in Pair |-> 0] /\ careful' = TRUE /\ dropped' = 0
  /\ UNCHANGED <<vaults, builds, proposed, queue, reviewed, report>>

\* Everybody calls anything.
Use ==
  /\ open
  /\ \E v \in Vault, caller \in Account \ {Safe} : Deployed(v) /\ Call(caller, v)
  /\ UNCHANGED <<builds, safe, credited, careful, report, open>>

Funding ==
  \/ \E r \in Run :
       \/ \E rpc \in Rpc : ReadVaults(r, rpc)
       \/ \E ph \in {"all", "deploy", "fund"}, skip \in BOOLEAN, allow \in Allow : WritePlan(r, ph, skip, allow)
       \/ \E t \in Transactions(r) : Propose(r, t)
       \/ \E v \in Vault : DeployByKey(r, v)
       \/ Reconcile(r)
       \/ Finish(r)
  \/ \E v \in Vault : DeployByOthers(v)
  \/ Show
  \/ Execute
  \/ Drop
  \/ \E p \in Pair, amount \in 1 .. MaxUint : Withdraw(p, amount)

Next ==
  \/ ~open /\ Funding /\ UNCHANGED open
  \/ ~open /\ Open
  \/ Use

Spec == Init /\ [][Next]_vars

-----------------------------------------------------------------------------
(* Properties. *)

\* The vaults, the token and the runs of vault_batch.py have their types: no credit or balance
\* leaves uint256, also when the reserve runs out, and what is queued or reviewed was proposed.
RunTypeOK ==
  /\ VaultTypeOK
  /\ step \in [Run -> {"none", "read", "built"}]
  /\ online \in [Run -> BOOLEAN]
  /\ fresh \in [Run -> SUBSET Vault]
  /\ plan \in [Run -> SUBSET Pair]
  /\ phase \in [Run -> {"all", "deploy", "fund"}]
  /\ report \in [Run -> {"none", "ok", "differs"}]
  /\ reviewed \cup Range(queue) \subseteq proposed
  /\ proposed \subseteq UNION {Transactions(r) : r \in Run}
  /\ dropped \in 0 .. MaxDropped
  /\ open \in BOOLEAN

\* The Safe credits nobody more than the deposit list says (vault_batch.py:789, "never credit
\* anyone twice by accident"), however builds are repeated after some of a run's transactions
\* were executed, dropped, or overtaken by a deployment from the plain wallet; unless a build was
\* told not to look.
NeverCreditedTwice == careful => \A p \in Pair : credited[p] <= List[p]

\* Every token that left the Safe in the funding was credited to a delegator of the list, also when
\* a funding transaction ran before its vaults existed; and then and in use a vault holds at least
\* what its delegators are credited with, so that each can withdraw all of it (Solvent).
ReserveAccounted ==
  /\ ~open => Holdings[Safe] - tokens[Safe] = SumFunction(credited)
  /\ Solvent

\* A funding transaction leaves no approval behind: it takes effect only where its vaults exist.
NothingStaysApproved == \A v \in Vault : allowance[Safe][v] = 0

\* When reconcile reports a run in order, each of its deposits was made by the Safe exactly once,
\* unless a build was told not to look at earlier credits.
ReconcileOkMeansDone ==
  careful => \A r \in Run : report[r] = "ok" => \A p \in plan[r] : credited[p] = List[p]

\* A build with --skip-funded always takes the funding on (vault_batch.py:805-812): unless a
\* delegator has withdrawn or a build was told not to look, it is not refused, and it plans exactly
\* the deposits still to be made in the vaults that it found on the chain, whoever deployed them,
\* and in those that reach the minimum with all their deposits; whatever was rejected, executed too
\* early or half executed before.  In particular a vault once begun is always completed.
RebuildCompletes ==
  \A r \in Run :
    step[r] = "read" /\ online[r] /\ careful /\ (\A p \in Pair : Credit(p) = credited[p]) =>
      /\ ~Stops(r, TRUE, FALSE)
      /\ Included(r, TRUE) =
           {p \in Pair : credited[p] = 0 /\ (p[1] \in fresh[r] => Total(Of(Pair, p[1])) >= MinVault)}
      /\ \A p, q \in Pair : p[1] = q[1] /\ credited[p] = 0 /\ credited[q] > 0 => p \in Included(r, TRUE)
=============================================================================
