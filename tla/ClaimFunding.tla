---------------------------- MODULE ClaimFunding ----------------------------
(***************************************************************************)
(* From locked collateral to open claims: the escrows are released to the  *)
(* custody Safe (EscrowRelease), the claim run is built, published and     *)
(* bound (ClaimRun), approve_claims.py prepares the transactions that let  *)
(* each contract take its total from the Safe, the Safe executes them, and *)
(* the contracts pay (BridgeClaims).                                       *)
(*                                                                         *)
(* The four stages follow one another, and what a stage is done with is    *)
(* put back to its first value.  While approvals are prepared and signed,  *)
(* money arrives at the Safe, released or sent, the Safe does other things *)
(* and contracts already pay; a contract is then only its approvals and    *)
(* the rows it has paid.  The last stage is one contract in full, with a   *)
(* list of its own.                                                        *)
(***************************************************************************)
EXTENDS ClaimRun, EscrowRelease

CONSTANTS
    Allocations,  \* what claim runs may be built from
    Custody,      \* the Safe of the custody roster
    Compiled,     \* the contract as compiled here
    MaxBuilds,    \* bound on the builds
    MaxNonce,     \* bound on the Safe's transactions
    MaxSigned,    \* bound on the signed transactions kept
    MaxHeld       \* asset -> bound on what the Safe holds

ASSUME FundingAssumption == MaxBuilds \in Nat /\ MaxNonce \in Nat
                            /\ MaxSigned \in Nat /\ MaxHeld \in [{NATIVE, wrappedNative, OneToken} -> Nat]

VARIABLES
    stage,    \* "release", "build", "approve" or "claims"
    dir,      \* the claim run's files
    index,    \* their published copy
    builds,   \* builds so far
    run,      \* the manifests that were bound, by label
    safe,     \* the custody Safe: [nonce, owners, held]
    grants,   \* address -> token -> approval
    done,     \* address -> rows paid
    package,  \* the listed approval package: label -> [approve, revoke], or NoFile
    signed,   \* transactions signed by the Safe's owners
    wrapped   \* the contracts for which a batch prepared without --no-wrap has been executed

fvars == <<stage, dir, index, builds, run, safe, grants, done, package, signed, wrapped>>
allvars == <<fvars, evars, vars>>

Nothing == [f \in Files |-> NoFile]

Assets == {NATIVE, wrappedNative, OneToken}

InitFunding ==
    /\ stage = "release" /\ dir = Nothing /\ index = Nothing /\ builds = 0 /\ run = <<>>
    /\ safe = [nonce |-> 0, owners |-> "one", held |-> [t \in Assets |-> 0]]
    /\ grants = <<>> /\ done = <<>> /\ package = NoFile /\ signed = {} /\ wrapped = {}

-----------------------------------------------------------------------------
(* The claim run. *)

\* No plan is being made or sent.
Released ==
    /\ stage = "release" /\ reading = NoPlan /\ sending = 0
    /\ stage' = "build"
    /\ lz' = AsFound /\ files' = <<>> /\ current' = {} /\ nonces' = [o \in Owner |-> 0] /\ plans' = 0 /\ setbacks' = 0
    /\ UNCHANGED <<reading, sending, dir, index, builds, run, safe, grants, done, package, signed, wrapped>>

\* A build, which may be killed between two files.
Build ==
    /\ stage = "build" /\ builds < MaxBuilds
    /\ \E a \in Allocations :
         LET writes == build_claims(a) IN
         \E n \in 1 .. Len(writes) : dir' = Written(dir, writes, n)
    /\ builds' = builds + 1
    /\ UNCHANGED <<stage, index, run, safe, grants, done, package, signed, wrapped>>

Publish ==
    /\ stage = "build" /\ index # dir
    /\ index' = dir
    /\ UNCHANGED <<stage, dir, builds, run, safe, grants, done, package, signed, wrapped>>

\* A later run starts in an empty directory.
StartOver ==
    /\ stage = "build" /\ dir # Nothing
    /\ dir' = Nothing /\ index' = Nothing /\ builds' = 0
    /\ UNCHANGED <<stage, run, safe, grants, done, package, signed, wrapped>>

Bind ==
    /\ stage = "build"
    /\ \E labels \in SUBSET {"chain", "one"} :
         /\ labels # {}
         /\ bind(dir, index, labels)
         /\ run' = [l \in labels |-> Manifest(dir, l)]
    /\ stage' = "approve" /\ dir' = Nothing /\ index' = Nothing /\ builds' = 0
    /\ UNCHANGED <<safe, grants, done, package, signed, wrapped>>

-----------------------------------------------------------------------------
(* The approvals. *)

Grant(x, t) == IF x \in DOMAIN grants THEN grants[x][t] ELSE 0

\* bound_deployment: the spender is computed again from the list and the compiled contract.
bound_deployment(m) == m.status = "ready" /\ m.address = Address(Compiled, m.funder, m.list)

Have(t) == safe.held[t] + IF t = wrappedNative THEN safe.held[NATIVE] ELSE 0

\* What read_safe and the checks of preflight ask of the chain, at one block.
preflight(m) ==
    /\ m.funder = Custody
    /\ safe.owners = "roster"
    /\ \A t \in DOMAIN m.approvals : Have(t) >= m.approvals[t]

ApproveCall(t, amount) == [do |-> "approve", token |-> t, amount |-> amount]
Deposit(amount) == [do |-> "deposit", token |-> wrappedNative, amount |-> amount]

\* Of the coin, no more is wrapped than the native rows pay, and nothing with --no-wrap.
Wrap(m, noWrap) ==
    LET missing == m.approvals[wrappedNative] - safe.held[wrappedNative]
    IN  IF m.native = 0 \/ noWrap \/ missing <= 0 THEN 0 ELSE IF missing < m.native THEN missing ELSE m.native

approve_calls(m, noWrap) ==
    LET order == SetToSeq(DOMAIN m.approvals)
        Calls(t) == (IF Grant(m.address, t) # 0 THEN <<ApproveCall(t, 0)>> ELSE <<>>)
                     \o <<ApproveCall(t, m.approvals[t])>>
    IN  (IF Wrap(m, noWrap) > 0 THEN <<Deposit(Wrap(m, noWrap))>> ELSE <<>>)
        \o FlattenSeq([i \in DOMAIN order |-> Calls(order[i])])

revoke_calls(m) ==
    LET order == SetToSeq(DOMAIN m.approvals) IN [i \in DOMAIN order |-> ApproveCall(order[i], 0)]

Transaction(m, calls, wraps) ==
    [spender |-> m.address, calls |-> calls, nonce |-> safe.nonce, wraps |-> wraps]

\* refresh: a package for every contract, or none, and then the one before is not listed either.
\* The operator may say --no-wrap, for all of the contracts.
Prepare ==
    /\ stage = "approve"
    /\ \E noWrap \in BOOLEAN :
         package' = IF \A l \in DOMAIN run : bound_deployment(run[l]) /\ preflight(run[l])
                    THEN [l \in DOMAIN run |->
                            [approve |-> Transaction(run[l], approve_calls(run[l], noWrap), ~noWrap),
                             revoke |-> Transaction(run[l], revoke_calls(run[l]), FALSE)]]
                    ELSE NoFile
    /\ package' # package
    /\ UNCHANGED <<stage, dir, index, builds, run, safe, grants, done, signed, wrapped>>

\* The owners sign what is listed; a signature stays good whatever is listed later.
Sign ==
    /\ stage = "approve" /\ package # NoFile
    /\ \E l \in DOMAIN package, kind \in {"approve", "revoke"} : signed' = signed \cup {package[l][kind]}
    /\ signed' # signed /\ Cardinality(signed') <= MaxSigned
    /\ UNCHANGED <<stage, dir, index, builds, run, safe, grants, done, package, wrapped>>

-----------------------------------------------------------------------------
(* The Safe, the tokens and the contracts. *)

\* Tokens that refuse a change between two approvals other than zero are the rule here.
Does(r, c) ==
    IF c.do = "deposit"
    THEN [ok |-> r.ok /\ c.amount <= r.held[NATIVE], grant |-> r.grant,
          held |-> [r.held EXCEPT ![NATIVE] = @ - c.amount, ![wrappedNative] = @ + c.amount]]
    ELSE [ok |-> r.ok /\ (r.grant[c.token] = 0 \/ c.amount = 0), held |-> r.held,
          grant |-> [r.grant EXCEPT ![c.token] = c.amount]]

\* All the calls of a transaction, or none, at its nonce; signatures for that nonce are then void.
Execute(s) ==
    LET before == [ok |-> TRUE, held |-> safe.held, grant |-> [t \in Assets |-> Grant(s.spender, t)]]
        after == FoldLeft(LAMBDA r, c : Does(r, c), before, s.calls)
    IN  /\ stage = "approve" /\ s.nonce = safe.nonce /\ safe.nonce < MaxNonce
        /\ after.ok
        /\ safe' = [safe EXCEPT !.nonce = @ + 1, !.held = after.held]
        /\ grants' = [x \in DOMAIN grants \cup {s.spender} |-> IF x = s.spender THEN after.grant ELSE grants[x]]
        /\ done' = [x \in DOMAIN done \cup {s.spender} |-> IF x \in DOMAIN done THEN done[x] ELSE {}]
        /\ signed' = {}
        /\ wrapped' = IF s.wraps THEN wrapped \cup {s.spender} ELSE wrapped
        /\ UNCHANGED <<stage, dir, index, builds, run, package>>

\* Another transaction of the Safe: its owners are set up.
SafeSetup ==
    /\ stage = "approve" /\ safe.nonce < MaxNonce /\ safe.owners = "one"
    /\ safe' = [safe EXCEPT !.nonce = @ + 1, !.owners = "roster"]
    /\ signed' = {}
    /\ UNCHANGED <<stage, dir, index, builds, run, grants, done, package, wrapped>>

Arrive(t) ==
    /\ stage = "approve" /\ safe.held[t] < MaxHeld[t]
    /\ safe' = [safe EXCEPT !.held[t] = @ + 1]
    /\ UNCHANGED <<stage, dir, index, builds, run, grants, done, package, signed, wrapped>>

Pay(x, r) ==
    LET t == approve_token(r.token) IN
    /\ stage = "approve" /\ r \notin done[x]
    /\ r.amount <= grants[x][t] /\ r.amount <= safe.held[t]
    /\ safe' = [safe EXCEPT !.held[t] = @ - r.amount]
    /\ grants' = [grants EXCEPT ![x][t] = @ - r.amount]
    /\ done' = [done EXCEPT ![x] = @ \cup {r}]
    /\ UNCHANGED <<stage, dir, index, builds, run, package, signed, wrapped>>

\* The claims open; a contract can be deployed before it is approved.
Open ==
    /\ stage = "approve"
    /\ stage' = "claims"
    /\ dir' = Nothing /\ index' = Nothing /\ builds' = 0 /\ run' = <<>>
    /\ safe' = [nonce |-> 0, owners |-> "one", held |-> [t \in Assets |-> 0]]
    /\ grants' = <<>> /\ done' = <<>> /\ package' = NoFile /\ signed' = {} /\ wrapped' = {}

FundingNext ==
    \/ Build \/ Publish \/ StartOver \/ Bind
    \/ Prepare \/ Sign \/ SafeSetup \/ Open
    \/ \E s \in signed : Execute(s)
    \/ \E t \in Assets : Arrive(t)
    \/ \E x \in DOMAIN grants : \E r \in x[3] : Pay(x, r)

FundedNext ==
    \/ FundingNext /\ UNCHANGED <<evars, vars>>
    \/ stage = "release" /\ EscrowNext /\ UNCHANGED <<fvars, vars>>
    \/ Released /\ UNCHANGED vars
    \/ stage = "claims" /\ Next /\ UNCHANGED <<fvars, evars>>

(***************************************************************************)
(* Fairness, all of it about the contract's stage: the contract's code     *)
(* runs on, and a receiving account's code ends (it runs on the gas of one *)
(* transaction); the funder approves, and a relayer keeps submitting the   *)
(* whole list.  Setbacks end: from some time on no token refuses a         *)
(* transfer that is covered, and the funder does not revoke.  Nobody else  *)
(* has to do anything, and whatever they do may come first.                *)
(***************************************************************************)
Payable == \E c \in Claim : AtRow(c) /\ ~Skips(c) /\ CanPay(c)
Setback == (Payable /\ Revert) \/ \E t \in Token : Revoke(t)
Progress == SkipPaid \/ PayToken \/ SendNative \/ (~Payable /\ Revert) \/ Finish
Claims(A) == stage = "claims" /\ A
Fairness ==
    /\ WF_vars(Claims(Progress))
    /\ \A d \in 1..MaxDepth : SF_vars(Claims(Len(stack) = d /\ (Accept \/ Refuse)))
    /\ \A t \in Token : SF_vars(Claims(stack = <<>> /\ Approve(t)))
    /\ SF_vars(Claims(Relay))
    /\ <>[][~Setback]_vars

FundedInit == Init /\ InitFunding /\ InitEscrow

FundedSpec == FundedInit /\ [][FundedNext]_allvars /\ Fairness

-----------------------------------------------------------------------------
(* Properties. *)

Unpaid(x, t) == Amount({r \in x[3] \ done[x] : approve_token(r.token) = t})

\* Whatever builds were killed and published before, the manifests that approvals are prepared from
\* are those of one allocation.  While a contract's approval stands, it covers every row not yet
\* paid, and the Safe has what they need, although holdings, approvals and nonce moved on after
\* they were read.  Of the wrapped coin this counts the coin that could be wrapped, as the check of
\* the funds does.  Once a batch that may wrap was executed, the Safe is short of wrapped coin by
\* no more than the list's rows of the wrapped coin itself: every native row is covered, and a list
\* without such rows entirely.  With --no-wrap alone nothing but the coin may be there.
FundingIsSound ==
    /\ run # <<>> => \E a \in Allocations : \A l \in DOMAIN run :
                        \E g \in Range(contract_groups(a)) :
                           /\ g.label = l /\ g.rows = run[l].list /\ g.funder = run[l].funder
    /\ \A x \in DOMAIN grants : \A t \in Assets :
         grants[x][t] > 0 =>
           /\ grants[x][t] >= Unpaid(x, t)
           /\ Have(t) >= Unpaid(x, t)
           /\ t # wrappedNative => safe.held[t] >= Unpaid(x, t)
           /\ x \in wrapped => Unpaid(x, t) - safe.held[t] <= Amount(Of(x[3], wrappedNative))

\* Once the claims are open, with the approval given, the funds there and setbacks at an end, a
\* relayer who keeps sending the whole list gets every row paid: no one stops the batch by
\* claiming a row of it first, by refusing the coin or by calling back.
EveryRowIsPaid == <>[](stage = "claims" => world.claimed = Row)
=============================================================================
