------------------------------ MODULE SafeQueue ------------------------------
(***************************************************************************)
(* Direct payments from the reserve Safe: proposals queue at the Safe's    *)
(* nonces, reviewers run `safe-batch crosscheck' (cmd_crosscheck of        *)
(* airdrop/tools/safe_batch.py), and the owners sign what passed.          *)
(*                                                                         *)
(* A review reads the Safe's next nonce, then the list of its              *)
(* transactions, and prints its verdict later; other reviews, proposals    *)
(* and executions happen in between.  The Safe and its transaction service *)
(* are external: a list is read in one piece, and a call that is not a     *)
(* plain transfer of the token pays nobody.                                *)
(***************************************************************************)
EXTENDS Integers, Sequences, FiniteSets

CONSTANTS
  Id,           \* Safe transaction hashes
  Content,      \* what a proposal may contain
  Transfers,    \* content -> its token transfers <<recipient, amount>>
  Plain,        \* the contents that consist of plain transfers only
  Readable,     \* the contents whose record decodes and hashes to its listed hash
  Payee,        \* recipients
  Sheets,       \* the payment sheets: functions from recipients to amounts
  Tolerance,    \* what the decimals shown in a sheet leave open
  DoNotPay,     \* exchange wallets, delivery addresses and --exclude lists
  Reviewer,
  History,      \* the proposals executed before
  Past,         \* their contents
  FirstNonce,   \* the Safe's nonce then
  MaxNonce      \* bound on the nonces proposed

Payment(c) == {<<k, Transfers[c][k][1], Transfers[c][k][2]>> : k \in DOMAIN Transfers[c]}

Payees(c) == {x[2] : x \in Payment(c)}

\* No recipient twice in one content.
Single(c) == \A x, y \in Payment(c) : x # y => x[2] # y[2]

Overlap(c, d) == Payees(c) \cap Payees(d) # {}

ASSUME TransfersAssumption == Transfers \in [Content -> Seq(Payee \X Nat)]

ASSUME ContentAssumption == Plain \subseteq Content /\ Readable \subseteq Content

ASSUME SheetsAssumption ==
  /\ Tolerance \in Nat
  /\ \A s \in Sheets : DOMAIN s \subseteq Payee /\ \A a \in DOMAIN s : s[a] \in Nat

ASSUME HistoryAssumption ==
  /\ History \subseteq Id
  /\ Past \in [Id -> Content]
  /\ \A i \in History : Single(Past[i])
  /\ \A i, j \in History : i # j => ~Overlap(Past[i], Past[j])

ASSUME NonceAssumption == FirstNonce \in Nat /\ MaxNonce \in Nat

VARIABLES
  nonce,    \* the Safe's next nonce
  status,   \* proposal -> "none", "queued", "ok" or "failed"
  at,       \* proposal -> its nonce
  content,  \* proposal -> its content
  phase,    \* review -> "idle", "info" or "records"
  next,     \* review -> the nonce it read
  seen,     \* review -> the statuses it read
  passes    \* the verdicts RESULT: PASS: their sheet and their target transactions

safe == <<nonce, status, at, content>>

reviews == <<phase, next, seen>>

vars == <<safe, reviews, passes>>

Passed == UNION {v.targets : v \in passes}

-----------------------------------------------------------------------------
(* The Safe. *)

Init ==
  /\ nonce = FirstNonce
  /\ status = [i \in Id |-> IF i \in History THEN "ok" ELSE "none"]
  /\ at = [i \in Id |-> 0]
  /\ content = Past
  /\ phase = [r \in Reviewer |-> "idle"]
  /\ next = [r \in Reviewer |-> 0]
  /\ seen = [r \in Reviewer |-> [i \in Id |-> "none"]]
  /\ passes = {}

\* A transaction is proposed at a nonce that is not used yet, also one that others wait at.
Propose(i, n, c) ==
  /\ status[i] = "none"
  /\ n >= nonce
  /\ status' = [status EXCEPT ![i] = "queued"]
  /\ at' = [at EXCEPT ![i] = n]
  /\ content' = [content EXCEPT ![i] = c]
  /\ UNCHANGED <<nonce, reviews, passes>>

\* The owners sign and execute a payment only after it passed; nothing else pays tokens.  A
\* transaction that fails inside uses its nonce up.
Execute(i, outcome) ==
  /\ status[i] = "queued"
  /\ at[i] = nonce
  /\ i \in Passed \/ Transfers[content[i]] = <<>>
  /\ nonce' = nonce + 1
  /\ status' = [status EXCEPT ![i] = outcome]
  /\ UNCHANGED <<at, content, reviews, passes>>

-----------------------------------------------------------------------------
(* cmd_crosscheck. *)

ReadInfo(r) ==
  /\ phase[r] = "idle"
  /\ phase' = [phase EXCEPT ![r] = "info"]
  /\ next' = [next EXCEPT ![r] = nonce]
  /\ UNCHANGED <<safe, seen, passes>>

ReadRecords(r) ==
  /\ phase[r] = "info"
  /\ phase' = [phase EXCEPT ![r] = "records"]
  /\ seen' = [seen EXCEPT ![r] = status]
  /\ UNCHANGED <<safe, next, passes>>

Listed(r) == {i \in Id : seen[r][i] # "none"}

Done(r) == {i \in Id : seen[r][i] \in {"ok", "failed"}}

\* Mistaken variant of NextNonce: the nonce is read after the records.
NextReadLast(r) == nonce

NextNonce(r) == next[r]

Waiting(r) == {i \in Id : seen[r][i] = "queued" /\ at[i] >= NextNonce(r)}

\* The recipients a record shows; one that cannot be read shows none.
Shown(i) == IF content[i] \in Readable THEN Payees(content[i]) ELSE {}

\* The targets: the hashes given, or whatever waits in the queue and pays a wallet of the sheet.
Targets(r, sheet, hashes) ==
  IF hashes # {} THEN hashes \cap Listed(r)
  ELSE {i \in Waiting(r) : Shown(i) \cap DOMAIN sheet # {}}

\* The arguments and the queue leave something to check.
Checkable(r, T, hashes) ==
  /\ hashes \subseteq Listed(r)
  /\ T # {}
  /\ \A i, j \in T : at[i] = at[j] => i = j

\* Mistaken variant of PaysTheSheet: rows of the sheet that nothing pays go unnoticed.
PaysPartOfTheSheet(r, T, sheet) ==
  /\ \A i \in T : /\ content[i] \in Readable \cap Plain
                  /\ i \in Done(r) \/ at[i] >= NextNonce(r)
                  /\ Single(content[i])
  /\ \A i, j \in T : i # j => ~Overlap(content[i], content[j])
  /\ \A i \in T : \A x \in Payment(content[i]) :
       x[2] \in DOMAIN sheet /\ x[3] - sheet[x[2]] \in (0 - Tolerance) .. Tolerance

\* 1. The payment pays exactly the sheet.
PaysTheSheet(r, T, sheet) ==
  /\ \A i \in T : /\ content[i] \in Readable \cap Plain
                  /\ i \in Done(r) \/ at[i] >= NextNonce(r)
                  /\ Single(content[i])
  /\ \A i, j \in T : i # j => ~Overlap(content[i], content[j])
  /\ UNION {Payees(content[i]) : i \in T} = DOMAIN sheet
  /\ \A i \in T : \A x \in Payment(content[i]) :
       x[3] - sheet[x[2]] \in (0 - Tolerance) .. Tolerance

\* 2. Nobody in it was paid before by the Safe.
NotPaidBefore(r, T, sheet) ==
  \A i \in Done(r) \ T : /\ content[i] \in Readable
                         /\ seen[r][i] = "ok" => Shown(i) \cap DOMAIN sheet = {}

\* 3. Nobody in it is in another queued transaction.
NotQueuedElsewhere(r, T, sheet) ==
  \A i \in Waiting(r) \ T : content[i] \in Readable /\ Shown(i) \cap DOMAIN sheet = {}

Pass(r, T, sheet) ==
  /\ PaysTheSheet(r, T, sheet)
  /\ NotPaidBefore(r, T, sheet)
  /\ NotQueuedElsewhere(r, T, sheet)
  /\ DOMAIN sheet \cap DoNotPay = {}

\* The report; a review that cannot go on, or fails, ends without one.
Verdict(r, sheet, hashes) ==
  /\ phase[r] = "records"
  /\ phase' = [phase EXCEPT ![r] = "idle"]
  /\ LET T == Targets(r, sheet, hashes)
     IN  passes' = IF Checkable(r, T, hashes) /\ Pass(r, T, sheet)
                     THEN passes \cup {[sheet |-> sheet, targets |-> T]} ELSE passes
  /\ UNCHANGED <<safe, next, seen>>

Next ==
  \/ \E i \in Id : \/ \E n \in 0 .. MaxNonce, c \in Content : Propose(i, n, c)
                   \/ \E outcome \in {"ok", "failed"} : Execute(i, outcome)
  \/ \E r \in Reviewer : \/ ReadInfo(r)
                         \/ ReadRecords(r)
                         \/ \E sheet \in Sheets, hashes \in SUBSET Id : Verdict(r, sheet, hashes)

Spec == Init /\ [][Next]_vars

-----------------------------------------------------------------------------
(* Properties. *)

\* The Safe, its proposals and what each review of crosscheck remembers have their types; a verdict
\* names proposals and one of the sheets.
TypeOK ==
  /\ nonce \in Nat
  /\ status \in [Id -> {"none", "queued", "ok", "failed"}]
  /\ at \in [Id -> Nat]
  /\ content \in [Id -> Content]
  /\ phase \in [Reviewer -> {"idle", "info", "records"}]
  /\ next \in [Reviewer -> Nat]
  /\ seen \in [Reviewer -> [Id -> {"none", "queued", "ok", "failed"}]]
  /\ passes \subseteq [sheet : Sheets, targets : SUBSET Id]

\* Nobody is paid twice: no two transfers of the successful transactions, of one or of two, have
\* the same recipient, although reviews overlap in time and read a nonce and a list that are no
\* longer current when they print RESULT: PASS.
NobodyPaidTwice ==
  \A i, j \in {k \in Id : status[k] = "ok"} :
    Single(content[i]) /\ (i # j => ~Overlap(content[i], content[j]))

\* Once every transaction of a verdict has succeeded, each wallet of its sheet has received exactly
\* one transfer from the Safe, of the sheet's amount.
SheetPaidExactly ==
  \A v \in passes : (\A i \in v.targets : status[i] = "ok") =>
    \A a \in DOMAIN v.sheet :
      LET received == {m \in UNION {{i} \X Payment(content[i]) : i \in Id} :
                         status[m[1]] = "ok" /\ m[2][2] = a}
      IN  /\ Cardinality(received) = 1
          /\ \A m \in received : m[2][3] - v.sheet[a] \in (0 - Tolerance) .. Tolerance
=============================================================================
