------------------------ MODULE CommittedBatchAirdrop ------------------------
(***************************************************************************)
(* The contract airdrop/src/CommittedBatchAirdrop.sol together with the    *)
(* ERC-20 token it spends (airdrop/src/testnet/RehearsalToken.sol).        *)
(*                                                                         *)
(* A transaction of the chain is atomic, but execute() is a loop of        *)
(* token.transferFrom calls any of which may revert the whole transaction. *)
(* The loop is modelled row by row: `call' holds the locals of a running   *)
(* execute() and the storage it started from, which a revert restores.     *)
(* No other transaction runs while a call is open.                         *)
(*                                                                         *)
(* A Merkle proof is accepted here exactly for the published batch of its  *)
(* index; module RunDirectory checks the tree that justifies this.         *)
(***************************************************************************)
EXTENDS Integers, Sequences, FiniteSets, Functions

CONSTANTS
  Account,      \* the addresses of the model, ZeroAddress among them
  ZeroAddress,  \* address(0)
  Reserve,      \* the account that holds the tokens
  Airdrop,      \* the address of the contract
  Admin,        \* may pause, replace the executor and rescue stray tokens
  BatchCount,   \* number of published batches
  Published,    \* index -> [recipients, amounts], the list under `root'
  Submission,   \* the (index, batch) pairs an executor may submit
  WordBits,     \* batches per bitmap word (256 in the contract)
  MaxUint,      \* type(uint256).max, the allowance that is never consumed
  Amount,       \* the amounts of approvals and of unrelated transfers
  InitBalance,  \* token balances when the contract is deployed
  NoCall        \* no execute() is running

Index == 0 .. BatchCount - 1

Batch == [recipients : Seq(Account), amounts : Seq(Nat)]

Word(i) == i \div WordBits

Bit(i) == i % WordBits

Words == {Word(i) : i \in Index}

Row == UNION {{i} \X (1 .. Len(Published[i].recipients)) : i \in Index}

\* The storage a running execute() started from, and its locals.
Saved ==
  [bitmap : [Words -> SUBSET (0 .. WordBits - 1)], balance : [Account -> Nat],
   allowance : Nat, paid : [Row -> Nat]]

Call == [index : Index, batch : Batch, pos : Nat \ {0}, sum : Nat, saved : Saved]

ASSUME AccountAssumption == {ZeroAddress, Reserve, Airdrop, Admin} \subseteq Account

ASSUME RolesAssumption == Cardinality({ZeroAddress, Reserve, Airdrop}) = 3

ASSUME WordBitsAssumption == WordBits \in Nat \ {0}

ASSUME BatchCountAssumption == BatchCount \in Nat \ {0}

ASSUME PublishedAssumption == Published \in [Index -> Batch]

ASSUME SubmissionAssumption == Submission \subseteq [index : Nat, batch : Batch]

ASSUME AmountAssumption == MaxUint \in Nat /\ Amount \subseteq 0 .. MaxUint

ASSUME BalanceAssumption == InitBalance \in [Account -> Nat]

ASSUME NoCallAssumption == NoCall \notin Call

VARIABLES
  executor,           \* the wallet allowed to submit batches
  paused,
  executedBitmap,     \* word -> the bits of the word that are set
  executedBatches,
  distributedAmount,
  balance,            \* token.balanceOf
  allowance,          \* token.allowance(Reserve, Airdrop)
  call,               \* a running execute(), or NoCall
  paid,               \* history: how often row k of batch i was transferred
  approved            \* history: the last approval, and what it was granted on top of

contract == <<executor, paused, executedBitmap, executedBatches, distributedAmount>>

ledger == <<balance, allowance>>

vars == <<contract, ledger, call, paid, approved>>

Idle == call = NoCall

-----------------------------------------------------------------------------
(* The token. *)

\* What _transfer does to the balances; a transfer to oneself changes nothing.
Moved(from, to, amount) ==
  LET taken == [balance EXCEPT ![from] = @ - amount]
  IN  [taken EXCEPT ![to] = @ + amount]

\* The require()s of _transfer.
CanMove(from, to, amount) == to # ZeroAddress /\ balance[from] >= amount

\* Mistaken variant of AllowanceAfter: the allowance is never consumed.
AllowanceKept(amount) == allowance

\* The allowance left by a transferFrom of the contract.
AllowanceAfter(amount) == IF allowance = MaxUint THEN allowance ELSE allowance - amount

\* Neither the allowance nor the balance check of transferFrom reverts.
CanTransferFrom(to, amount) ==
  (allowance = MaxUint \/ allowance >= amount) /\ CanMove(Reserve, to, amount)

-----------------------------------------------------------------------------
(* The contract. *)

\* The batches whose bit is set in a bitmap.
SentIn(bitmap) == {i \in Index : Bit(i) \in bitmap[Word(i)]}

IsExecuted(i) == Bit(i) \in executedBitmap[Word(i)]

\* The bitmap with the bit of batch i set.
Marked(i) == [executedBitmap EXCEPT ![Word(i)] = @ \cup {Bit(i)}]

\* Mistaken variant of VerifyBatch: the leaf does not bind the index.
VerifyBatchAnyIndex(i, b) ==
  i \in Index /\ b.recipients # <<>> /\ Len(b.amounts) = Len(b.recipients) /\ b \in Range(Published)

VerifyBatch(i, b) ==
  /\ i \in Index
  /\ b.recipients # <<>>
  /\ Len(b.amounts) = Len(b.recipients)
  /\ b = Published[i]

\* Mistaken variant of Accepts: a batch may be sent again.
AcceptsAgain(sender, s) == sender = executor /\ ~paused /\ VerifyBatch(s.index, s.batch)

\* Every check of execute() up to its first transfer.
Accepts(sender, s) ==
  /\ sender = executor
  /\ ~paused
  /\ VerifyBatch(s.index, s.batch)
  /\ ~IsExecuted(s.index)

Init ==
  /\ executor \in Account \ {ZeroAddress}
  /\ paused = FALSE
  /\ executedBitmap = [w \in Words |-> {}]
  /\ executedBatches = 0
  /\ distributedAmount = 0
  /\ balance = InitBalance
  /\ allowance = 0
  /\ call = NoCall
  /\ paid = [r \in Row |-> 0]
  /\ approved = [amount |-> 0, base |-> 0]

ExecuteBegin(sender, s) ==
  /\ Idle
  /\ Accepts(sender, s)
  /\ call' = [index |-> s.index, batch |-> s.batch, pos |-> 1, sum |-> 0,
              saved |-> [bitmap |-> executedBitmap, balance |-> balance,
                         allowance |-> allowance, paid |-> paid]]
  /\ executedBitmap' = Marked(s.index)
  /\ UNCHANGED <<executor, paused, executedBatches, distributedAmount, ledger, paid, approved>>

To == call.batch.recipients[call.pos]

Value == call.batch.amounts[call.pos]

ExecuteRow ==
  /\ ~Idle
  /\ call.pos <= Len(call.batch.recipients)
  /\ CanTransferFrom(To, Value)
  /\ balance' = Moved(Reserve, To, Value)
  /\ allowance' = AllowanceAfter(Value)
  /\ paid' = [paid EXCEPT ![<<call.index, call.pos>>] = @ + 1]
  /\ call' = [call EXCEPT !.pos = @ + 1, !.sum = @ + Value]
  /\ UNCHANGED <<contract, approved>>

ExecuteRevert ==
  /\ ~Idle
  /\ call.pos <= Len(call.batch.recipients)
  /\ ~CanTransferFrom(To, Value)
  /\ executedBitmap' = call.saved.bitmap
  /\ balance' = call.saved.balance
  /\ allowance' = call.saved.allowance
  /\ paid' = call.saved.paid
  /\ call' = NoCall
  /\ UNCHANGED <<executor, paused, executedBatches, distributedAmount, approved>>

ExecuteEnd ==
  /\ ~Idle
  /\ call.pos > Len(call.batch.recipients)
  /\ executedBatches' = executedBatches + 1
  /\ distributedAmount' = distributedAmount + call.sum
  /\ call' = NoCall
  /\ UNCHANGED <<executor, paused, executedBitmap, ledger, paid, approved>>

SetExecutor(sender, newExecutor) ==
  /\ Idle
  /\ sender = Admin
  /\ newExecutor # ZeroAddress
  /\ executor' = newExecutor
  /\ UNCHANGED <<paused, executedBitmap, executedBatches, distributedAmount, ledger, call, paid,
                 approved>>

SetPaused(sender, value) ==
  /\ Idle
  /\ sender = Admin
  /\ paused' = value
  /\ UNCHANGED <<executor, executedBitmap, executedBatches, distributedAmount, ledger, call, paid,
                 approved>>

Rescue(sender, to, amount) ==
  /\ Idle
  /\ sender = Admin
  /\ CanMove(Airdrop, to, amount)
  /\ balance' = Moved(Airdrop, to, amount)
  /\ UNCHANGED <<contract, allowance, call, paid, approved>>

\* approve(airdrop, amount) by the reserve; amount 0 revokes.
Approve(amount) ==
  /\ Idle
  /\ allowance' = amount
  /\ approved' = [amount |-> amount, base |-> distributedAmount]
  /\ UNCHANGED <<contract, balance, call, paid>>

\* Any holder but the contract, which only moves tokens through Rescue, spends its own tokens.
Transfer(from, to, amount) ==
  /\ Idle
  /\ from \notin {Airdrop, ZeroAddress}
  /\ CanMove(from, to, amount)
  /\ balance' = Moved(from, to, amount)
  /\ UNCHANGED <<contract, allowance, call, paid, approved>>

ExecuteStep == ExecuteRow \/ ExecuteRevert \/ ExecuteEnd

Administer ==
  \/ \E sender, a \in Account : SetExecutor(sender, a)
  \/ \E sender \in Account, b \in BOOLEAN : SetPaused(sender, b)
  \/ \E sender, to \in Account, x \in Amount : Rescue(sender, to, x)

UseToken ==
  \/ \E x \in Amount : Approve(x)
  \/ \E from, to \in Account, x \in Amount : Transfer(from, to, x)

Next ==
  \/ \E sender \in Account, s \in Submission : ExecuteBegin(sender, s)
  \/ ExecuteStep
  \/ Administer
  \/ UseToken

Spec == Init /\ [][Next]_vars

-----------------------------------------------------------------------------
(* Properties. *)

\* Every variable holds a value of its Solidity type; no balance or allowance underflows.
TypeOK ==
  /\ executor \in Account \ {ZeroAddress}
  /\ paused \in BOOLEAN
  /\ executedBitmap \in [Words -> SUBSET (0 .. WordBits - 1)]
  /\ executedBatches \in Nat
  /\ distributedAmount \in Nat
  /\ balance \in [Account -> Nat]
  /\ allowance \in Nat
  /\ call \in {NoCall} \cup Call
  /\ paid \in [Row -> Nat]
  /\ approved \in [amount : Nat, base : Nat]

Executed == SentIn(executedBitmap)

\* Between transactions a published row has been paid once if its batch is marked as sent and never
\* otherwise: no sequence of submissions, pauses, executor changes, approvals and failed batches
\* makes execute() pay a row twice, skip one, or leave a half-sent batch (contract notice,
\* "pay anyone twice").
PaidExactlyOnce ==
  Idle => \A r \in Row : paid[r] = IF r[1] \in Executed THEN 1 ELSE 0

\* executedBatches, which status and reconcile report, counts exactly the bits set in the bitmap.
CounterMatchesBitmap == Idle => executedBatches = Cardinality(Executed)

\* The reserve's approval caps what the contract spends, whatever approvals came before: the amount
\* sent since the last approve() and the allowance left add up to the approved amount, unless the
\* unlimited amount was approved, which transferFrom does not consume.
ApprovalCapsSpending ==
  Idle => IF approved.amount = MaxUint
            THEN allowance = MaxUint
            ELSE allowance + (distributedAmount - approved.base) = approved.amount

\* A step that lowers the reserve's balance while a batch is being sent pays the account and the
\* amount of a published row of a batch that is marked as sent.
OnlyPublishedRowsAreSent ==
  [][(~Idle /\ balance' # balance /\ ~Idle') =>
       /\ call.index \in Executed
       /\ \E k \in 1 .. Len(Published[call.index].recipients) :
            balance' = Moved(Reserve, Published[call.index].recipients[k],
                             Published[call.index].amounts[k])]_vars

-----------------------------------------------------------------------------
(***************************************************************************)
(* The contract implements AtomicAirdrop.  While an execute() runs, which  *)
(* may still revert, the airdrop is where it was when the call began.      *)
(***************************************************************************)
Committed ==
  IF Idle THEN [bitmap |-> executedBitmap, balance |-> balance]
  ELSE [bitmap |-> call.saved.bitmap, balance |-> call.saved.balance]

Atomic ==
  INSTANCE AtomicAirdrop WITH
    Payer <- Reserve, List <- Published, Start <- InitBalance,
    done <- SentIn(Committed.bitmap), count <- executedBatches, spent <- distributedAmount,
    balance <- Committed.balance

\* execute() sends a published batch as a whole or leaves no trace, and never one that was sent
\* before: each account gets exactly what the list says of it, the reserve loses the total, and the
\* two counters that reports read move with it, however rows fail, batches are tampered with or
\* repeated, and approvals, pauses and transfers come in between.
ExecuteIsAtomic == Atomic!Spec
=============================================================================
