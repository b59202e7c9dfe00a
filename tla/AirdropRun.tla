------------------------------ MODULE AirdropRun ------------------------------
(***************************************************************************)
(* The operation of one airdrop: `airdrop.py execute' (Execute.s.sol run   *)
(* by forge) and the reserve's approvals (approve_calldata.py), around the *)
(* contract of CommittedBatchAirdrop.                                      *)
(*                                                                         *)
(* A run of the script reads the chain once, decides which batches to      *)
(* send, and then broadcasts them one by one.  Between the decision and    *)
(* the mining of a transaction anything may happen: the operator is        *)
(* interrupted and starts again, a second wallet sends the same batches,   *)
(* a transaction is lost or mined late, the admin pauses or replaces the   *)
(* executor, the reserve revokes the approval.                             *)
(***************************************************************************)
EXTENDS AirdropReports

CONSTANTS
  Wallet,       \* the wallets that run the script
  Slot,         \* distinguishes transactions in flight for the same batch
  Elsewhere,    \* where the reserve spends tokens outside the airdrop
  MaxFaults     \* bound on interruptions and lost transactions

\* totalAmount is a uint256.
ASSUME RunAssumption == Wallet \cup {Elsewhere} \subseteq Account /\ TotalAmount \in 0 .. MaxUint

VARIABLES
  op,           \* per wallet, the script run: phase, batches to send, slot of the sent one
  mempool,      \* execute() transactions sent and not yet mined
  current,      \* the transaction being mined, if any
  faults

runVars == <<vars, op, mempool, current, faults>>

Tx == [sender : Wallet, index : Index, slot : Slot]

NoTx == [sender |-> ZeroAddress]

IdleOp == [phase |-> "idle", todo |-> <<>>, slot |-> 0]

-----------------------------------------------------------------------------
(* Execute.s.sol, run by forge. *)

\* The exclusive end of the range; 0 and anything past the end mean the last batch.
RangeEnd(to) == IF to = 0 \/ to > BatchCount THEN BatchCount ELSE to

\* Mistaken variant of Unsent: executed batches are not skipped.
UnsentAndSent(from, to) == [k \in 1 .. RangeEnd(to) - from |-> from + k - 1]

\* The batches of the range that the chain does not report as executed, in order.
Unsent(from, to) ==
  LET unsent == {i \in from .. RangeEnd(to) - 1 : ~IsExecuted(i)}
  IN  [k \in 1 .. Cardinality(unsent) |->
         CHOOSE i \in unsent : Cardinality({j \in unsent : j < i}) = k - 1]

\* What the batches before the k-th take from the allowance, and from the reserve's balance.
SpentBefore(todo, k) == SumFunction([j \in 1 .. k - 1 |-> Total(todo[j])])

PaidOutBefore(todo, k) ==
  SumFunction([j \in 1 .. k - 1 |->
    LET b == Published[todo[j]]
    IN  SumFunctionOnSet(b.amounts, {r \in DOMAIN b.amounts : b.recipients[r] # Reserve})])

\* The script first runs against the state it read; every require of its loop must hold there.
Affordable(todo) ==
  \A k \in 1 .. Len(todo) :
    /\ allowance = MaxUint \/ allowance - SpentBefore(todo, k) >= Total(todo[k])
    /\ balance[Reserve] - PaidOutBefore(todo, k) >= Total(todo[k])
    /\ ZeroAddress \notin Range(Published[todo[k]].recipients)

StartExecute(w, from, to) ==
  /\ Idle
  /\ op[w].phase = "idle"
  /\ from < RangeEnd(to)
  /\ ~paused
  /\ executor = w
  /\ LET todo == Unsent(from, to)
     IN  /\ todo # <<>>
         /\ Affordable(todo)
         /\ op' = [op EXCEPT ![w] = [phase |-> "send", todo |-> todo, slot |-> 0]]
  /\ UNCHANGED <<vars, mempool, current, faults>>

\* --slow: one transaction at a time, the next one after the receipt.
Broadcast(w) ==
  /\ op[w].phase = "send"
  /\ \E n \in Slot :
       LET tx == [sender |-> w, index |-> Head(op[w].todo), slot |-> n]
       IN  /\ tx \notin mempool \cup {current}
           /\ mempool' = mempool \cup {tx}
           /\ op' = [op EXCEPT ![w].phase = "wait", ![w].slot = n]
  /\ UNCHANGED <<vars, current, faults>>

Waiting(tx) ==
  /\ op[tx.sender].phase = "wait"
  /\ op[tx.sender].slot = tx.slot
  /\ Head(op[tx.sender].todo) = tx.index

\* The receipt of tx: the script goes on after a success and stops after a failure.
Receipt(tx, ok) ==
  op' = IF ~Waiting(tx) THEN op
        ELSE [op EXCEPT ![tx.sender] =
               IF ok /\ Len(@.todo) > 1 THEN [phase |-> "send", todo |-> Tail(@.todo), slot |-> 0]
               ELSE IdleOp]

\* Interrupted at any point; what was sent stays sent.
Interrupt(w) ==
  /\ op[w].phase # "idle"
  /\ faults < MaxFaults
  /\ faults' = faults + 1
  /\ op' = [op EXCEPT ![w] = IdleOp]
  /\ UNCHANGED <<vars, mempool, current>>

\* The receipt of a lost transaction never comes: forge gives up waiting.
GiveUp(w) ==
  /\ op[w].phase = "wait"
  /\ [sender |-> w, index |-> Head(op[w].todo), slot |-> op[w].slot] \notin mempool \cup {current}
  /\ op' = [op EXCEPT ![w] = IdleOp]
  /\ UNCHANGED <<vars, mempool, current, faults>>

Lose(tx) ==
  /\ tx \in mempool
  /\ faults < MaxFaults
  /\ faults' = faults + 1
  /\ mempool' = mempool \ {tx}
  /\ UNCHANGED <<vars, op, current>>

-----------------------------------------------------------------------------
(* The chain. *)

SubmissionOf(tx) == [index |-> tx.index, batch |-> Published[tx.index]]

MineAccepted(tx) ==
  /\ tx \in mempool
  /\ ExecuteBegin(tx.sender, SubmissionOf(tx))
  /\ mempool' = mempool \ {tx}
  /\ current' = tx
  /\ UNCHANGED <<op, faults>>

MineRejected(tx) ==
  /\ tx \in mempool
  /\ Idle
  /\ ~Accepts(tx.sender, SubmissionOf(tx))
  /\ mempool' = mempool \ {tx}
  /\ Receipt(tx, FALSE)
  /\ UNCHANGED <<vars, current, faults>>

MineRow == ExecuteRow /\ UNCHANGED <<op, mempool, current, faults>>

MineClose ==
  /\ \/ ExecuteRevert /\ Receipt(current, FALSE)
     \/ ExecuteEnd /\ Receipt(current, TRUE)
  /\ current' = NoTx
  /\ UNCHANGED <<mempool, faults>>

\* The admin, and the reserve: approve_calldata.py prepares the run's total, or 0 with --revoke.
Govern ==
  /\ \/ \E w \in Wallet : SetExecutor(Admin, w)
     \/ \E b \in BOOLEAN : SetPaused(Admin, b)
     \/ \E x \in {TotalAmount, 0} : Approve(x)
     \/ \E x \in Amount : Transfer(Reserve, Elsewhere, x)
  /\ UNCHANGED <<op, mempool, current, faults>>

RunInit ==
  /\ Init
  /\ executor \in Wallet
  /\ op = [w \in Wallet |-> IdleOp]
  /\ mempool = {}
  /\ current = NoTx
  /\ faults = 0

Mine == (\E tx \in mempool : MineAccepted(tx) \/ MineRejected(tx)) \/ MineRow \/ MineClose

RunNext ==
  \/ \E w \in Wallet : \/ \E from, to \in 0 .. BatchCount + 1 : StartExecute(w, from, to)
                       \/ Broadcast(w) \/ Interrupt(w) \/ GiveUp(w)
  \/ Mine
  \/ \E tx \in mempool : Lose(tx)
  \/ Govern

\* A script that is running goes on; the operator starts `execute 0 0' again until nothing is
\* left; the chain mines what is pending.
Fairness ==
  /\ \A w \in Wallet : WF_runVars(Broadcast(w)) /\ WF_runVars(GiveUp(w))
                       /\ WF_runVars(StartExecute(w, 0, 0))
  /\ WF_runVars(Mine)

RunSpec == RunInit /\ [][RunNext]_runVars /\ Fairness

-----------------------------------------------------------------------------
(***************************************************************************)
(* airdrop/script/Simulate.s.sol: the rehearsal on a fork of the chain, at *)
(* any moment of the run, against the deployed contract.  It sends         *)
(* nothing, so it is a predicate of the state it forks from.               *)
(***************************************************************************)
\* First, middle and last batch.
SampleBatches == {0, BatchCount \div 2, BatchCount - 1}

\* The batches the rehearsal sends: those not executed on the fork.
Rehearsed == Index \ Executed

RehearsedRows(a) == {r \in RowsOf(a) : r[1] \in Rehearsed}

\* What account a gains in the rehearsal; the reserve pays for every rehearsed row.
Gain(a) ==
  SumFunction([r \in RehearsedRows(a) |-> Published[r[1]].amounts[r[2]]])
    - (IF a = Reserve THEN SumFunction([i \in Rehearsed |-> Total(i)]) ELSE 0)

\* The reserve grants the total if less than that is approved.
GrantedAllowance == IF allowance < TotalAmount THEN TotalAmount ELSE allowance

AllowanceLeft ==
  IF GrantedAllowance = MaxUint THEN MaxUint
  ELSE GrantedAllowance - SumFunction([i \in Rehearsed |-> Total(i)])

\* The rehearsed batches that the contract and the token accept on the fork.
RehearsalRuns ==
  /\ ~paused
  /\ \A i \in Rehearsed :
       VerifyBatch(i, Published[i]) /\ ZeroAddress \notin Range(Published[i].recipients)

\* Mistaken variant of SimulationOK: the reserve's balance is not checked.
SimulationWithoutBalance ==
  /\ RehearsalRuns
  /\ executedBatches + Cardinality(Rehearsed) = BatchCount
  /\ AllowanceLeft = 0

\* Every require of the script up to SIMULATION OK.
SimulationOK ==
  /\ balance[Reserve] >= TotalAmount
  /\ RehearsalRuns
  /\ executedBatches + Cardinality(Rehearsed) = BatchCount
  /\ distributedAmount + SumFunction([i \in Rehearsed |-> Total(i)]) = TotalAmount
  /\ AllowanceLeft = 0
  /\ \A r \in Row : r[1] \in SampleBatches =>
       Gain(Published[r[1]].recipients[r[2]]) = Published[r[1]].amounts[r[2]]

-----------------------------------------------------------------------------
(* Properties. *)

\* However often the script is interrupted, rerun or run by two wallets at once, and whatever is
\* mined late, between transactions each recipient has received exactly the published rows of the
\* batches marked as sent.
RecipientsPaidExactly ==
  Idle => \A a \in Account \ {Reserve, Elsewhere} :
    balance[a] = InitBalance[a]
                 + SumFunction([r \in {q \in RowsOf(a) : q[1] \in Executed} |->
                                  Published[r[1]].amounts[r[2]]])

Ready(w) ==
  /\ ~paused
  /\ executor = w
  /\ allowance = MaxUint \/ allowance >= TotalAmount - distributedAmount
  /\ balance[Reserve] >= TotalAmount - distributedAmount

\* If the contract is eventually left unpaused with one executor and a sufficient approval and
\* balance, rerunning the script sends every batch, whatever was interrupted or lost before.
EverythingIsSent == \A w \in Wallet : <>[]Ready(w) => <>(Executed = Index)

\* After a successful rehearsal, once the reserve has approved the total, the checks with which
\* Execute.s.sol starts pass for the whole list: the rehearsal finds what would stop the run.
RehearsalPredictsExecution ==
  (Idle /\ SimulationOK /\ allowance = TotalAmount) => Affordable(Unsent(0, 0))
=============================================================================
