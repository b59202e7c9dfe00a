---------------------------- MODULE AirdropReports ----------------------------
(***************************************************************************)
(* status.py and reconcile.py: what they conclude from the state of the    *)
(* contract and of the token at one block.  They change nothing, so each   *)
(* is a predicate of the state of CommittedBatchAirdrop.                   *)
(***************************************************************************)
EXTENDS CommittedBatchAirdrop

\* build.py splits the list into batches with at least one recipient, each with its amount.
ASSUME ListAssumption ==
  \A i \in Index : /\ Published[i].recipients # <<>>
                   /\ Len(Published[i].amounts) = Len(Published[i].recipients)

Total(i) == SumFunction(Published[i].amounts)

TotalAmount == SumFunction([i \in Index |-> Total(i)])

\* status.py unpacks (batchCount + 255) // 256 words and keeps the bits below batchCount.
StatusExecuted ==
  {i \in Index : \E w \in 0 .. ((BatchCount + WordBits - 1) \div WordBits) - 1 :
                   \E b \in executedBitmap[w] : i = w * WordBits + b}

RowsOf(a) == {r \in Row : Published[r[1]].recipients[r[2]] = a}

\* The rows of distribution.csv: one per recipient.
Owed(a) == SumFunction([r \in RowsOf(a) |-> Published[r[1]].amounts[r[2]]])

\* Mistaken variant of ReconcileOK: the allowance is not compared.
ReconcileIgnoringAllowance ==
  /\ \A a \in {Published[r[1]].recipients[r[2]] : r \in Row} : balance[a] >= Owed(a)
  /\ executedBatches = BatchCount
  /\ distributedAmount = TotalAmount

ReconcileOK ==
  /\ \A a \in {Published[r[1]].recipients[r[2]] : r \in Row} : balance[a] >= Owed(a)
  /\ executedBatches = BatchCount
  /\ distributedAmount = TotalAmount
  /\ allowance = TotalAmount - distributedAmount

-----------------------------------------------------------------------------
(* Properties. *)

\* What status.py lists as executed is what was sent, also in a word that is not full, and a
\* reconciliation that passes means that every row was paid once and nothing is left to spend.
ReportsAreSound ==
  Idle =>
    /\ StatusExecuted = {i \in Index : \A r \in Row : r[1] = i => paid[r] = 1}
    /\ ReconcileOK => (\A r \in Row : paid[r] = 1) /\ allowance = 0
=============================================================================
