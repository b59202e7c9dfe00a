--------------------- MODULE CommittedBatchAirdropProofs ---------------------
(***************************************************************************)
(* Proofs that CommittedBatchAirdrop pays every published row at most once *)
(* and within the reserve's approval, for every list, bitmap word size,    *)
(* set of accounts and set of submissions; that it implements              *)
(* AtomicAirdrop; that the reports can be trusted; that the scripts of     *)
(* AirdropRun, however they are interrupted, pay the recipients exactly;   *)
(* and that a rehearsal predicts what a run will meet.                     *)
(*                                                                         *)
(* The properties hold between transactions.  They are not inductive: the  *)
(* inductive invariant also says what is true after each row of a running  *)
(* execute(), and that the storage a revert would restore is good.  The    *)
(* refinement and the run add what each account holds: the sum of its rows *)
(* in the marked batches, and while a batch runs the rows before the       *)
(* position as well.                                                       *)
(***************************************************************************)
EXTENDS AirdropRun, FunctionSums

\* The rows of the batches in S are paid once and no other row is.
PaidFor(p, S) == \A r \in Row : p[r] = IF r[1] \in S THEN 1 ELSE 0

\* An allowance left after `spent' was sent under the last approval.
Capped(left, spent) ==
  IF approved.amount = MaxUint THEN left = MaxUint ELSE left + spent = approved.amount

Spent == distributedAmount - approved.base

\* The storage between two transactions, and the storage a revert restores.
Settled(bitmap, p, left) ==
  /\ PaidFor(p, SentIn(bitmap))
  /\ executedBatches = Cardinality(SentIn(bitmap))
  /\ Capped(left, Spent)

\* A running execute(): the batch is the published one, its bit is the only new one, and exactly
\* its rows before `pos' have been paid.
Running ==
  /\ call.index \in Index
  /\ call.batch = Published[call.index]
  /\ Len(call.batch.amounts) = Len(call.batch.recipients)
  /\ call.pos <= Len(call.batch.recipients) + 1
  /\ call.index \notin SentIn(call.saved.bitmap)
  /\ Executed = SentIn(call.saved.bitmap) \cup {call.index}
  /\ Settled(call.saved.bitmap, call.saved.paid, call.saved.allowance)
  /\ \A r \in Row : paid[r] = IF r[1] = call.index
                                THEN IF r[2] < call.pos THEN 1 ELSE 0
                                ELSE IF r[1] \in Executed THEN 1 ELSE 0
  /\ Capped(allowance, Spent + call.sum)

IInv ==
  /\ TypeOK
  /\ approved.amount <= MaxUint
  /\ approved.base <= distributedAmount
  /\ Idle => Settled(executedBitmap, paid, allowance)
  /\ ~Idle => Running

-----------------------------------------------------------------------------
(* The bitmap. *)

\* No two batch indexes share a word and a bit of the bitmap, whatever the word size.
LEMMA WordBitInjective ==
  ASSUME NEW i \in Index, NEW j \in Index, Word(i) = Word(j), Bit(i) = Bit(j)
  PROVE  i = j
BY WordBitsAssumption, BatchCountAssumption DEF Index, Word, Bit

\* The bit of a batch is a bit of its word.
LEMMA BitRange == \A i \in Index : Word(i) \in Words /\ Bit(i) \in 0 .. WordBits - 1
BY WordBitsAssumption, BatchCountAssumption DEF Index, Word, Words, Bit

Bitmaps == [Words -> SUBSET (0 .. WordBits - 1)]

\* Setting the bit of batch i marks batch i as sent and no other batch.
LEMMA MarkOne ==
  ASSUME NEW i \in Index, executedBitmap \in Bitmaps
  PROVE  /\ Marked(i) \in Bitmaps
         /\ SentIn(Marked(i)) = Executed \cup {i}
<1>1. Marked(i) \in Bitmaps
  BY Zenon, BitRange DEF Marked, Bitmaps
<1>2. ASSUME NEW j \in Index
      PROVE  Bit(j) \in Marked(i)[Word(j)] <=> Bit(j) \in executedBitmap[Word(j)] \/ j = i
  <2>1. CASE Word(j) = Word(i)
    BY Zenon, <2>1, BitRange, WordBitInjective DEF Marked, Bitmaps
  <2>2. CASE Word(j) # Word(i)
    BY Zenon, <2>2, BitRange DEF Marked, Bitmaps
  <2> QED BY <2>1, <2>2
<1> QED BY <1>1, <1>2 DEF SentIn, Executed

\* A set of batches is finite, so that it can be counted.
LEMMA SentFinite == \A bitmap : IsFiniteSet(SentIn(bitmap))
<1>1. IsFiniteSet(Index)
  BY BatchCountAssumption, FS_Interval DEF Index
<1> QED BY <1>1, FS_Subset DEF SentIn
-----------------------------------------------------------------------------
(***************************************************************************)
(* The inductive invariant.  It is proved for every submission and every   *)
(* amount: the steps of Spec are among these, and so are those of an       *)
(* airdrop that is run by the script (AirdropRun).                         *)
(***************************************************************************)
\* A call that leaves the batches alone.
OtherCall ==
  \/ \E sender, a \in Account : SetExecutor(sender, a)
  \/ \E sender \in Account, b \in BOOLEAN : SetPaused(sender, b)
  \/ \E sender, to \in Account, x \in 0 .. MaxUint : Rescue(sender, to, x)
  \/ \E x \in 0 .. MaxUint : Approve(x)
  \/ \E from, to \in Account, x \in 0 .. MaxUint : Transfer(from, to, x)

AnyStep ==
  \/ \E sender \in Account, s \in [index : Nat, batch : Batch] : ExecuteBegin(sender, s)
  \/ ExecuteStep
  \/ OtherCall

\* A newly deployed contract has sent nothing and may spend nothing.
LEMMA InitIInv == Init => IInv
<1> SUFFICES ASSUME Init PROVE IInv
  BY Zenon
<1>1. TypeOK
  BY Zenon, BalanceAssumption DEF Init, TypeOK
<1>2. SentIn(executedBitmap) = {}
  BY Zenon, BitRange DEF Init, SentIn
<1>3. Settled(executedBitmap, paid, allowance)
  <2>1. PaidFor(paid, {})
    BY Zenon DEF Init, PaidFor
  <2>2. Capped(allowance, Spent)
    BY AmountAssumption DEF Init, Capped, Spent
  <2> QED BY Zenon, <1>2, <2>1, <2>2, FS_EmptySet DEF Init, Settled
<1> QED BY <1>1, <1>3, AmountAssumption DEF Init, IInv, Idle

\* Accepting a batch opens a call for a published, unsent batch and marks it.
LEMMA BeginIInv ==
  ASSUME IInv, NEW sender \in Account, NEW s \in [index : Nat, batch : Batch], ExecuteBegin(sender, s)
  PROVE  IInv'
<1> DEFINE i == s.index
<1> USE DEF IInv
<1>1. /\ i \in Index /\ s.batch = Published[i] /\ s.batch \in Batch
      /\ Len(s.batch.amounts) = Len(s.batch.recipients)
      /\ i \notin Executed /\ Idle
  BY Zenon DEF ExecuteBegin, Accepts, VerifyBatch, IsExecuted, Executed, SentIn
<1>2. executedBitmap \in Bitmaps
  BY Zenon DEF TypeOK, Bitmaps
<1>3. executedBitmap' \in Bitmaps /\ Executed' = Executed \cup {i}
  BY Zenon, <1>1, <1>2, MarkOne DEF ExecuteBegin, Executed
<1>4. call'.index = i /\ call'.batch = s.batch /\ call'.pos = 1 /\ call'.sum = 0
  BY Zenon DEF ExecuteBegin
<1>5. call'.saved = [bitmap |-> executedBitmap, balance |-> balance,
                     allowance |-> allowance, paid |-> paid]
  BY Zenon DEF ExecuteBegin
<1>6. call' \in Call
  BY <1>1, <1>2 DEF ExecuteBegin, Call, Saved, TypeOK, Bitmaps
<1>7. TypeOK'
  BY Zenon, <1>3, <1>6 DEF TypeOK, ExecuteBegin, Bitmaps, ledger
<1>8. Settled(executedBitmap, paid, allowance)
  BY Zenon, <1>1
<1>9. UNCHANGED <<paid, allowance, approved, executedBatches, distributedAmount>>
  BY Zenon DEF ExecuteBegin, ledger
<1>10. Settled(executedBitmap, paid, allowance)'
         = Settled(executedBitmap', paid, allowance)
  BY Zenon, <1>9 DEF Settled, PaidFor, Capped, Spent
<1>11. Running'
  <2>1. (Settled(call.saved.bitmap, call.saved.paid, call.saved.allowance))'
    BY <1>5, <1>8, <1>9 DEF Settled, PaidFor, Capped, Spent
  <2>2. \A r \in Row : paid'[r] = IF r[1] = i THEN IF r[2] < 1 THEN 1 ELSE 0
                                  ELSE IF r[1] \in Executed' THEN 1 ELSE 0
    <3> SUFFICES ASSUME NEW r \in Row
                 PROVE  paid'[r] = IF r[1] = i THEN IF r[2] < 1 THEN 1 ELSE 0
                                  ELSE IF r[1] \in Executed' THEN 1 ELSE 0
      BY Zenon
    <3>1. r[2] \in Nat /\ ~(r[2] < 1)
      BY PublishedAssumption DEF Row, Batch
    <3>2. paid[r] = IF r[1] \in Executed THEN 1 ELSE 0
      BY Zenon, <1>8 DEF Settled, PaidFor, Executed
    <3> QED BY <1>1, <1>3, <1>9, <3>1, <3>2
  <2>3. Capped(allowance, Spent + 0)'
    BY <1>8, <1>9 DEF Settled, Capped, Spent, TypeOK
  <2>4. call'.pos <= Len(call'.batch.recipients) + 1
    BY <1>1, <1>4 DEF Batch
  <2>5. call'.index \notin SentIn(call'.saved.bitmap)
        /\ Executed' = SentIn(call'.saved.bitmap) \cup {call'.index}
    BY <1>1, <1>3, <1>4, <1>5 DEF Executed
  <2> QED BY <1>1, <1>4, <2>1, <2>2, <2>3, <2>4, <2>5 DEF Running
<1>12. ~Idle'
  BY Zenon, <1>6, NoCallAssumption DEF Idle, Call, Saved
<1> QED BY <1>4, <1>7, <1>9, <1>11, <1>12

\* A covered transfer leaves every balance a natural number, also one from an account to itself.
LEMMA MovedType ==
  ASSUME balance \in [Account -> Nat], NEW from \in Account, NEW to \in Account, NEW amount \in Nat,
         balance[from] >= amount
  PROVE  Moved(from, to, amount) \in [Account -> Nat]
<1> DEFINE b == [balance EXCEPT ![from] = @ - amount]
<1>1. b \in [Account -> Nat]
  OBVIOUS
<1>2. [b EXCEPT ![to] = @ + amount] \in [Account -> Nat]
  BY <1>1
<1> QED BY <1>2 DEF Moved

\* The shape of an open call.
LEMMA OpenCall ==
  ASSUME IInv, ~Idle
  PROVE  /\ call \in Call /\ Running /\ call.pos \in Nat \ {0} /\ call.sum \in Nat
         /\ Published[call.index] \in Batch
         /\ Len(call.batch.recipients) \in Nat
<1>2. call \in Call /\ Running
  BY Zenon DEF IInv, TypeOK, Idle
<1>3. call.pos \in Nat \ {0} /\ call.sum \in Nat
  BY Zenon, <1>2 DEF Call
<1>4. Published[call.index] \in Batch
  BY Zenon, <1>2, PublishedAssumption DEF Running
<1> QED BY <1>2, <1>3, <1>4 DEF Running, Batch

\* Advancing a call changes its position and its sum, and nothing else.
LEMMA Advance ==
  ASSUME call \in Call, Value \in Nat, ExecuteRow
  PROVE  /\ call' \in Call
         /\ call'.pos = call.pos + 1 /\ call'.sum = call.sum + Value
         /\ call'.index = call.index /\ call'.batch = call.batch /\ call'.saved = call.saved
<1>1. call' = [index |-> call.index, batch |-> call.batch, pos |-> call.pos + 1,
               sum |-> call.sum + Value, saved |-> call.saved]
  <2>1. call' = [call EXCEPT !.pos = call.pos + 1, !.sum = call.sum + Value]
    BY Zenon DEF ExecuteRow
  <2> QED BY Zenon, <2>1 DEF Call
<1>2. /\ call.index \in Index /\ call.batch \in Batch /\ call.saved \in Saved
      /\ call.pos + 1 \in Nat \ {0} /\ call.sum + Value \in Nat
  BY DEF Call
<1>3. call' \in Call
  BY Zenon, <1>1, <1>2 DEF Call
<1>4. /\ call'.pos = call.pos + 1 /\ call'.sum = call.sum + Value
      /\ call'.index = call.index /\ call'.batch = call.batch /\ call'.saved = call.saved
  BY Zenon, <1>1
<1> QED BY <1>3, <1>4

\* Paying one row moves the next row of the batch from unpaid to paid.
LEMMA RowIInv ==
  ASSUME IInv, ExecuteRow
  PROVE  IInv'
<1> USE DEF IInv
<1>1. call \in Call /\ Running /\ call.pos \in Nat /\ call.sum \in Nat
  BY Zenon, OpenCall DEF ExecuteRow
<1>2. Published[call.index] \in Batch
  BY Zenon, OpenCall DEF ExecuteRow
<1>3. call.pos \in 1 .. Len(call.batch.recipients) /\ Len(call.batch.recipients) \in Nat
  BY <1>1, <1>2 DEF ExecuteRow, Running, Batch, Call
<1>4. To \in Account /\ Value \in Nat
  BY <1>1, <1>2, <1>3 DEF To, Value, Running, Batch
<1>5. balance[Reserve] - Value \in Nat /\ AllowanceAfter(Value) \in Nat
  <2>1. (allowance = MaxUint \/ allowance >= Value) /\ balance[Reserve] >= Value
    BY Zenon DEF ExecuteRow, CanTransferFrom, CanMove
  <2>2. balance[Reserve] \in Nat /\ allowance \in Nat
    BY Zenon, AccountAssumption DEF TypeOK
  <2> HIDE DEF IInv
  <2> QED BY <1>4, <2>1, <2>2 DEF AllowanceAfter
<1>6. balance' \in [Account -> Nat]
  BY Zenon, <1>4, MovedType, AccountAssumption DEF ExecuteRow, CanTransferFrom, CanMove, TypeOK
<1>7. paid' \in [Row -> Nat] /\ <<call.index, call.pos>> \in Row
  <2>1. <<call.index, call.pos>> \in Row
    BY <1>1, <1>3 DEF Row, Running
  <2> QED BY <2>1 DEF ExecuteRow, TypeOK
<1>8. /\ call' \in Call /\ call'.pos = call.pos + 1
      /\ call'.sum = call.sum + Value /\ call'.index = call.index
      /\ call'.batch = call.batch /\ call'.saved = call.saved
  BY Zenon, <1>1, <1>4, Advance
<1>9. UNCHANGED <<executor, paused, executedBitmap, executedBatches, distributedAmount, approved>>
  BY Zenon DEF ExecuteRow, contract
<1>10. TypeOK'
  BY Zenon, <1>5, <1>6, <1>7, <1>8, <1>9 DEF TypeOK, ExecuteRow
<1>11. Running'
  <2>1. (Settled(call.saved.bitmap, call.saved.paid, call.saved.allowance))'
    BY Zenon, <1>1, <1>8, <1>9 DEF Running, Settled, PaidFor, Capped, Spent
  <2>2. Capped(allowance, Spent + call.sum)'
    <3>1. Spent \in Int /\ Spent >= 0 /\ Spent' = Spent
      BY <1>9 DEF Spent, TypeOK
    <3>2. CASE approved.amount = MaxUint
      BY Zenon, <1>1, <1>9, <3>2 DEF Running, Capped, ExecuteRow, AllowanceAfter
    <3>3. CASE approved.amount # MaxUint
      <4>1. allowance + (Spent + call.sum) = approved.amount
        BY Zenon, <1>1, <3>3 DEF Running, Capped
      <4>2. allowance # MaxUint
        BY <1>1, <3>1, <3>3, <4>1, AmountAssumption DEF TypeOK
      <4>3. allowance' = allowance - Value
        BY Zenon, <4>2 DEF ExecuteRow, AllowanceAfter
      <4> QED BY <1>1, <1>4, <1>8, <1>9, <3>1, <3>3, <4>1, <4>3 DEF Capped, TypeOK
    <3> QED BY <3>2, <3>3
  <2>3. \A r \in Row : paid'[r] = IF r[1] = call.index
                                    THEN IF r[2] < call.pos + 1 THEN 1 ELSE 0
                                    ELSE IF r[1] \in Executed THEN 1 ELSE 0
    <3> SUFFICES ASSUME NEW r \in Row
                 PROVE  paid'[r] = IF r[1] = call.index
                                    THEN IF r[2] < call.pos + 1 THEN 1 ELSE 0
                                    ELSE IF r[1] \in Executed THEN 1 ELSE 0
      BY Zenon
    <3>1. r = <<r[1], r[2]>> /\ r[2] \in Nat
      BY PublishedAssumption DEF Row, Batch
    <3>2. paid'[r] = IF r = <<call.index, call.pos>> THEN paid[r] + 1 ELSE paid[r]
      BY Zenon, <1>7 DEF ExecuteRow, TypeOK
    <3>3. paid[r] = IF r[1] = call.index
                      THEN IF r[2] < call.pos THEN 1 ELSE 0
                      ELSE IF r[1] \in Executed THEN 1 ELSE 0
      BY Zenon, <1>1 DEF Running
    <3> QED BY <1>3, <3>1, <3>2, <3>3
  <2>4. Executed' = Executed
    BY Zenon, <1>9 DEF Executed, SentIn
  <2>5. call'.pos <= Len(call'.batch.recipients) + 1
    BY <1>3, <1>8
  <2>6. /\ call'.index \notin SentIn(call'.saved.bitmap)
        /\ Executed' = SentIn(call'.saved.bitmap) \cup {call'.index}
    BY Zenon, <1>1, <1>8, <2>4 DEF Running
  <2>7. \A r \in Row : paid'[r] = IF r[1] = call'.index
                                    THEN IF r[2] < call'.pos THEN 1 ELSE 0
                                    ELSE IF r[1] \in Executed' THEN 1 ELSE 0
    BY Zenon, <1>8, <2>3, <2>4
  <2> QED BY <1>1, <1>8, <2>1, <2>2, <2>5, <2>6, <2>7 DEF Running
<1>12. ~Idle'
  BY Zenon, <1>8, NoCallAssumption DEF Idle
<1> QED BY <1>8, <1>9, <1>10, <1>11, <1>12

\* A transfer that fails puts back the storage the call started from.
LEMMA RevertIInv ==
  ASSUME IInv, ExecuteRevert
  PROVE  IInv'
<1>1. call \in Call /\ Running
  BY Zenon, OpenCall DEF ExecuteRevert
<1>2. call.saved \in Saved /\ Settled(call.saved.bitmap, call.saved.paid, call.saved.allowance)
  BY Zenon, <1>1 DEF Call, Running
<1>3. /\ executedBitmap' = call.saved.bitmap /\ balance' = call.saved.balance
      /\ allowance' = call.saved.allowance /\ paid' = call.saved.paid /\ call' = NoCall
      /\ UNCHANGED <<executor, paused, executedBatches, distributedAmount, approved>>
  BY Zenon DEF ExecuteRevert
<1>4. TypeOK'
  BY Zenon, <1>2, <1>3 DEF IInv, TypeOK, Saved
<1>5. Settled(executedBitmap, paid, allowance)'
  BY Zenon, <1>2, <1>3 DEF Settled, PaidFor, Capped, Spent
<1> QED BY <1>3, <1>4, <1>5 DEF IInv, Idle

\* When the last row is paid the whole batch is, and the counters catch up with the bitmap.
LEMMA EndIInv ==
  ASSUME IInv, ExecuteEnd
  PROVE  IInv'
<1>1. call \in Call /\ Running /\ call.sum \in Nat /\ call.pos \in Nat
      /\ Len(call.batch.recipients) \in Nat
  BY Zenon, OpenCall DEF ExecuteEnd
<1>2. /\ executedBatches' = executedBatches + 1
      /\ distributedAmount' = distributedAmount + call.sum /\ call' = NoCall
      /\ UNCHANGED <<executor, paused, executedBitmap, balance, allowance, paid, approved>>
      /\ call.pos > Len(call.batch.recipients)
  BY Zenon DEF ExecuteEnd, ledger
<1>3. TypeOK'
  BY <1>1, <1>2 DEF IInv, TypeOK
<1>4. PaidFor(paid, Executed)
  <2> SUFFICES ASSUME NEW r \in Row PROVE paid[r] = IF r[1] \in Executed THEN 1 ELSE 0
    BY Zenon DEF PaidFor
  <2>1. CASE r[1] = call.index
    <3>1. r[2] \in 1 .. Len(call.batch.recipients) /\ call.index \in Executed
      BY <1>1, <2>1 DEF Row, Running
    <3> QED BY <1>1, <1>2, <2>1, <3>1 DEF Running
  <2>2. CASE r[1] # call.index
    BY Zenon, <1>1, <2>2 DEF Running
  <2> QED BY <2>1, <2>2
<1>5. executedBatches + 1 = Cardinality(Executed)
  <2>1. executedBatches = Cardinality(SentIn(call.saved.bitmap))
        /\ call.index \notin SentIn(call.saved.bitmap)
        /\ Executed = SentIn(call.saved.bitmap) \cup {call.index}
    BY Zenon, <1>1 DEF Running, Settled
  <2> QED BY Zenon, <2>1, SentFinite, FS_AddElement
<1>6. Capped(allowance, Spent)'
  BY SMTT(30), <1>1, <1>2 DEF Running, Capped, Spent, IInv, TypeOK
<1>7. Settled(executedBitmap, paid, allowance)'
  BY Zenon, <1>2, <1>4, <1>5, <1>6 DEF Settled, PaidFor, Executed
<1>8. approved'.amount <= MaxUint /\ approved'.base <= distributedAmount'
  BY <1>1, <1>2 DEF IInv, TypeOK
<1> QED BY <1>2, <1>3, <1>7, <1>8 DEF IInv, Idle

\* A transaction that leaves the batches alone: administration, transfers, a new approval.
LEMMA OtherIInv ==
  ASSUME IInv, OtherCall
  PROVE  IInv'
<1>1. /\ Idle /\ call' = call
      /\ UNCHANGED <<executedBitmap, executedBatches, distributedAmount, paid>>
  BY Zenon DEF OtherCall, SetExecutor, SetPaused, Rescue, Approve, Transfer, contract
<1>2. Settled(executedBitmap, paid, allowance)
  BY Zenon, <1>1 DEF IInv
<1>3. executor' \in Account \ {ZeroAddress} /\ paused' \in BOOLEAN
  BY Zenon DEF IInv, TypeOK, OtherCall, SetExecutor, SetPaused, Rescue, Approve, Transfer,
         contract
<1>4. balance' \in [Account -> Nat]
  <2>1. CASE \E sender, to \in Account, x \in 0 .. MaxUint : Rescue(sender, to, x)
    BY <2>1, MovedType, AccountAssumption, AmountAssumption DEF Rescue, CanMove, IInv, TypeOK
  <2>2. CASE \E from, to \in Account, x \in 0 .. MaxUint : Transfer(from, to, x)
    BY <2>2, MovedType, AmountAssumption DEF Transfer, CanMove, IInv, TypeOK
  <2>3. CASE UNCHANGED balance
    BY Zenon, <2>3 DEF IInv, TypeOK
  <2> QED BY <2>1, <2>2, <2>3 DEF OtherCall, SetExecutor, SetPaused, Approve, ledger
<1>5. CASE \E x \in 0 .. MaxUint : Approve(x)
  <2>1. PICK x \in 0 .. MaxUint : Approve(x)
    BY Zenon, <1>5
  <2>2. x \in Nat /\ x <= MaxUint /\ MaxUint \in Nat
    BY AmountAssumption
  <2>3. allowance' = x /\ approved' = [amount |-> x, base |-> distributedAmount]
    BY Zenon, <2>1 DEF Approve
  <2>4. TypeOK'
    BY Zenon, <1>1, <1>3, <1>4, <2>2, <2>3 DEF IInv, TypeOK
  <2>5. Settled(executedBitmap, paid, allowance)'
    <3>1. Capped(allowance, Spent)'
      BY <1>1, <2>2, <2>3 DEF Capped, Spent, IInv, TypeOK
    <3> QED BY <1>1, <1>2, <3>1 DEF Settled, PaidFor
  <2>6. approved'.amount <= MaxUint /\ approved'.base <= distributedAmount'
    BY <1>1, <2>2, <2>3 DEF IInv, TypeOK
  <2> QED BY <1>1, <2>4, <2>5, <2>6 DEF IInv, Idle
<1>6. CASE UNCHANGED <<allowance, approved>>
  <2>1. TypeOK'
    BY Zenon, <1>1, <1>3, <1>4, <1>6 DEF IInv, TypeOK
  <2>2. Settled(executedBitmap, paid, allowance)'
    BY Zenon, <1>1, <1>2, <1>6 DEF Settled, PaidFor, Capped, Spent
  <2> QED BY <1>1, <1>6, <2>1, <2>2 DEF IInv, Idle
<1> QED
  BY Zenon, <1>5, <1>6 DEF OtherCall, SetExecutor, SetPaused, Rescue, Transfer, ledger

\* Every step of the contract and of the token preserves the invariant.
LEMMA NextIInv == IInv /\ [AnyStep]_vars => IInv'
<1> SUFFICES ASSUME IInv, [AnyStep]_vars PROVE IInv'
  BY Zenon
<1>1. CASE \E sender \in Account, s \in [index : Nat, batch : Batch] : ExecuteBegin(sender, s)
  BY Zenon, <1>1, BeginIInv
<1>2. CASE ExecuteStep
  BY Zenon, <1>2, RowIInv, RevertIInv, EndIInv DEF ExecuteStep
<1>3. CASE OtherCall
  BY Zenon, <1>3, OtherIInv
<1>4. CASE UNCHANGED vars
  BY Zenon, <1>4 DEF vars, contract, ledger, IInv, TypeOK, Idle, Settled, PaidFor, Capped, Spent, Running,
              Executed, SentIn
<1> QED BY <1>1, <1>2, <1>3, <1>4 DEF AnyStep

\* The steps of Spec are among these.
LEMMA NextIsAnyStep == Next => AnyStep
<1>1. Administer \/ UseToken => OtherCall
  BY Zenon, AmountAssumption DEF Administer, UseToken, OtherCall
<1> QED BY <1>1, SubmissionAssumption DEF Next, AnyStep

\* The invariant holds in every reachable state of the contract.
THEOREM Invariance == Spec => []IInv
BY InitIInv, NextIInv, NextIsAnyStep, PTL DEF Spec

-----------------------------------------------------------------------------
(* What the contract promises. *)

\* For every list, word size and sequence of transactions, a published row is paid once if its
\* batch is marked as sent and never otherwise: execute() cannot pay a row twice.
THEOREM PaysEachRowOnce == Spec => []PaidExactlyOnce
<1>1. IInv => PaidExactlyOnce
  BY DEF IInv, Settled, PaidFor, PaidExactlyOnce, Executed
<1> QED BY <1>1, Invariance, PTL

\* executedBatches always equals the number of bits set, across word boundaries and reverts.
THEOREM CountsTheBitmap == Spec => []CounterMatchesBitmap
<1>1. IInv => CounterMatchesBitmap
  BY DEF IInv, Settled, CounterMatchesBitmap, Executed
<1> QED BY <1>1, Invariance, PTL

\* What is sent after an approval stays within it: spent and allowance add up to the approval.
THEOREM ApprovalIsACap == Spec => []ApprovalCapsSpending
<1>1. IInv => ApprovalCapsSpending
  BY DEF IInv, Settled, Capped, Spent, ApprovalCapsSpending
<1> QED BY <1>1, Invariance, PTL

\* Storage and token state keep their types; in particular no balance or allowance underflows.
THEOREM TypesHold == Spec => []TypeOK
<1>1. IInv => TypeOK
  BY DEF IInv
<1> QED BY <1>1, Invariance, PTL

\* While a batch is being sent, the reserve's tokens only go to the recipient and in the amount of
\* a published row of that batch, whatever the executor submitted.
THEOREM SendsOnlyPublishedRows == Spec => OnlyPublishedRowsAreSent
<1> DEFINE RowStep ==
      (~Idle /\ balance' # balance /\ ~Idle') =>
        /\ call.index \in Executed
        /\ \E k \in 1 .. Len(Published[call.index].recipients) :
             balance' = Moved(Reserve, Published[call.index].recipients[k],
                              Published[call.index].amounts[k])
<1>1. IInv /\ [Next]_vars => [RowStep]_vars
  <2> SUFFICES ASSUME IInv, [Next]_vars, ~Idle, balance' # balance, ~Idle'
               PROVE  /\ call.index \in Executed
                      /\ \E k \in 1 .. Len(Published[call.index].recipients) :
                           balance' = Moved(Reserve, Published[call.index].recipients[k],
                                            Published[call.index].amounts[k])
    BY Zenon
  <2>1. ExecuteRow
    BY Zenon DEF Next, vars, ledger, contract, ExecuteBegin, ExecuteStep, ExecuteRevert, ExecuteEnd, Idle,
           Administer, UseToken, SetExecutor, SetPaused, Rescue, Approve, Transfer
  <2>2. /\ Running /\ call.pos \in Nat \ {0} /\ call.batch = Published[call.index]
        /\ Len(call.batch.recipients) \in Nat
    BY Zenon, OpenCall DEF Running
  <2>3. call.pos \in 1 .. Len(Published[call.index].recipients)
    BY <2>1, <2>2 DEF ExecuteRow
  <2>4. balance' = Moved(Reserve, Published[call.index].recipients[call.pos],
                         Published[call.index].amounts[call.pos])
    BY Zenon, <2>1, <2>2 DEF ExecuteRow, To, Value
  <2> QED BY <2>2, <2>3, <2>4 DEF Running
<1> QED BY <1>1, Invariance, PTL DEF Spec, OnlyPublishedRowsAreSent

-----------------------------------------------------------------------------
(***************************************************************************)
(* The contract implements AtomicAirdrop.  The refinement needs to know    *)
(* what the rows before `pos' have moved so far.                           *)
(***************************************************************************)
\* What the rows of b before row n add up to, and what they bring account a.
SumBefore(b, n) == SumFunctionOnSet(b.amounts, 1 .. n - 1)

DueBefore(b, n, a) == SumFunctionOnSet(b.amounts, {k \in 1 .. n - 1 : b.recipients[k] = a})

\* The rows sent so far, and nothing else, account for the balances.
RowsMoved ==
  ~Idle =>
    /\ call.sum = SumBefore(call.batch, call.pos)
    /\ \A a \in Account :
         balance[a] = (call.saved.balance[a] + DueBefore(call.batch, call.pos, a))
                        - (IF a = Reserve THEN SumBefore(call.batch, call.pos) ELSE 0)

\* Before the first row nothing has moved.
LEMMA NoRows ==
  ASSUME NEW b, NEW a
  PROVE  SumBefore(b, 1) = 0 /\ DueBefore(b, 1, a) = 0
<1>1. 1 .. 1 - 1 = {} /\ {k \in 1 .. 1 - 1 : b.recipients[k] = a} = {}
  OBVIOUS
<1> QED
  BY Zenon, <1>1, SumEmpty DEF SumBefore, DueBefore

\* One more row.
LEMMA OneMoreRow ==
  ASSUME NEW b \in Batch, Len(b.amounts) = Len(b.recipients), NEW n \in 1 .. Len(b.recipients)
  PROVE  /\ SumBefore(b, n) \in Nat
         /\ SumBefore(b, n + 1) = SumBefore(b, n) + b.amounts[n]
         /\ \A a \in Account :
              /\ DueBefore(b, n, a) \in Nat
              /\ DueBefore(b, n + 1, a) = DueBefore(b, n, a) + (IF b.recipients[n] = a THEN b.amounts[n] ELSE 0)
<1> DEFINE K(m, a) == {k \in 1 .. m - 1 : b.recipients[k] = a}
<1>1. /\ Len(b.recipients) \in Nat /\ n \in Nat /\ n \in 1 .. n
      /\ \A k \in 1 .. n : b.amounts[k] \in Nat
  BY DEF Batch
<1>0. IsFiniteSet(1 .. n)
  BY <1>1, FS_Interval
<1>2. /\ 1 .. (n + 1) - 1 = 1 .. n /\ (1 .. n) \ {n} = 1 .. n - 1 /\ 1 .. n - 1 \subseteq 1 .. n
  BY <1>1
<1>3. \A T \in SUBSET (1 .. n) : IsFiniteSet(T) /\ SumFunctionOnSet(b.amounts, T) \in Nat
  BY Zenon, <1>0, <1>1, FS_Subset, SumIsNatural
<1>4. ASSUME NEW T \in SUBSET (1 .. n), n \in T
      PROVE  SumFunctionOnSet(b.amounts, T) = b.amounts[n] + SumFunctionOnSet(b.amounts, T \ {n})
  <2>1. IsFiniteSet(T)
    BY Zenon, <1>3
  <2>2. \A k \in T : b.amounts[k] \in Int
    BY <1>1
  <2> QED
    BY Zenon, <1>4, <2>1, <2>2, SumPick
<1>5. SumBefore(b, n) \in Nat /\ SumBefore(b, n + 1) = SumBefore(b, n) + b.amounts[n]
  <2>1. SumBefore(b, n) = SumFunctionOnSet(b.amounts, 1 .. n - 1) /\ SumBefore(b, n + 1) = SumFunctionOnSet(b.amounts, 1 .. n)
    BY Zenon, <1>2 DEF SumBefore
  <2>2. SumFunctionOnSet(b.amounts, 1 .. n) = b.amounts[n] + SumFunctionOnSet(b.amounts, 1 .. n - 1)
    BY Zenon, <1>1, <1>2, <1>4
  <2>3. SumFunctionOnSet(b.amounts, 1 .. n - 1) \in Nat /\ b.amounts[n] \in Nat
    BY Zenon, <1>1, <1>2, <1>3
  <2> QED
    BY <2>1, <2>2, <2>3
<1>6. ASSUME NEW a \in Account
      PROVE  /\ DueBefore(b, n, a) \in Nat
             /\ DueBefore(b, n + 1, a) = DueBefore(b, n, a) + (IF b.recipients[n] = a THEN b.amounts[n] ELSE 0)
  <2>0. /\ DueBefore(b, n, a) = SumFunctionOnSet(b.amounts, K(n, a))
        /\ DueBefore(b, n + 1, a) = SumFunctionOnSet(b.amounts, K(n + 1, a))
    BY Zenon DEF DueBefore
  <2>1. K(n, a) \in SUBSET (1 .. n) /\ K(n + 1, a) \in SUBSET (1 .. n)
    BY Zenon, <1>2
  <2>2. SumFunctionOnSet(b.amounts, K(n, a)) \in Nat
    BY Zenon, <1>3, <2>1
  <2>3. CASE b.recipients[n] = a
    <3>1. n \in K(n + 1, a) /\ K(n + 1, a) \ {n} = K(n, a)
      BY Zenon, <1>1, <1>2, <2>3
    <3>2. SumFunctionOnSet(b.amounts, K(n + 1, a)) = b.amounts[n] + SumFunctionOnSet(b.amounts, K(n, a))
      BY Zenon, <1>4, <2>1, <3>1
    <3> HIDE DEF K
    <3> QED
      BY <1>1, <2>0, <2>2, <2>3, <3>2
  <2>4. CASE b.recipients[n] # a
    <3>1. K(n + 1, a) = K(n, a)
      BY Zenon, <1>1, <1>2, <2>4
    <3> HIDE DEF K
    <3> QED
      BY <2>0, <2>2, <2>4, <3>1
  <2> QED
    BY Zenon, <2>3, <2>4
<1> QED
  BY Zenon, <1>5, <1>6

\* A transfer, account by account.
LEMMA MovedAt ==
  ASSUME balance \in [Account -> Nat], NEW from \in Account, NEW to \in Account, NEW x \in Nat, NEW a \in Account
  PROVE  Moved(from, to, x)[a] = (balance[a] + (IF a = to THEN x ELSE 0)) - (IF a = from THEN x ELSE 0)
<1> DEFINE b == [balance EXCEPT ![from] = @ - x]
<1>1. b \in [Account -> Int] /\ b[a] = balance[a] - (IF a = from THEN x ELSE 0) /\ balance[a] \in Nat
  OBVIOUS
<1>2. [b EXCEPT ![to] = @ + x][a] = b[a] + (IF a = to THEN x ELSE 0)
  BY <1>1
<1>3. Moved(from, to, x) = [b EXCEPT ![to] = @ + x]
  BY Zenon DEF Moved
<1> HIDE DEF b
<1> QED
  BY <1>1, <1>2, <1>3

\* Every step keeps the account of the rows.
LEMMA NextRowsMoved == IInv /\ RowsMoved /\ [AnyStep]_vars => RowsMoved'
<1> SUFFICES ASSUME IInv, RowsMoved, [AnyStep]_vars, ~Idle'
             PROVE  /\ call'.sum = SumBefore(call'.batch, call'.pos)
                    /\ \A a \in Account :
                         balance'[a] = (call'.saved.balance[a] + DueBefore(call'.batch, call'.pos, a))
                                         - (IF a = Reserve THEN SumBefore(call'.batch, call'.pos) ELSE 0)
  BY Zenon DEF RowsMoved
<1>1. CASE \E sender \in Account, s \in [index : Nat, batch : Batch] : ExecuteBegin(sender, s)
  <2>1. call'.pos = 1 /\ call'.sum = 0 /\ call'.saved.balance = balance /\ balance' = balance
    BY <1>1 DEF ExecuteBegin, ledger
  <2>2. \A a \in Account : balance[a] \in Nat
    BY Zenon DEF IInv, TypeOK
  <2> QED
    BY <2>1, <2>2, NoRows
<1>2. CASE ExecuteRow
  <2>1. /\ call \in Call /\ Running /\ call.pos \in Nat \ {0} /\ Published[call.index] \in Batch
        /\ Len(call.batch.recipients) \in Nat /\ balance \in [Account -> Nat]
    BY Zenon, <1>2, OpenCall DEF ExecuteRow, IInv, TypeOK
  <2>2. PICK b \in Batch : b = call.batch /\ Len(b.amounts) = Len(b.recipients)
    BY Zenon, <2>1 DEF Running
  <2>3. PICK n \in 1 .. Len(b.recipients) : n = call.pos
    BY <1>2, <2>1, <2>2 DEF ExecuteRow
  <2>4. To = b.recipients[n] /\ Value = b.amounts[n] /\ To \in Account /\ Value \in Nat
    BY <2>2, <2>3 DEF To, Value, Batch
  <2>5. /\ call'.pos = n + 1 /\ call'.sum = call.sum + Value /\ call'.batch = b /\ call'.saved = call.saved
    BY Zenon, <1>2, <2>1, <2>2, <2>3, <2>4, Advance
  <2>6. /\ SumBefore(b, n) \in Nat
        /\ SumBefore(b, n + 1) = SumBefore(b, n) + Value
        /\ \A a \in Account :
             /\ DueBefore(b, n, a) \in Nat
             /\ DueBefore(b, n + 1, a) = DueBefore(b, n, a) + (IF To = a THEN Value ELSE 0)
    BY Zenon, <2>2, <2>4, OneMoreRow
  <2>7. /\ call.sum = SumBefore(b, n)
        /\ \A a \in Account : balance[a] = (call.saved.balance[a] + DueBefore(b, n, a))
                                             - (IF a = Reserve THEN SumBefore(b, n) ELSE 0)
    BY Zenon, <1>2, <2>2, <2>3 DEF RowsMoved, ExecuteRow
  <2>8. ASSUME NEW a \in Account
        PROVE  balance'[a] = (call.saved.balance[a] + DueBefore(b, n + 1, a))
                               - (IF a = Reserve THEN SumBefore(b, n + 1) ELSE 0)
    <3>1. balance'[a] = (balance[a] + (IF a = To THEN Value ELSE 0)) - (IF a = Reserve THEN Value ELSE 0)
      <4>1. balance' = Moved(Reserve, To, Value) /\ Reserve \in Account
        BY Zenon, <1>2, AccountAssumption DEF ExecuteRow
      <4>2. PICK to \in Account, x \in Nat : to = To /\ x = Value
        BY Zenon, <2>4
      <4>3. balance \in [Account -> Nat] /\ Reserve \in Account
        BY Zenon, <2>1, <4>1
      <4>4. Moved(Reserve, to, x)[a] = (balance[a] + (IF a = to THEN x ELSE 0)) - (IF a = Reserve THEN x ELSE 0)
        BY <4>3, MovedAt
      <4> QED
        BY Zenon, <4>1, <4>2, <4>4
    <3>2. balance[a] \in Nat /\ call.saved.balance[a] \in Nat
      BY Zenon, <2>1 DEF Call, Saved
    <3>3. PICK x \in Nat : x = Value
      BY Zenon, <2>4
    <3>4. /\ SumBefore(b, n) \in Nat /\ SumBefore(b, n + 1) = SumBefore(b, n) + x /\ DueBefore(b, n, a) \in Nat
          /\ DueBefore(b, n + 1, a) = DueBefore(b, n, a) + (IF To = a THEN x ELSE 0)
          /\ balance[a] = (call.saved.balance[a] + DueBefore(b, n, a)) - (IF a = Reserve THEN SumBefore(b, n) ELSE 0)
          /\ balance'[a] = (balance[a] + (IF a = To THEN x ELSE 0)) - (IF a = Reserve THEN x ELSE 0)
      BY Zenon, <2>6, <2>7, <3>1, <3>3
    <3>5. CASE a = To
      BY SMTT(30), <3>2, <3>4, <3>5
    <3>6. CASE a # To
      BY SMTT(30), <3>2, <3>4, <3>6
    <3> QED
      BY Zenon, <3>5, <3>6
  <2> QED
    BY Zenon, <2>5, <2>6, <2>7, <2>8
<1>3. CASE ExecuteRevert \/ ExecuteEnd
  BY Zenon, <1>3 DEF ExecuteRevert, ExecuteEnd, Idle
<1>4. CASE OtherCall
  BY Zenon, <1>4 DEF OtherCall, SetExecutor, SetPaused, Rescue, Approve, Transfer, Idle
<1>5. CASE UNCHANGED vars
  BY Zenon, <1>5 DEF vars, ledger, RowsMoved, Idle
<1> QED
  BY Zenon, <1>1, <1>2, <1>3, <1>4, <1>5 DEF AnyStep, ExecuteStep

\* AtomicAirdrop sums as the contract's module does.
LEMMA AtomicSum ==
  ASSUME NEW f, NEW S
  PROVE  Atomic!SumFunctionOnSet(f, S) = SumFunctionOnSet(f, S)
<1>1. Atomic!SumFunctionOnSet(f, S) = Val(f, S)
  BY Zenon DEF Atomic!SumFunctionOnSet, Atomic!FoldFunctionOnSet, Atomic!MapThenFoldSet, Val, IsSum, Chosen
<1> QED
  BY Zenon, <1>1, SumIsVal

\* What the whole batch brings, in AtomicAirdrop's words.
LEMMA WholeBatch ==
  ASSUME NEW i \in Index, NEW b \in Batch, b = Published[i], Len(b.amounts) = Len(b.recipients)
  PROVE  /\ SumBefore(b, Len(b.recipients) + 1) = Atomic!Total(i)
         /\ Atomic!Total(i) \in Nat
         /\ \A a \in Account : /\ DueBefore(b, Len(b.recipients) + 1, a) = Atomic!Due(i, a)
                              /\ Atomic!Due(i, a) \in Nat
<1>1. /\ Len(b.recipients) \in Nat /\ DOMAIN b.amounts = 1 .. Len(b.recipients)
      /\ (Len(b.recipients) + 1) - 1 = Len(b.recipients)
  BY DEF Batch
<1>2. SumBefore(b, Len(b.recipients) + 1) = SumFunction(b.amounts)
  BY Zenon, <1>1 DEF SumBefore, SumFunction
<1>3. ASSUME NEW a \in Account
      PROVE  DueBefore(b, Len(b.recipients) + 1, a)
               = SumFunctionOnSet(b.amounts, {k \in DOMAIN b.amounts : b.recipients[k] = a})
  BY Zenon, <1>1 DEF DueBefore
<1>4. Atomic!Total(i) = SumFunctionOnSet(b.amounts, DOMAIN b.amounts)
  BY Zenon, AtomicSum DEF Atomic!Total, Atomic!SumFunction
<1>5. \A a \in Account : Atomic!Due(i, a) = SumFunctionOnSet(b.amounts, {k \in DOMAIN b.amounts : b.recipients[k] = a})
  BY Zenon, AtomicSum DEF Atomic!Due
<1>6. \A S \in SUBSET DOMAIN b.amounts : SumFunctionOnSet(b.amounts, S) \in Nat
  <2>1. IsFiniteSet(DOMAIN b.amounts)
    BY <1>1, FS_Interval
  <2>2. \A k \in DOMAIN b.amounts : b.amounts[k] \in Nat
    BY DEF Batch
  <2> QED
    BY Zenon, <2>1, <2>2, FS_Subset, SumIsNatural
<1>7. \A a \in Account : {k \in DOMAIN b.amounts : b.recipients[k] = a} \in SUBSET DOMAIN b.amounts
  BY Zenon
<1> QED
  BY Zenon, <1>2, <1>3, <1>4, <1>5, <1>6, <1>7 DEF SumFunction

\* Steps that the abstract airdrop does not see.
LEMMA Stutters ==
  ASSUME UNCHANGED <<executedBatches, distributedAmount>>, Committed' = Committed
  PROVE  UNCHANGED Atomic!vars
BY Zenon DEF Atomic!vars, SentIn

\* The end of execute() sends the batch.
LEMMA EndSends ==
  ASSUME IInv, RowsMoved, ExecuteEnd, IInv'
  PROVE  \E i \in Index : Atomic!Send(i)
<1>1. /\ call \in Call /\ Running /\ call.pos \in Nat \ {0} /\ Published[call.index] \in Batch
      /\ Len(call.batch.recipients) \in Nat /\ ~Idle /\ balance \in [Account -> Nat]
  BY Zenon, OpenCall DEF ExecuteEnd, IInv, TypeOK
<1>2. PICK i \in Index : i = call.index
  BY Zenon, <1>1 DEF Running
<1>3. PICK b \in Batch : b = call.batch /\ b = Published[i] /\ Len(b.amounts) = Len(b.recipients)
  BY Zenon, <1>1, <1>2 DEF Running
<1>4. call.pos = Len(b.recipients) + 1
  BY <1>1, <1>3 DEF Running, ExecuteEnd
<1>5. PICK saved \in Saved : saved = call.saved
  BY Zenon, <1>1 DEF Call
<1>6. Committed = [bitmap |-> saved.bitmap, balance |-> saved.balance]
  BY Zenon, <1>1, <1>5 DEF Committed
<1>7. Committed' = [bitmap |-> executedBitmap, balance |-> balance] /\ Idle'
  BY Zenon DEF ExecuteEnd, Committed, Idle, ledger
<1>8. i \notin SentIn(saved.bitmap) /\ SentIn(executedBitmap) = SentIn(saved.bitmap) \cup {i}
  BY Zenon, <1>1, <1>2, <1>5 DEF Running, Executed
<1>9. call.sum = Atomic!Total(i)
  BY Zenon, <1>1, <1>3, <1>4, WholeBatch DEF RowsMoved
<1>10. balance = [a \in Account |-> saved.balance[a] + Atomic!Due(i, a) - IF a = Reserve THEN Atomic!Total(i) ELSE 0]
  <2>1. ASSUME NEW a \in Account
        PROVE  balance[a] = saved.balance[a] + Atomic!Due(i, a) - IF a = Reserve THEN Atomic!Total(i) ELSE 0
    <3>1. /\ balance[a] = (saved.balance[a] + Atomic!Due(i, a)) - (IF a = Reserve THEN Atomic!Total(i) ELSE 0)
          /\ Atomic!Due(i, a) \in Nat /\ Atomic!Total(i) \in Nat
      BY Zenon, <1>1, <1>3, <1>4, <1>5, <2>1, WholeBatch DEF RowsMoved
    <3>2. saved.balance[a] \in Nat
      BY Zenon, <2>1 DEF Saved
    <3> QED
      BY <3>1, <3>2
  <2> QED
    BY Zenon, <1>1, <2>1
<1>11. executedBatches' = executedBatches + 1 /\ distributedAmount' = distributedAmount + call.sum
  BY Zenon DEF ExecuteEnd
<1>12. balance[Reserve] >= 0
  BY <1>1, AccountAssumption
<1>13. /\ Committed.bitmap = saved.bitmap /\ Committed.balance = saved.balance
       /\ Committed'.bitmap = executedBitmap /\ Committed'.balance = balance
  BY Zenon, <1>6, <1>7
<1>14. Atomic!Send(i)
  <2>1. i \notin SentIn(Committed.bitmap)
    BY Zenon, <1>8, <1>13
  <2>2. SentIn(Committed.bitmap)' = SentIn(Committed.bitmap) \cup {i}
    BY Zenon, <1>8, <1>13 DEF SentIn
  <2>3. (Committed.balance)' = [a \in Account |-> Committed.balance[a] + Atomic!Due(i, a)
                                                    - IF a = Reserve THEN Atomic!Total(i) ELSE 0]
    BY Zenon, <1>10, <1>13
  <2>4. (Committed.balance)'[Reserve] >= 0
    BY Zenon, <1>12, <1>13
  <2> QED
    BY Zenon, <1>9, <1>11, <2>1, <2>2, <2>3, <2>4 DEF Atomic!Send
<1> QED
  BY Zenon, <1>14

\* A rescue or a transfer moves what its owner has.
LEMMA TransferMoves ==
  ASSUME IInv, Idle, Idle', NEW from \in Account, NEW to \in Account, NEW x \in Nat,
         balance[from] >= x, balance' = Moved(from, to, x),
         UNCHANGED <<executedBitmap, executedBatches, distributedAmount>>
  PROVE  \E f, t \in Account : \E amount \in 0 .. Committed.balance[f] : Atomic!Move(f, t, amount)
<1>1. /\ Committed.bitmap = executedBitmap /\ Committed.balance = balance
      /\ Committed'.bitmap = executedBitmap /\ Committed'.balance = balance'
  BY Zenon DEF Committed
<1>2. x \in 0 .. Committed.balance[from]
  BY <1>1 DEF IInv, TypeOK
<1>3. SentIn(Committed.bitmap)' = SentIn(Committed.bitmap)
  BY Zenon, <1>1 DEF SentIn
<1>4. Atomic!Move(from, to, x)
  BY Zenon, <1>1, <1>3 DEF Atomic!Move, Moved
<1> QED
  BY Zenon, <1>2, <1>4

\* Every step of the contract is a step of the atomic airdrop, or none.
LEMMA NextAtomic ==
  ASSUME IInv, RowsMoved, [AnyStep]_vars, IInv'
  PROVE  [Atomic!Next]_(Atomic!vars)
<1>0. DOMAIN Published = Index
  BY Zenon, PublishedAssumption
<1>1. CASE \E sender \in Account, s \in [index : Nat, batch : Batch] : ExecuteBegin(sender, s)
  <2>1. PICK sender \in Account, s \in [index : Nat, batch : Batch] : ExecuteBegin(sender, s)
    BY Zenon, <1>1
  <2>2. Idle /\ UNCHANGED <<executedBatches, distributedAmount>>
    BY Zenon, <2>1 DEF ExecuteBegin
  <2>3. call'.saved.bitmap = executedBitmap /\ call'.saved.balance = balance
    BY Zenon, <2>1 DEF ExecuteBegin
  <2>4. ~Idle'
    <3>1. call' = [index |-> s.index, batch |-> s.batch, pos |-> 1, sum |-> 0,
                   saved |-> [bitmap |-> executedBitmap, balance |-> balance,
                              allowance |-> allowance, paid |-> paid]]
      BY Zenon, <2>1 DEF ExecuteBegin
    <3>2. s.index \in Index /\ s.batch \in Batch
      BY Zenon, <2>1 DEF ExecuteBegin, Accepts, VerifyBatch
    <3>3. [bitmap |-> executedBitmap, balance |-> balance, allowance |-> allowance, paid |-> paid] \in Saved
      BY Zenon DEF Saved, IInv, TypeOK
    <3>4. call' \in Call
      BY <3>1, <3>2, <3>3 DEF Call
    <3> QED
      BY Zenon, <3>4, NoCallAssumption DEF Idle
  <2>5. Committed' = Committed
    BY Zenon, <2>2, <2>3, <2>4 DEF Committed
  <2> QED
    BY Zenon, <2>2, <2>5, Stutters
<1>2. CASE ExecuteRow
  <2>1. call \in Call /\ ~Idle
    BY Zenon, <1>2, OpenCall DEF ExecuteRow
  <2>2. call'.saved = call.saved
    BY Zenon, <1>2, <2>1 DEF ExecuteRow, Call
  <2>3. ~Idle'
    <3>1. Value \in Nat
      <4>1. Running /\ call.pos \in Nat \ {0} /\ Published[call.index] \in Batch
        BY Zenon, <2>1, OpenCall
      <4> QED
        BY SMTT(30), <1>2, <4>1 DEF Running, Batch, Value, ExecuteRow
    <3> QED
      BY Zenon, <1>2, <2>1, <3>1, Advance, NoCallAssumption DEF Idle
  <2>4. Committed' = Committed
    BY Zenon, <2>1, <2>2, <2>3 DEF Committed
  <2>5. UNCHANGED <<executedBatches, distributedAmount>>
    BY Zenon, <1>2 DEF ExecuteRow, contract
  <2> QED
    BY Zenon, <2>4, <2>5, Stutters
<1>3. CASE ExecuteRevert
  <2>1. Committed' = Committed
    BY Zenon, <1>3 DEF ExecuteRevert, Committed, Idle
  <2>2. UNCHANGED <<executedBatches, distributedAmount>>
    BY Zenon, <1>3 DEF ExecuteRevert
  <2> QED
    BY Zenon, <2>1, <2>2, Stutters
<1>4. CASE ExecuteEnd
  BY Zenon, <1>0, <1>4, EndSends DEF Atomic!Next
<1>5. CASE OtherCall
  <2>1. Idle /\ Idle' /\ UNCHANGED <<executedBitmap, executedBatches, distributedAmount>>
    BY Zenon, <1>5 DEF OtherCall, SetExecutor, SetPaused, Rescue, Approve, Transfer, Idle, contract
  <2>2. CASE UNCHANGED balance
    <3>1. Committed' = Committed
      BY Zenon, <2>1, <2>2 DEF Committed
    <3> QED
      BY Zenon, <2>1, <3>1, Stutters
  <2>3. ASSUME NEW from \in Account, NEW to \in Account, NEW x \in 0 .. MaxUint,
               balance[from] >= x, balance' = Moved(from, to, x)
        PROVE  Atomic!Next
    BY SMTT(30), <2>1, <2>3, AmountAssumption, TransferMoves DEF Atomic!Next
  <2> QED
    BY Zenon, <1>5, <2>2, <2>3, AccountAssumption
       DEF OtherCall, SetExecutor, SetPaused, Rescue, Approve, Transfer, CanMove, ledger
<1>6. CASE UNCHANGED vars
  <2>1. Committed' = Committed
    BY Zenon, <1>6 DEF vars, contract, ledger, Committed, Idle
  <2> QED
    BY Zenon, <1>6, <2>1, Stutters DEF vars, contract
<1> QED
  BY Zenon, <1>1, <1>2, <1>3, <1>4, <1>5, <1>6 DEF AnyStep, ExecuteStep

\* A newly deployed contract is a new airdrop.
LEMMA InitAtomic == Init => RowsMoved /\ Atomic!Init
<1> SUFFICES ASSUME Init
             PROVE  RowsMoved /\ Atomic!Init
  BY Zenon
<1>1. Committed = [bitmap |-> executedBitmap, balance |-> balance]
  BY Zenon DEF Init, Committed, Idle
<1>2. SentIn(Committed.bitmap) = {}
  BY Zenon, <1>1, BitRange DEF Init, SentIn
<1>3. RowsMoved
  BY Zenon DEF Init, RowsMoved, Idle
<1> QED
  BY Zenon, <1>1, <1>2, <1>3 DEF Init, Atomic!Init

\* The contract implements the atomic airdrop: execute() sends a published batch as a whole, once,
\* or leaves no trace, for every list and whatever fails in between (ExecuteIsAtomic).
THEOREM ImplementsAtomicAirdrop == Spec => ExecuteIsAtomic
<1>1. IInv /\ RowsMoved /\ [AnyStep]_vars => RowsMoved'
  BY Zenon, NextRowsMoved
<1>2. IInv /\ IInv' /\ RowsMoved /\ [AnyStep]_vars => [Atomic!Next]_(Atomic!vars)
  BY Zenon, NextAtomic
<1> QED
  BY <1>1, <1>2, InitAtomic, NextIsAnyStep, Invariance, PTL DEF Spec, Atomic!Spec, ExecuteIsAtomic
-----------------------------------------------------------------------------
(* What status.py and reconcile.py conclude. *)

\* A bit's position splits into its word and its place in it.
LEMMA Position ==
  ASSUME NEW w \in Nat, NEW b \in 0 .. WordBits - 1
  PROVE  (w * WordBits + b) \div WordBits = w /\ (w * WordBits + b) % WordBits = b
BY WordBitsAssumption

\* ... and is put together from them.
LEMMA Recomposed ==
  ASSUME NEW i \in Nat
  PROVE  /\ i \div WordBits \in Nat /\ i % WordBits \in 0 .. WordBits - 1
         /\ i = (i \div WordBits) * WordBits + (i % WordBits)
BY WordBitsAssumption

\* The words that status.py reads are the words in which the contract has bits.
LEMMA WordsRead == 0 .. ((BatchCount + WordBits - 1) \div WordBits) - 1 = Words
<1> DEFINE n == BatchCount + WordBits - 1
           last == n \div WordBits
<1>1. n \in Nat /\ WordBits \in Nat \ {0} /\ BatchCount \in Nat \ {0} /\ n = BatchCount + WordBits - 1
  BY WordBitsAssumption, BatchCountAssumption
<1>2. last \in Nat /\ n % WordBits \in 0 .. WordBits - 1 /\ n = last * WordBits + (n % WordBits)
  BY Zenon, <1>1, Recomposed
<1>3. ASSUME NEW w \in 0 .. last - 1
      PROVE  w \in Words
  <2>0. w \in Nat /\ w + 1 <= last /\ 0 \in 0 .. WordBits - 1
    BY <1>1, <1>2
  <2>1. (w + 1) * WordBits <= last * WordBits /\ (w + 1) * WordBits = w * WordBits + WordBits /\ w * WordBits \in Nat
    BY <1>1, <1>2, <2>0
  <2>2. w * WordBits \in Index
    BY <1>1, <1>2, <2>1 DEF Index
  <2>3. Word(w * WordBits + 0) = w /\ w * WordBits + 0 = w * WordBits
    BY <2>0, <2>1, Position DEF Word
  <2> QED
    BY Zenon, <2>2, <2>3 DEF Words
<1>4. ASSUME NEW i \in Index
      PROVE  Word(i) \in 0 .. last - 1
  <2>1. i \in Nat /\ i <= BatchCount - 1
    BY <1>1 DEF Index
  <2>2. Word(i) \in Nat /\ i % WordBits \in 0 .. WordBits - 1 /\ i = Word(i) * WordBits + (i % WordBits)
    BY Zenon, <2>1, Recomposed DEF Word
  <2>3. CASE last <= Word(i)
    <3>1. last * WordBits <= Word(i) * WordBits
      BY <1>1, <1>2, <2>2, <2>3
    <3>2. Word(i) * WordBits \in Nat /\ last * WordBits \in Nat
      BY <1>1, <1>2, <2>2
    <3> HIDE DEF n, last
    <3> QED
      BY <1>1, <1>2, <2>1, <2>2, <3>1, <3>2
  <2> QED
    BY <1>2, <2>2, <2>3
<1> QED
  BY Zenon, <1>3, <1>4 DEF Words

\* What status.py unpacks is what the contract recorded, also in a word that is not full.
LEMMA StatusIsExecuted ==
  ASSUME executedBitmap \in Bitmaps
  PROVE  StatusExecuted = Executed
<1>1. ASSUME NEW i \in Index, NEW w \in Words, NEW b \in executedBitmap[w], i = w * WordBits + b
      PROVE  i \in Executed
  <2>1. b \in 0 .. WordBits - 1
    BY Zenon DEF Bitmaps
  <2>2. w \in Nat
    <3>1. PICK j \in Index : w = Word(j)
      BY Zenon DEF Words
    <3>2. j \in Nat
      BY BatchCountAssumption DEF Index
    <3> QED
      BY Zenon, <3>1, <3>2, Recomposed DEF Word
  <2>3. Word(i) = w /\ Bit(i) = b
    BY Zenon, <1>1, <2>1, <2>2, Position DEF Word, Bit
  <2> QED
    BY Zenon, <2>3 DEF Executed, SentIn
<1>2. ASSUME NEW i \in Executed
      PROVE  i \in Index /\ \E w \in Words : \E b \in executedBitmap[w] : i = w * WordBits + b
  <2>1. i \in Index /\ Bit(i) \in executedBitmap[Word(i)]
    BY Zenon DEF Executed, SentIn
  <2>2. Word(i) \in Words /\ i \in Nat
    BY <2>1, BitRange DEF Index
  <2>3. i = Word(i) * WordBits + Bit(i)
    BY Zenon, <2>2, Recomposed DEF Word, Bit
  <2> QED
    BY Zenon, <2>1, <2>2, <2>3
<1> QED
  BY Zenon, <1>1, <1>2, WordsRead DEF StatusExecuted

\* status.py lists exactly the batches whose rows were all paid, and a reconciliation that passes
\* means that every row was paid once and nothing is left to spend, for every list.
THEOREM ReportsCanBeTrusted == Spec => []ReportsAreSound
<1>1. IInv => ReportsAreSound
  <2> SUFFICES ASSUME IInv, Idle
               PROVE  /\ StatusExecuted = {i \in Index : \A r \in Row : r[1] = i => paid[r] = 1}
                      /\ ReconcileOK => (\A r \in Row : paid[r] = 1) /\ allowance = 0
    BY Zenon DEF ReportsAreSound
  <2>1. StatusExecuted = Executed
    BY Zenon, StatusIsExecuted DEF IInv, TypeOK, Bitmaps
  <2>2. \A r \in Row : paid[r] = IF r[1] \in Executed THEN 1 ELSE 0
    BY Zenon DEF IInv, Settled, PaidFor, Executed
  <2>3. ASSUME NEW i \in Index
        PROVE  <<i, 1>> \in Row
    <3>1. Published[i].recipients \in Seq(Account) /\ Published[i].recipients # <<>>
      BY Zenon, PublishedAssumption, ListAssumption DEF Batch
    <3>2. 1 \in 1 .. Len(Published[i].recipients)
      BY <3>1
    <3> QED
      BY <3>2 DEF Row
  <2>4. Executed = {i \in Index : \A r \in Row : r[1] = i => paid[r] = 1}
    <3>1. Executed \subseteq Index
      BY Zenon DEF Executed, SentIn
    <3>2. ASSUME NEW i \in Index, \A r \in Row : r[1] = i => paid[r] = 1
          PROVE  i \in Executed
      <4>1. PICK r \in Row : r[1] = i
        BY Zenon, <2>3
      <4> QED
        BY <2>2, <3>2, <4>1
    <3> QED
      BY Zenon, <2>2, <3>1, <3>2
  <2>5. ASSUME ReconcileOK
        PROVE  (\A r \in Row : paid[r] = 1) /\ allowance = 0
    <3>1. Cardinality(Executed) = BatchCount
      BY Zenon, <2>5 DEF ReconcileOK, IInv, Settled, Executed
    <3>2. IsFiniteSet(Index) /\ Cardinality(Index) = BatchCount
      BY BatchCountAssumption, FS_Interval DEF Index
    <3>3. Executed = Index
      BY Zenon, <3>1, <3>2, FS_Subset DEF Executed, SentIn
    <3>4. \A r \in Row : r[1] \in Index
      BY DEF Row
    <3>5. allowance = TotalAmount - distributedAmount /\ distributedAmount = TotalAmount /\ distributedAmount \in Nat
      BY Zenon, <2>5 DEF ReconcileOK, IInv, TypeOK
    <3> QED
      BY <2>2, <3>3, <3>4, <3>5
  <2> QED
    BY Zenon, <2>1, <2>4, <2>5
<1> QED
  BY <1>1, Invariance, PTL

-----------------------------------------------------------------------------
(***************************************************************************)
(* The airdrop as the script runs it (AirdropRun).  The contract's         *)
(* invariants hold there too, and what an account has received is what the *)
(* rows paid to it add up to.                                              *)
(***************************************************************************)
RowAmount == [r \in Row |-> Published[r[1]].amounts[r[2]]]

\* The rows of account a that were paid according to p.
PaidRows(p, a) == {r \in RowsOf(a) : p[r] = 1}

\* Balances b are what the rows paid according to p leave to every recipient.
Received(b, p) ==
  \A a \in Account \ {Reserve, Elsewhere} :
    b[a] = InitBalance[a] + SumFunctionOnSet(RowAmount, PaidRows(p, a))

ReceivedInv ==
  /\ Received(balance, paid)
  /\ ~Idle => Received(call.saved.balance, call.saved.paid)

\* The list is finite.
LEMMA RowsFinite == IsFiniteSet(Row) /\ \A r \in Row : RowAmount[r] \in Nat
<1> DEFINE R(T) == {r \in Row : r[1] \in T}
           Good == {T \in SUBSET Index : IsFiniteSet(R(T))}
<1>1. IsFiniteSet(Index)
  BY BatchCountAssumption, FS_Interval DEF Index
<1>2. R({}) = {} /\ R(Index) = Row
  BY DEF Row
<1>3. {} \in Good
  BY Zenon, <1>2, FS_EmptySet
<1>4. ASSUME NEW T \in SUBSET Index, NEW i \in T, T \ {i} \in Good
      PROVE  T \in Good
  <2> DEFINE K == 1 .. Len(Published[i].recipients)
  <2>1. Len(Published[i].recipients) \in Nat
    BY PublishedAssumption DEF Batch
  <2>2. IsFiniteSet(K)
    BY <2>1, FS_Interval
  <2>3. IsFiniteSet({i})
    BY Zenon, FS_Singleton
  <2>4. IsFiniteSet({i} \X K)
    BY Zenon, <2>2, <2>3, FS_Product
  <2>5. R(T) = R(T \ {i}) \cup ({i} \X K)
    BY DEF Row
  <2>6. IsFiniteSet(R(T \ {i}))
    BY Zenon, <1>4
  <2> HIDE DEF K, R
  <2>7. IsFiniteSet(R(T \ {i}) \cup ({i} \X K))
    BY Zenon, <2>4, <2>6, FS_Union
  <2> QED
    BY Zenon, <2>5, <2>7
<1>5. Index \in Good
  <2> HIDE DEF Good
  <2> QED
    BY Zenon, <1>1, <1>3, <1>4, SubsetInduction
<1>6. ASSUME NEW r \in Row
      PROVE  RowAmount[r] \in Nat
  <2>1. PICK i \in Index : r[1] = i /\ r[2] \in 1 .. Len(Published[i].recipients)
    BY DEF Row
  <2>2. Published[i] \in Batch /\ Len(Published[i].amounts) = Len(Published[i].recipients)
    BY Zenon, PublishedAssumption, ListAssumption
  <2> QED
    BY <2>1, <2>2 DEF RowAmount, Batch
<1> QED
  BY Zenon, <1>2, <1>5, <1>6

\* What a set of rows adds up to is a number.
LEMMA RowSums ==
  ASSUME NEW S \in SUBSET Row
  PROVE  IsFiniteSet(S) /\ SumFunctionOnSet(RowAmount, S) \in Nat
<1>1. IsFiniteSet(S)
  BY Zenon, RowsFinite, FS_Subset
<1>2. \A r \in S : RowAmount[r] \in Nat
  BY Zenon, RowsFinite
<1> QED
  BY Zenon, <1>1, <1>2, SumIsNatural

\* Paying one more row adds its amount to what its recipient has received, and nothing to others.
LEMMA PayRow ==
  ASSUME NEW p, NEW q, NEW r \in Row, p[r] = 0, q[r] = 1, \A s \in Row \ {r} : q[s] = p[s], NEW a
  PROVE  SumFunctionOnSet(RowAmount, PaidRows(q, a))
           = SumFunctionOnSet(RowAmount, PaidRows(p, a))
               + (IF Published[r[1]].recipients[r[2]] = a THEN RowAmount[r] ELSE 0)
<1>1. PaidRows(q, a) \in SUBSET Row /\ PaidRows(p, a) \in SUBSET Row
  BY Zenon DEF PaidRows, RowsOf
<1>2. PICK before \in SUBSET Row, after \in SUBSET Row : before = PaidRows(p, a) /\ after = PaidRows(q, a)
  BY Zenon, <1>1
<1>3. CASE Published[r[1]].recipients[r[2]] = a
  <2>1. r \in after /\ after \ {r} = before
    BY <1>2, <1>3 DEF PaidRows, RowsOf
  <2>2. IsFiniteSet(after)
    BY Zenon, RowSums
  <2>3. \A s \in after : RowAmount[s] \in Int
    BY RowsFinite
  <2>4. SumFunctionOnSet(RowAmount, after) = RowAmount[r] + SumFunctionOnSet(RowAmount, after \ {r})
    BY Zenon, <2>1, <2>2, <2>3, SumPick
  <2>5. RowAmount[r] \in Nat /\ SumFunctionOnSet(RowAmount, before) \in Nat
    BY Zenon, RowsFinite, RowSums
  <2>6. SumFunctionOnSet(RowAmount, after) = SumFunctionOnSet(RowAmount, before) + RowAmount[r]
    <3>1. SumFunctionOnSet(RowAmount, after) = RowAmount[r] + SumFunctionOnSet(RowAmount, before)
      BY Zenon, <2>1, <2>4
    <3> QED
      BY <2>5, <3>1
  <2> QED
    BY Zenon, <1>2, <1>3, <2>6
<1>4. CASE Published[r[1]].recipients[r[2]] # a
  <2>1. after = before
    BY Zenon, <1>2, <1>4 DEF PaidRows, RowsOf
  <2>2. SumFunctionOnSet(RowAmount, before) \in Nat
    BY Zenon, RowSums
  <2>3. SumFunctionOnSet(RowAmount, after) = SumFunctionOnSet(RowAmount, before) + 0
    BY <2>1, <2>2
  <2> QED
    BY Zenon, <1>2, <1>4, <2>3
<1> QED
  BY Zenon, <1>3, <1>4

\* Nothing is paid before the first batch.
LEMMA InitReceived == Init => ReceivedInv
<1> SUFFICES ASSUME Init
             PROVE  ReceivedInv
  BY Zenon
<1>1. ASSUME NEW a \in Account \ {Reserve, Elsewhere}
      PROVE  balance[a] = InitBalance[a] + SumFunctionOnSet(RowAmount, PaidRows(paid, a))
  <2>1. PaidRows(paid, a) = {}
    BY DEF Init, PaidRows, RowsOf
  <2>2. SumFunctionOnSet(RowAmount, PaidRows(paid, a)) = 0
    BY Zenon, <2>1, SumEmpty
  <2>3. balance[a] = InitBalance[a] /\ InitBalance[a] \in Nat
    BY Zenon, BalanceAssumption DEF Init
  <2> QED
    BY <2>2, <2>3
<1> QED
  BY Zenon, <1>1 DEF ReceivedInv, Received, Init, Idle

\* A row brings its recipient what the list says.
LEMMA RowReceived ==
  ASSUME IInv, ReceivedInv, ExecuteRow
  PROVE  Received(balance', paid')
<1>1. /\ call \in Call /\ Running /\ call.pos \in Nat \ {0} /\ Published[call.index] \in Batch
      /\ Len(call.batch.recipients) \in Nat /\ balance \in [Account -> Nat] /\ paid \in [Row -> Nat]
  BY Zenon, OpenCall DEF ExecuteRow, IInv, TypeOK
<1>2. PICK i \in Index : i = call.index /\ call.batch = Published[i]
  BY Zenon, <1>1 DEF Running
<1>3. PICK n \in 1 .. Len(Published[i].recipients) : n = call.pos
  BY <1>1, <1>2 DEF ExecuteRow
<1>4. PICK r \in Row : r = <<i, n>>
  <2>1. <<i, n>> \in {i} \X (1 .. Len(Published[i].recipients))
    BY Zenon, <1>3
  <2>2. <<i, n>> \in Row
    BY Zenon, <2>1 DEF Row
  <2> QED
    BY Zenon, <2>2
<1>5. r[1] = i /\ r[2] = n
  BY Zenon, <1>4
<1>6. paid[r] = 0
  <2>1. paid[r] = IF r[1] = call.index THEN IF r[2] < call.pos THEN 1 ELSE 0
                  ELSE IF r[1] \in Executed THEN 1 ELSE 0
    BY Zenon, <1>1 DEF Running
  <2> QED
    BY <1>2, <1>3, <1>5, <2>1
<1>7. PICK to \in Account, x \in Nat : to = To /\ x = Value /\ x = RowAmount[r] /\ to = Published[r[1]].recipients[r[2]]
  <2>1. To = Published[i].recipients[n] /\ Value = Published[i].amounts[n]
    BY Zenon, <1>2, <1>3 DEF To, Value
  <2>2. Published[i].recipients[n] \in Account
    BY <1>1, <1>2, <1>3 DEF Batch
  <2>3. RowAmount[r] \in Nat /\ RowAmount[r] = Published[i].amounts[n]
    BY Zenon, <1>5, RowsFinite DEF RowAmount
  <2> QED
    BY Zenon, <1>5, <2>1, <2>2, <2>3
<1>8. balance' = Moved(Reserve, to, x) /\ paid' = [paid EXCEPT ![r] = @ + 1]
  BY Zenon, <1>2, <1>3, <1>4, <1>7 DEF ExecuteRow
<1>9. ASSUME NEW a \in Account \ {Reserve, Elsewhere}
      PROVE  balance'[a] = InitBalance[a] + SumFunctionOnSet(RowAmount, PaidRows(paid', a))
  <2>1. balance'[a] = balance[a] + (IF a = to THEN x ELSE 0)
    <3>1. Moved(Reserve, to, x)[a] = (balance[a] + (IF a = to THEN x ELSE 0)) - (IF a = Reserve THEN x ELSE 0)
      BY <1>1, AccountAssumption, MovedAt
    <3>2. balance[a] \in Nat /\ a # Reserve
      BY Zenon, <1>1
    <3> QED
      BY <1>8, <3>1, <3>2
  <2>2. SumFunctionOnSet(RowAmount, PaidRows(paid', a))
          = SumFunctionOnSet(RowAmount, PaidRows(paid, a)) + (IF a = to THEN x ELSE 0)
    <3>1. PICK p, q : p = paid /\ q = paid'
      BY Zenon
    <3>2. p[r] = 0 /\ q[r] = 1 /\ \A s \in Row \ {r} : q[s] = p[s]
      BY <1>1, <1>6, <1>8, <3>1
    <3>3. SumFunctionOnSet(RowAmount, PaidRows(q, a))
            = SumFunctionOnSet(RowAmount, PaidRows(p, a))
                + (IF Published[r[1]].recipients[r[2]] = a THEN RowAmount[r] ELSE 0)
      BY SMTT(30), <3>2, PayRow
    <3>4. (IF Published[r[1]].recipients[r[2]] = a THEN RowAmount[r] ELSE 0) = (IF a = to THEN x ELSE 0)
      BY Zenon, <1>7
    <3> QED
      BY Zenon, <3>1, <3>3, <3>4
  <2>3. balance[a] = InitBalance[a] + SumFunctionOnSet(RowAmount, PaidRows(paid, a))
    BY Zenon DEF ReceivedInv, Received
  <2>4. SumFunctionOnSet(RowAmount, PaidRows(paid, a)) \in Nat /\ InitBalance[a] \in Nat
    BY Zenon, RowSums, BalanceAssumption DEF PaidRows, RowsOf
  <2>5. CASE a = to
    BY <2>1, <2>2, <2>3, <2>4, <2>5
  <2>6. CASE a # to
    BY <2>1, <2>2, <2>3, <2>4, <2>6
  <2> QED
    BY Zenon, <2>5, <2>6
<1> QED
  BY Zenon, <1>9 DEF Received

\* What the reserve spends elsewhere reaches no recipient.
LEMMA ElsewhereReceived ==
  ASSUME IInv, Received(balance, paid), NEW x \in Nat, Transfer(Reserve, Elsewhere, x)
  PROVE  Received(balance', paid')
<1>1. balance \in [Account -> Nat] /\ {Reserve, Elsewhere} \subseteq Account
  BY Zenon, AccountAssumption, RunAssumption DEF IInv, TypeOK
<1>2. balance' = Moved(Reserve, Elsewhere, x) /\ paid' = paid
  BY Zenon DEF Transfer
<1>3. ASSUME NEW a \in Account \ {Reserve, Elsewhere}
      PROVE  balance'[a] = balance[a]
  <2>1. Moved(Reserve, Elsewhere, x)[a]
          = (balance[a] + (IF a = Elsewhere THEN x ELSE 0)) - (IF a = Reserve THEN x ELSE 0)
    BY <1>1, MovedAt
  <2>2. balance[a] \in Nat /\ a # Reserve /\ a # Elsewhere
    BY Zenon, <1>1
  <2> QED
    BY <1>2, <2>1, <2>2
<1> QED
  BY Zenon, <1>2, <1>3 DEF Received

\* To the contract, what the script, its operators and the chain do is a step it allows, or none.
LEMMA RunIsAnyStep == IInv /\ [RunNext]_runVars => [AnyStep]_vars
<1> SUFFICES ASSUME IInv, [RunNext]_runVars
             PROVE  [AnyStep]_vars
  BY Zenon
<1>1. ASSUME NEW tx \in mempool, MineAccepted(tx)
      PROVE  AnyStep
  <2>1. ExecuteBegin(tx.sender, SubmissionOf(tx))
    BY Zenon, <1>1 DEF MineAccepted
  <2>2. tx.sender \in Account
    BY Zenon, <2>1 DEF ExecuteBegin, Accepts, IInv, TypeOK
  <2>3. tx.index \in Index
    BY Zenon, <2>1 DEF ExecuteBegin, Accepts, VerifyBatch, SubmissionOf
  <2>4. SubmissionOf(tx) \in [index : Nat, batch : Batch]
    BY <2>3, PublishedAssumption DEF SubmissionOf, Index
  <2> QED
    BY Zenon, <2>1, <2>2, <2>4 DEF AnyStep
<1>2. CASE MineRow \/ MineClose
  BY Zenon, <1>2 DEF MineRow, MineClose, AnyStep, ExecuteStep
<1>3. CASE Govern
  <2>1. Admin \in Account /\ Reserve \in Account /\ Elsewhere \in Account /\ Wallet \subseteq Account
    BY Zenon, AccountAssumption, RunAssumption
  <2>2. TotalAmount \in 0 .. MaxUint /\ 0 \in 0 .. MaxUint /\ Amount \subseteq 0 .. MaxUint
    BY AmountAssumption, RunAssumption
  <2> QED
    BY Zenon, <1>3, <2>1, <2>2 DEF Govern, AnyStep, OtherCall
<1>4. CASE UNCHANGED vars
  BY Zenon, <1>4
<1> QED
  BY Zenon, <1>1, <1>2, <1>3, <1>4
     DEF RunNext, runVars, Mine, MineRejected, StartExecute, Broadcast, Interrupt, GiveUp, Lose

\* Every step of a run keeps what was received equal to what was paid.
LEMMA NextReceived == IInv /\ ReceivedInv /\ [RunNext]_runVars => ReceivedInv'
<1> SUFFICES ASSUME IInv, ReceivedInv, [RunNext]_runVars
             PROVE  ReceivedInv'
  BY Zenon
<1>1. ASSUME NEW tx \in mempool, MineAccepted(tx)
      PROVE  ReceivedInv'
  <2>1. call'.saved.balance = balance /\ call'.saved.paid = paid /\ UNCHANGED <<balance, paid>>
    BY Zenon, <1>1 DEF MineAccepted, ExecuteBegin, ledger
  <2> QED
    BY Zenon, <2>1 DEF ReceivedInv, Received
<1>2. CASE ExecuteRow
  <2>1. Received(balance', paid')
    BY Zenon, <1>2, RowReceived
  <2>2. call'.saved = call.saved /\ ~Idle
    BY Zenon, <1>2, OpenCall DEF ExecuteRow, Call
  <2>3. Received(call'.saved.balance, call'.saved.paid)
    BY Zenon, <2>2 DEF ReceivedInv
  <2> QED
    BY Zenon, <2>1, <2>3 DEF ReceivedInv, Received
<1>3. CASE ExecuteRevert
  <2>1. Idle' /\ balance' = call.saved.balance /\ paid' = call.saved.paid /\ ~Idle
    BY Zenon, <1>3 DEF ExecuteRevert, Idle
  <2> QED
    BY Zenon, <2>1 DEF ReceivedInv, Received
<1>4. ASSUME UNCHANGED <<balance, paid>>, UNCHANGED call \/ Idle'
      PROVE  ReceivedInv'
  BY Zenon, <1>4 DEF ReceivedInv, Received, Idle
<1>5. ASSUME NEW x \in Amount, Transfer(Reserve, Elsewhere, x)
      PROVE  ReceivedInv'
  <2>1. x \in Nat /\ Idle'
    BY <1>5, AmountAssumption DEF Transfer, Idle
  <2>2. Received(balance', paid')
    BY Zenon, <1>5, <2>1, ElsewhereReceived DEF ReceivedInv
  <2> QED
    BY Zenon, <2>1, <2>2 DEF ReceivedInv, Received
<1>6. CASE ExecuteEnd
  BY Zenon, <1>4, <1>6 DEF ExecuteEnd, ledger, Idle
<1>7. CASE Govern
  BY Zenon, <1>4, <1>5, <1>7 DEF Govern, SetExecutor, SetPaused, Approve, ledger
<1>8. CASE UNCHANGED vars
  BY Zenon, <1>4, <1>8 DEF vars, ledger
<1> QED
  BY Zenon, <1>1, <1>2, <1>3, <1>6, <1>7, <1>8
     DEF RunNext, runVars, Mine, MineRow, MineClose, MineRejected, StartExecute, Broadcast, Interrupt, GiveUp, Lose

\* The contract's invariant holds however the airdrop is run.
THEOREM RunInvariance == RunSpec => [](IInv /\ ReceivedInv)
<1>1. RunInit => IInv /\ ReceivedInv
  BY Zenon, InitIInv, InitReceived DEF RunInit
<1>2. IInv /\ ReceivedInv /\ [RunNext]_runVars => IInv' /\ ReceivedInv'
  BY Zenon, RunIsAnyStep, NextIInv, NextReceived
<1> QED
  BY <1>1, <1>2, PTL DEF RunSpec

\* Interrupted, rerun, run by two wallets at once, mined late: between transactions each recipient
\* has received exactly the published rows of the batches marked as sent (RecipientsPaidExactly).
THEOREM PaysRecipientsExactly == RunSpec => []RecipientsPaidExactly
<1>1. IInv /\ ReceivedInv => RecipientsPaidExactly
  <2> SUFFICES ASSUME IInv, ReceivedInv, Idle, NEW a \in Account \ {Reserve, Elsewhere}
               PROVE  balance[a] = InitBalance[a]
                        + SumFunction([r \in {q \in RowsOf(a) : q[1] \in Executed} |->
                                         Published[r[1]].amounts[r[2]]])
    BY Zenon DEF RecipientsPaidExactly
  <2> DEFINE S == {q \in RowsOf(a) : q[1] \in Executed}
             f == [r \in S |-> Published[r[1]].amounts[r[2]]]
  <2>1. S = PaidRows(paid, a) /\ S \in SUBSET Row
    BY DEF IInv, Settled, PaidFor, Executed, PaidRows, RowsOf
  <2>2. IsFiniteSet(S)
    BY Zenon, <2>1, RowSums
  <2>3. \A r \in S : RowAmount[r] = f[r] /\ RowAmount[r] \in Int
    BY SMTT(30), <2>1, RowsFinite DEF RowAmount
  <2>4. SumFunction(f) = SumFunctionOnSet(f, S)
    BY Zenon DEF SumFunction
  <2>5. balance[a] = InitBalance[a] + SumFunctionOnSet(RowAmount, PaidRows(paid, a))
    BY Zenon DEF ReceivedInv, Received
  <2> HIDE DEF f
  <2>6. SumFunctionOnSet(RowAmount, S) = SumFunctionOnSet(f, S)
    BY Zenon, <2>2, <2>3, SumCongruent
  <2>7. balance[a] = InitBalance[a] + SumFunction(f)
    BY Zenon, <2>1, <2>4, <2>5, <2>6
  <2> QED
    BY Zenon, <2>7 DEF f
<1> QED
  BY <1>1, RunInvariance, PTL

\* The airdrop as it is run implements the atomic airdrop as well.
THEOREM RunsImplementAtomicAirdrop == RunSpec => ExecuteIsAtomic
<1>1. RunInit => RowsMoved /\ Atomic!Init
  BY Zenon, InitAtomic DEF RunInit
<1>2. IInv /\ RowsMoved /\ [RunNext]_runVars => RowsMoved'
  BY Zenon, RunIsAnyStep, NextRowsMoved
<1>3. IInv /\ IInv' /\ RowsMoved /\ [RunNext]_runVars => [Atomic!Next]_(Atomic!vars)
  BY Zenon, RunIsAnyStep, NextAtomic
<1> QED
  BY <1>1, <1>2, <1>3, RunInvariance, PTL DEF RunSpec, Atomic!Spec, ExecuteIsAtomic

-----------------------------------------------------------------------------
(***************************************************************************)
(* The rehearsal.                                                          *)
(***************************************************************************)
\* A finite set of numbers has a least one.
LEMMA LeastExists ==
  ASSUME NEW S \in SUBSET Int, IsFiniteSet(S), S # {}
  PROVE  \E m \in S : \A j \in S : m <= j
<1> DEFINE Good == {T \in SUBSET S : T # {} => \E m \in T : \A j \in T : m <= j}
<1>1. {} \in Good
  BY Zenon
<1>2. ASSUME NEW T \in SUBSET S, NEW x \in T, T \ {x} \in Good
      PROVE  T \in Good
  <2>1. CASE T = {x}
    <3>1. x <= x
      OBVIOUS
    <3> QED
      BY Zenon, <2>1, <3>1
  <2>2. CASE T # {x}
    <3>1. PICK m \in T \ {x} : \A j \in T \ {x} : m <= j
      BY Zenon, <1>2, <2>2
    <3>2. CASE x <= m
      <4>1. \A j \in T : x <= j
        BY <3>1, <3>2
      <4> QED
        BY Zenon, <4>1
    <3>3. CASE ~ (x <= m)
      <4>1. \A j \in T : m <= j
        BY <3>1, <3>3
      <4> QED
        BY Zenon, <4>1
    <3> QED
      BY Zenon, <3>2, <3>3
  <2> QED
    BY Zenon, <2>1, <2>2
<1>3. S \in Good
  <2> HIDE DEF Good
  <2> QED
    BY Zenon, <1>1, <1>2, SubsetInduction
<1> QED
  BY Zenon, <1>3

\* The k-th least of a finite set of numbers.
LEMMA KthLeast ==
  ASSUME NEW S \in SUBSET Int, IsFiniteSet(S), NEW k \in 1 .. Cardinality(S)
  PROVE  \E i \in S : Cardinality({j \in S : j < i}) = k - 1
<1> DEFINE Below(i) == {j \in S : j < i}
           Bad == {q \in 1 .. Cardinality(S) : \A i \in S : Cardinality(Below(i)) # q - 1}
<1>1. Cardinality(S) \in Nat
  BY Zenon, FS_CardinalityType
<1>2. \A i \in S : IsFiniteSet(Below(i)) /\ Cardinality(Below(i)) \in Nat
  BY Zenon, FS_Subset, FS_CardinalityType
<1>3. \A i \in S : Cardinality(Below(i) \cup {i}) = Cardinality(Below(i)) + 1
  <2> SUFFICES ASSUME NEW i \in S PROVE Cardinality(Below(i) \cup {i}) = Cardinality(Below(i)) + 1
    BY Zenon
  <2>1. i \notin Below(i)
    OBVIOUS
  <2>2. PICK B : B = Below(i) /\ IsFiniteSet(B) /\ i \notin B
    BY Zenon, <1>2, <2>1
  <2>3. Cardinality(B \cup {i}) = Cardinality(B) + 1
    BY Zenon, <2>2, FS_AddElement
  <2> HIDE DEF Below
  <2> QED
    BY Zenon, <2>2, <2>3
<1>4. ASSUME Bad # {} PROVE FALSE
  <2>1. Bad \in SUBSET Int /\ IsFiniteSet(Bad)
    <3>1. IsFiniteSet(1 .. Cardinality(S)) /\ 1 .. Cardinality(S) \subseteq Int
      BY <1>1, FS_Interval
    <3> QED
      BY Zenon, <3>1, FS_Subset
  <2>2. PICK q \in Bad : \A p \in Bad : q <= p
    <3> HIDE DEF Bad
    <3> QED
      BY Zenon, <1>4, <2>1, LeastExists
  <2>3. q \in 1 .. Cardinality(S) /\ \A i \in S : Cardinality(Below(i)) # q - 1
    BY Zenon
  <2>4. CASE q = 1
    <3>1. S # {}
      BY <1>1, <2>3, FS_EmptySet
    <3>2. PICK m \in S : \A j \in S : m <= j
      BY Zenon, <3>1, LeastExists
    <3>3. Below(m) = {}
      <4>1. \A j \in S : ~ (j < m)
        BY <3>2
      <4> QED
        BY Zenon, <4>1
    <3>4. Cardinality(Below(m)) = 0
      BY Zenon, <3>3, FS_EmptySet
    <3> HIDE DEF Below, Bad
    <3>5. q - 1 = 0
      BY <2>4
    <3> QED
      BY Zenon, <2>3, <3>4, <3>5
  <2>5. CASE q # 1
    <3>1. q - 1 \in 1 .. Cardinality(S) /\ ~ (q <= q - 1)
      BY <1>1, <2>3, <2>5
    <3>2. PICK i \in S : Cardinality(Below(i)) = (q - 1) - 1
      BY Zenon, <2>2, <3>1
    <3>3. Cardinality(Below(i) \cup {i}) = q - 1
      <4>1. Cardinality(Below(i) \cup {i}) = Cardinality(Below(i)) + 1
        BY Zenon, <1>3
      <4> HIDE DEF Below, Bad
      <4>2. q \in Int
        BY <1>1, <2>3
      <4> QED
        BY <3>2, <4>1, <4>2
    <3> DEFINE Above == {j \in S : i < j}
    <3>4. Above # {}
      <4>1. ASSUME Above = {} PROVE S = Below(i) \cup {i}
        <5>1. \A j \in S : i < j \/ j < i \/ j = i
          OBVIOUS
        <5> QED
          BY Zenon, <4>1, <5>1
      <4> HIDE DEF Below, Bad, Above
      <4>2. Cardinality(S) # q - 1
        BY <1>1, <2>3
      <4> QED
        BY Zenon, <3>3, <4>1, <4>2
    <3>5. PICK m \in Above : \A j \in Above : m <= j
      <4>1. Above \in SUBSET Int /\ IsFiniteSet(Above)
        BY Zenon, FS_Subset
      <4> HIDE DEF Above
      <4> QED
        BY Zenon, <3>4, <4>1, LeastExists
    <3>6. Below(m) = Below(i) \cup {i}
      <4>1. \A j \in S : i < j => m <= j
        BY Zenon, <3>5
      <4>2. m \in S /\ i < m
        BY Zenon
      <4>3. \A j \in S : (j < m) <=> (j < i \/ j = i)
        <5> HIDE DEF Above, Below, Bad
        <5> QED
          BY <4>1, <4>2
      <4> QED
        BY Zenon, <4>3
    <3> QED
      BY Zenon, <2>3, <3>3, <3>6
  <2> QED
    BY Zenon, <2>4, <2>5
<1> QED
  BY Zenon, <1>4

\* The batches Execute.s.sol goes through are those not yet sent, each once.
LEMMA UnsentBatches ==
  /\ Len(Unsent(0, 0)) \in Nat /\ DOMAIN Unsent(0, 0) = 1 .. Len(Unsent(0, 0))
  /\ \A k \in 1 .. Len(Unsent(0, 0)) : Unsent(0, 0)[k] \in Index \ Executed
  /\ \A j, k \in 1 .. Len(Unsent(0, 0)) : Unsent(0, 0)[j] = Unsent(0, 0)[k] => j = k
<1> DEFINE S == {i \in 0 .. RangeEnd(0) - 1 : ~IsExecuted(i)}
<1>1. S = Index \ Executed
  BY Zenon DEF RangeEnd, Index, Executed, SentIn, IsExecuted
<1>2. S \in SUBSET Int /\ IsFiniteSet(S)
  <2>1. IsFiniteSet(Index) /\ Index \subseteq Int
    BY BatchCountAssumption, FS_Interval DEF Index
  <2>2. S \subseteq Index
    BY Zenon, <1>1
  <2> QED
    BY Zenon, <2>1, <2>2, FS_Subset
<1>3. PICK T \in SUBSET Int : T = S /\ IsFiniteSet(T)
  BY Zenon, <1>2
<1>4. Unsent(0, 0) = [k \in 1 .. Cardinality(T) |->
                        CHOOSE i \in T : Cardinality({j \in T : j < i}) = k - 1]
  <2>1. Unsent(0, 0) = [k \in 1 .. Cardinality(S) |->
                         CHOOSE i \in S : Cardinality({j \in S : j < i}) = k - 1]
    BY Zenon DEF Unsent
  <2> HIDE DEF S
  <2> QED
    BY Zenon, <1>3, <2>1
<1>5. PICK todo : todo = Unsent(0, 0)
  BY Zenon
<1> HIDE DEF S
<1>6. Cardinality(T) \in Nat
  BY Zenon, <1>3, FS_CardinalityType
<1>7. DOMAIN todo = 1 .. Cardinality(T) /\ Len(todo) = Cardinality(T)
  <2>1. DOMAIN todo = 1 .. Cardinality(T)
    BY Zenon, <1>4, <1>5
  <2> QED
    BY <1>4, <1>5, <1>6, <2>1
<1>8. ASSUME NEW k \in 1 .. Cardinality(T)
      PROVE  todo[k] \in T /\ Cardinality({j \in T : j < todo[k]}) = k - 1
  <2>1. todo[k] = CHOOSE i \in T : Cardinality({j \in T : j < i}) = k - 1
    BY Zenon, <1>4, <1>5
  <2>2. \E i \in T : Cardinality({j \in T : j < i}) = k - 1
    BY Zenon, <1>3, KthLeast
  <2> QED
    BY Zenon, <2>1, <2>2
<1>9. ASSUME NEW j \in 1 .. Cardinality(T), NEW k \in 1 .. Cardinality(T), todo[j] = todo[k]
      PROVE  j = k
  <2>1. j - 1 = k - 1
    BY Zenon, <1>8, <1>9
  <2> QED
    BY <1>6, <2>1
<1> QED
  BY Zenon, <1>1, <1>3, <1>5, <1>6, <1>7, <1>8, <1>9

\* A batch's total, and what of it leaves the reserve.
LEMMA BatchTotals ==
  ASSUME NEW i \in Index
  PROVE  LET b == Published[i]
             out == SumFunctionOnSet(b.amounts, {r \in DOMAIN b.amounts : b.recipients[r] # Reserve})
         IN  Total(i) \in Nat /\ out \in Nat /\ out <= Total(i)
<1> DEFINE b == Published[i]
<1>1. PICK f : f = b.amounts
  BY Zenon
<1>2. DOMAIN f = 1 .. Len(f) /\ Len(f) \in Nat /\ \A r \in DOMAIN f : f[r] \in Nat
  <2>1. b \in Batch
    BY Zenon, PublishedAssumption
  <2>2. f \in Seq(Nat)
    BY Zenon, <1>1, <2>1 DEF Batch
  <2> QED
    BY <2>2
<1>3. PICK S : S = DOMAIN f /\ IsFiniteSet(S)
  BY <1>2, FS_Interval
<1>4. Total(i) = SumFunctionOnSet(f, S)
  BY Zenon, <1>1, <1>3 DEF Total, SumFunction
<1>5. PICK T \in SUBSET S : T = {r \in S : b.recipients[r] # Reserve} /\ IsFiniteSet(T)
  <2>1. {r \in S : b.recipients[r] # Reserve} \subseteq S
    BY Zenon
  <2> QED
    BY Zenon, <1>3, <2>1, FS_Subset
<1>6. SumFunctionOnSet(f, T) =< SumFunctionOnSet(f, S)
  BY Zenon, <1>2, <1>3, SumSubset
<1>7. SumFunctionOnSet(f, T) \in Nat /\ SumFunctionOnSet(f, S) \in Nat
  BY Zenon, <1>2, <1>3, <1>5, SumIsNatural
<1> QED
  BY Zenon, <1>1, <1>3, <1>4, <1>5, <1>6, <1>7

\* Batches taken once each cost together no more than the list.
LEMMA PartOfTheList ==
  ASSUME NEW n \in Nat, NEW todo, NEW k \in 1 .. n,
         \A j \in 1 .. n : todo[j] \in Index,
         \A i, j \in 1 .. n : todo[i] = todo[j] => i = j
  PROVE  /\ SpentBefore(todo, k) \in Nat /\ PaidOutBefore(todo, k) \in Nat /\ Total(todo[k]) \in Nat
         /\ TotalAmount \in Nat
         /\ PaidOutBefore(todo, k) <= SpentBefore(todo, k)
         /\ SpentBefore(todo, k) + Total(todo[k]) <= TotalAmount
<1> DEFINE f == [i \in Index |-> Total(i)]
           h == [j \in 1 .. k |-> Total(todo[j])]
           g == [j \in 1 .. k - 1 |-> Total(todo[j])]
           out == [j \in 1 .. k - 1 |->
                     LET b == Published[todo[j]]
                     IN  SumFunctionOnSet(b.amounts, {r \in DOMAIN b.amounts : b.recipients[r] # Reserve})]
<1>1. PICK K, J : K = 1 .. k /\ J = 1 .. k - 1 /\ IsFiniteSet(K) /\ IsFiniteSet(J)
  BY FS_Interval
<1>2. k \in K /\ J = K \ {k} /\ K \subseteq 1 .. n
  BY <1>1
<1>3. \A j \in K : todo[j] \in Index
  BY Zenon, <1>2
<1>4. \A j \in K : h[j] = Total(todo[j]) /\ f[todo[j]] = Total(todo[j]) /\ Total(todo[j]) \in Nat
  BY Zenon, <1>1, <1>3, BatchTotals
<1>5. \A j \in J : g[j] = h[j] /\ g[j] \in Nat
  BY Zenon, <1>1, <1>2, <1>4
<1>6. \A j \in J : out[j] \in Nat /\ out[j] <= g[j]
  <2>1. ASSUME NEW j \in J PROVE out[j] \in Nat /\ out[j] <= Total(todo[j]) /\ g[j] = Total(todo[j])
    <3>1. PICK i \in Index : i = todo[j]
      BY Zenon, <1>2, <1>3
    <3>2. j \in 1 .. k - 1
      BY Zenon, <1>1
    <3>3. out[j] = LET b == Published[i]
                   IN  SumFunctionOnSet(b.amounts, {r \in DOMAIN b.amounts : b.recipients[r] # Reserve})
      BY Zenon, <3>1, <3>2
    <3>4. g[j] = Total(todo[j])
      BY Zenon, <3>2
    <3> HIDE DEF out, g
    <3> QED
      BY Zenon, <3>1, <3>3, <3>4, BatchTotals
  <2> HIDE DEF out, g
  <2> QED
    BY Zenon, <2>1
<1>7. IsFiniteSet(Index) /\ \A i \in Index : f[i] \in Nat
  <2>1. IsFiniteSet(Index)
    BY BatchCountAssumption, FS_Interval DEF Index
  <2> QED
    BY Zenon, <2>1, BatchTotals
<1>8. /\ SpentBefore(todo, k) = SumFunctionOnSet(g, J)
      /\ PaidOutBefore(todo, k) = SumFunctionOnSet(out, J)
      /\ TotalAmount = SumFunctionOnSet(f, Index)
  BY Zenon, <1>1 DEF SpentBefore, PaidOutBefore, TotalAmount, SumFunction
<1> HIDE DEF f, g, h, out
<1>9. PICK ff, gg, hh, oo : ff = f /\ gg = g /\ hh = h /\ oo = out
  BY Zenon
<1>10. SumFunctionOnSet(gg, J) \in Nat /\ SumFunctionOnSet(oo, J) \in Nat /\ SumFunctionOnSet(ff, Index) \in Nat
  <2>1. (\A j \in J : gg[j] \in Nat /\ oo[j] \in Nat) /\ \A i \in Index : ff[i] \in Nat
    BY Zenon, <1>5, <1>6, <1>7, <1>9
  <2> QED
    BY Zenon, <1>1, <1>7, <2>1, SumIsNatural
<1>11. SumFunctionOnSet(oo, J) =< SumFunctionOnSet(gg, J)
  <2>1. \A j \in J : oo[j] \in Int /\ gg[j] \in Int /\ oo[j] =< gg[j]
    BY <1>5, <1>6, <1>9
  <2> QED
    BY Zenon, <1>1, <2>1, SumMonotone
<1>12. SumFunctionOnSet(gg, J) + Total(todo[k]) <= SumFunctionOnSet(ff, Index)
  <2>1. \A j \in K : hh[j] = ff[todo[j]] /\ hh[j] \in Int /\ hh[j] \in Nat
    BY <1>4, <1>9
  <2>2. SumFunctionOnSet(hh, K) = hh[k] + SumFunctionOnSet(hh, J)
    <3>1. \A j \in K : hh[j] \in Int
      BY Zenon, <2>1
    <3>2. SumFunctionOnSet(hh, K) = hh[k] + SumFunctionOnSet(hh, K \ {k})
      BY Zenon, <1>1, <1>2, <3>1, SumPick
    <3> QED
      BY Zenon, <1>2, <3>2
  <2>3. SumFunctionOnSet(hh, J) = SumFunctionOnSet(gg, J)
    <3>1. \A j \in J : gg[j] = hh[j] /\ gg[j] \in Int
      BY <1>5, <1>9
    <3> QED
      BY Zenon, <1>1, <3>1, SumCongruent
  <2>4. SumFunctionOnSet(hh, K) = SumFunctionOnSet(ff, {todo[j] : j \in K})
    <3>1. \A i, j \in K : todo[i] = todo[j] => i = j
      BY Zenon, <1>2
    <3>2. \A j \in K : hh[j] = ff[todo[j]] /\ hh[j] \in Int
      BY Zenon, <2>1
    <3> QED
      BY SMTT(30), <1>1, <3>1, <3>2, SumReindexed
  <2>5. PICK sent \in SUBSET Index : sent = {todo[j] : j \in K}
    BY Zenon, <1>3
  <2>6. SumFunctionOnSet(ff, sent) =< SumFunctionOnSet(ff, Index)
    <3>1. \A i \in Index : ff[i] \in Nat
      BY Zenon, <1>7, <1>9
    <3> QED
      BY Zenon, <1>7, <3>1, SumSubset
  <2>7. hh[k] = Total(todo[k]) /\ Total(todo[k]) \in Nat
    BY Zenon, <1>2, <1>4, <1>9
  <2>8. Total(todo[k]) + SumFunctionOnSet(gg, J) =< SumFunctionOnSet(ff, Index)
    BY Zenon, <2>2, <2>3, <2>4, <2>5, <2>6, <2>7
  <2> QED
    BY <1>10, <2>7, <2>8
<1> QED
  BY Zenon, <1>2, <1>4, <1>8, <1>9, <1>10, <1>11, <1>12

\* After a rehearsal that passed, the approval of the total is enough for the whole list: none of
\* the checks of Execute.s.sol stops the run (RehearsalPredictsExecution).
THEOREM RehearsalsPredict == RunSpec => []RehearsalPredictsExecution
<1>1. IInv => RehearsalPredictsExecution
  <2> SUFFICES ASSUME IInv, SimulationOK, allowance = TotalAmount
               PROVE  Affordable(Unsent(0, 0))
    BY Zenon DEF RehearsalPredictsExecution
  <2>0. PICK todo : todo = Unsent(0, 0)
    BY Zenon
  <2>1. PICK n \in Nat : n = Len(todo) /\ todo = Unsent(0, 0)
    BY Zenon, <2>0, UnsentBatches
  <2>2. /\ \A j \in 1 .. n : todo[j] \in Index \ Executed
        /\ \A i, j \in 1 .. n : todo[i] = todo[j] => i = j
    BY Zenon, <2>1, UnsentBatches
  <2>3. ASSUME NEW k \in 1 .. n
        PROVE  /\ allowance = MaxUint \/ allowance - SpentBefore(todo, k) >= Total(todo[k])
               /\ balance[Reserve] - PaidOutBefore(todo, k) >= Total(todo[k])
               /\ ZeroAddress \notin Range(Published[todo[k]].recipients)
    <3>1. \A j \in 1 .. n : todo[j] \in Index
      BY Zenon, <2>2
    <3>2. /\ SpentBefore(todo, k) \in Nat /\ PaidOutBefore(todo, k) \in Nat /\ Total(todo[k]) \in Nat
          /\ TotalAmount \in Nat
          /\ PaidOutBefore(todo, k) <= SpentBefore(todo, k)
          /\ SpentBefore(todo, k) + Total(todo[k]) <= TotalAmount
      BY Zenon, <2>2, <3>1, PartOfTheList
    <3>3. balance[Reserve] >= TotalAmount /\ balance[Reserve] \in Nat
      BY Zenon, AccountAssumption DEF SimulationOK, IInv, TypeOK
    <3>4. /\ allowance - SpentBefore(todo, k) >= Total(todo[k])
          /\ balance[Reserve] - PaidOutBefore(todo, k) >= Total(todo[k])
      BY <3>2, <3>3
    <3>5. ZeroAddress \notin Range(Published[todo[k]].recipients)
      BY Zenon, <2>2 DEF SimulationOK, RehearsalRuns, Rehearsed
    <3> QED
      BY Zenon, <3>4, <3>5
  <2> QED
    BY Zenon, <2>1, <2>3 DEF Affordable
<1> QED
  BY <1>1, RunInvariance, PTL
=============================================================================
