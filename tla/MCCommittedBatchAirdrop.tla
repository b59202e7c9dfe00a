----------------------- MODULE MCCommittedBatchAirdrop -----------------------
(* A small list for CommittedBatchAirdrop: three batches over two bitmap words,
   a batch with two rows, and submissions that differ from the published list. *)
EXTENDS AirdropReports, RunDirectory, TLC

CONSTANTS zero, reserve, airdrop, alice, bob

B(rs, xs) == [recipients |-> rs, amounts |-> xs]

MCPublished == 0 :> B(<<alice, bob>>, <<1, 2>>) @@ 1 :> B(<<bob>>, <<1>>) @@ 2 :> B(<<alice>>, <<1>>)

\* Each published batch, batch 1 under another index, batch 1 with another amount, an empty batch,
\* a batch with a missing amount, and an index past the end.
MCSubmission ==
  {[index |-> i, batch |-> MCPublished[i]] : i \in 0 .. 2}
    \cup {[index |-> 2, batch |-> MCPublished[1]], [index |-> 1, batch |-> B(<<bob>>, <<2>>)],
          [index |-> 1, batch |-> B(<<>>, <<>>)], [index |-> 1, batch |-> B(<<bob>>, <<>>)],
          [index |-> 3, batch |-> MCPublished[2]]}

MCAccount == {zero, reserve, airdrop, alice, bob}

\* Three recipients, out of order, and the same list with another amount.
Cells(address, digits) ==
  [address |-> address, spelling |-> "lower", digits |-> digits, places |-> 0, decision |-> "", status |-> ""]

MCBuilds ==
  LET input(x) == <<[columns |-> {}, unit |-> "atto", rows |-> <<Cells(3, 1), Cells(1, x), Cells(2, 1)>>]>>
      Line(x, size) == [input |-> input(x), order |-> "address", merge |-> FALSE, size |-> size, force |-> TRUE]
  IN  {Line(1, 2), Line(1, 1), Line(2, 2), Line(1, 0)}

MCInitBalance == [a \in MCAccount |-> IF a = reserve THEN 6 ELSE 0]
=============================================================================
