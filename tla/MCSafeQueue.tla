----------------------------- MODULE MCSafeQueue -----------------------------
(* Three wallets to pay, and one that was paid before. *)
EXTENDS DirectPayment

CONSTANTS past, p1, p2, r1, r2, twice, calls, dark

\* A recipient listed twice, a call that pays nobody, and a payment that the reviewers cannot decode.
MCForeign ==
  twice :> <<<<2, 4>>, <<2, 4>>>> @@ calls :> <<>> @@ dark :> <<<<1, 5>>>>

\* With a payment of one wallet and of two, in either order.
MCContent == {twice, calls, dark} \cup SeqOf({<<1, 5>>, <<2, 4>>, <<3, 2>>, <<4, 1>>}, 2)

MCTransfers == [c \in MCContent |-> IF c \in DOMAIN MCForeign THEN MCForeign[c] ELSE c]

MCPlain == MCContent \ {calls}

MCReadable == MCContent \ {dark}

\* A sheet that shows another rounding.
MCSheets == {1 :> 6 @@ 2 :> 4}

MCPast == [i \in Id |-> <<<<4, 1>>>>]

Cells(address, digits) ==
  [address |-> address, spelling |-> "lower", digits |-> digits, places |-> 1,
   decision |-> "approved", status |-> "pending"]

\* The list in whole tokens with one decimal, and a portal export with a wallet that was sent.
MCLists ==
  LET rows == <<Cells(3, 2), Cells(1, 5), Cells(2, 4)>> IN
  {<<[columns |-> {}, unit |-> "one", rows |-> rows]>>,
   <<[columns |-> {"decision", "wallet_status"}, unit |-> "one",
      rows |-> [rows EXCEPT ![1].status = "sent"]]>>}

Choice(strategy, hold, include, budget, max) ==
  [strategy |-> strategy, hold |-> hold, include |-> include, budget |-> budget, max_recipients |-> max,
   tiers |-> [medium_from |-> 3, large_from |-> 5, large_to |-> Unlimited,
              counts |-> [large |-> 1, medium |-> 1, small |-> Unlimited]],
   draw_value |-> [tier \in {"large", "medium", "small"} |-> [k \in 0 .. 3 |-> 5]]]

\* The largest first leaves room for the smallest; one wallet is on hold; one is required.
MCSelections ==
  {Choice("largest-first", {}, <<>>, 7, Unlimited), Choice("smallest-first", {}, <<>>, 8, Unlimited),
   Choice("input", {}, <<2>>, Unlimited, Unlimited), Choice("random", {2}, <<>>, 6, 2)}

MCSplits == {[max |-> 2, first |-> 0, expect |-> 3], [max |-> 2, first |-> 1, expect |-> 1]}

Symmetry == Permutations(Id \ History) \cup Permutations(Reviewer)
=============================================================================
