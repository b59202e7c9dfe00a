---------------------------- MODULE RecipientList ----------------------------
(***************************************************************************)
(* The lists of recipients: airdrop/tools/common.py, and select_batch.py,  *)
(* which chooses who is paid next.                                         *)
(*                                                                         *)
(* A file is [columns, unit, rows].  `columns' are the review columns it   *)
(* has, `unit' what its amount column says ("atto", "one" or "unknown").   *)
(* A row is [address, spelling, digits, places, decision, status]: the     *)
(* amount cell reads digits / 10^places, and a mixed-case address may be   *)
(* spelled with a wrong checksum.  Addresses are numbers, ordered as their *)
(* hex forms are; 0 is the zero address.  Blank rows, quoting and the      *)
(* names of columns are left out.                                          *)
(***************************************************************************)
EXTENDS Integers, FiniteSets, SequencesExt

CONSTANTS
  Decimals,      \* of the token: 18
  WeightScale    \* of the weights of the random draw: 10^80

Refused == [ok |-> FALSE]

Result(ok, out) == IF ok THEN [ok |-> TRUE, out |-> out] ELSE Refused

Addresses(rows) == {row.address : row \in ToSet(rows)}

TotalOf(rows) == FoldLeft(LAMBDA x, row : x + row.amount, 0, rows)

NoDuplicates(rows) == Cardinality(Addresses(rows)) = Len(rows)

ByAddress(rows) == SortSeq(rows, LAMBDA a, b : a.address < b.address)

-----------------------------------------------------------------------------
(* common.py *)

normalize_address(cell) == Result(cell.address # 0 /\ cell.spelling # "wrong", cell.address)

\* Amounts become whole numbers of the smallest unit, or are refused.
parse_amount(cell, unit) ==
  LET scaled == cell.digits * 10 ^ Decimals IN
  IF unit = "atto" THEN Result(cell.places = 0 /\ cell.digits > 0, cell.digits)
  ELSE Result(cell.digits > 0 /\ scaled % 10 ^ cell.places = 0, scaled \div 10 ^ cell.places)

\* PortalReview: an export of the claim portal holds approved wallets that are still to send.
PortalReview(file, row) ==
  /\ "decision" \in file.columns => row.decision = "approved"
  /\ "wallet_status" \in file.columns => row.status = "pending"

\* Every row of every file, in file order; `review' is review_portal_exports.
read_rows(files, review) ==
  LET units == {files[k].unit : k \in DOMAIN files}
      Reads(file, row) == /\ review => PortalReview(file, row)
                          /\ normalize_address(row).ok
                          /\ parse_amount(row, file.unit).ok
      Row(file, row) == [address |-> row.address, amount |-> parse_amount(row, file.unit).out]
  IN  IF /\ Cardinality(units) = 1 /\ "unknown" \notin units
         /\ \E file \in ToSet(files) : file.rows # <<>>
         /\ \A file \in ToSet(files) :
              /\ review => "sent_status" \notin file.columns
              /\ \A row \in ToSet(file.rows) : Reads(file, row)
         /\ \E file \in ToSet(files) : file.rows # <<>>
      THEN Result(TRUE, FlattenSeq([k \in DOMAIN files |->
                          [j \in DOMAIN files[k].rows |-> Row(files[k], files[k].rows[j])]]))
      ELSE Refused

\* Repeated addresses are added up where they first stand, or refused.
consolidate(rows, order, merge_duplicates) ==
  LET first == SelectSeq([k \in DOMAIN rows |-> k],
                         LAMBDA k : \A j \in 1 .. k - 1 : rows[j].address # rows[k].address)
      Same(a) == SelectSeq(rows, LAMBDA row : row.address = a)
      out == [k \in DOMAIN first |->
                [address |-> rows[first[k]].address, amount |-> TotalOf(Same(rows[first[k]].address))]]
  IN  Result(merge_duplicates \/ NoDuplicates(rows), IF order = "address" THEN ByAddress(out) ELSE out)

-----------------------------------------------------------------------------
(* select_batch.py *)

\* No --budget, no --max-recipients, no --small-count, no --large-to.
Unlimited == -1

Within(x, limit) == limit = Unlimited \/ x <= limit

Left(limit, x) == IF limit = Unlimited THEN limit ELSE limit - x

tier_of(amount, tiers) ==
  IF tiers.large_to # Unlimited /\ amount >= tiers.large_to THEN "none"
  ELSE IF amount >= tiers.large_from THEN "large"
  ELSE IF amount >= tiers.medium_from THEN "medium" ELSE "small"

\* --small-weight inverse; a weight never falls to 0.
Weight(tier, amount) ==
  IF tier # "small" \/ amount > WeightScale THEN 1 ELSE WeightScale \div amount

\* One turn of random_select's loop in a tier: draw k takes the entry of the pool whose running
\* weight first exceeds draw_value % total, and skips it if it does not fit the budget.
Draw(state, tier, wanted, draw_value) ==
  LET weights == [j \in DOMAIN state.pool |-> Weight(tier, state.pool[j].amount)]
      Running(j) == FoldLeft(LAMBDA x, w : x + w, 0, SubSeq(weights, 1, j))
      r == draw_value[tier][state.k] % Running(Len(weights))
      index == CHOOSE j \in DOMAIN weights : Running(j) > r /\ Running(j - 1) <= r
      row == state.pool[index]
      fits == Within(row.amount, state.budget)
  IN  IF state.pool = <<>> \/ state.taken = wanted \/ state.slots = 0 THEN state
      ELSE [pool |-> RemoveAt(state.pool, index), k |-> state.k + 1,
            chosen |-> IF fits THEN Append(state.chosen, row) ELSE state.chosen,
            taken |-> state.taken + (IF fits THEN 1 ELSE 0),
            budget |-> IF fits THEN Left(state.budget, row.amount) ELSE state.budget,
            slots |-> IF fits THEN Left(state.slots, 1) ELSE state.slots]

random_select(candidates, tiers, draw_value, budget, slots) ==
  LET Pool(tier) == ByAddress(SelectSeq(candidates, LAMBDA row : tier_of(row.amount, tiers) = tier))
      Tier(state, tier) ==
        FoldLeft(LAMBDA s, row : Draw(s, tier, tiers.counts[tier], draw_value),
                 [state EXCEPT !.pool = Pool(tier), !.k = 0, !.taken = 0], candidates)
      start == [pool |-> <<>>, k |-> 0, taken |-> 0, chosen |-> <<>>, budget |-> budget, slots |-> slots]
  IN  FoldLeft(Tier, start, <<"large", "medium", "small">>).chosen

\* The order in which the other strategies take the candidates.
InOrder(candidates, strategy) ==
  CASE strategy = "smallest-first" ->
         SortSeq(candidates, LAMBDA a, b :
           a.amount < b.amount \/ (a.amount = b.amount /\ a.address < b.address))
    [] strategy = "largest-first" ->
         SortSeq(candidates, LAMBDA a, b :
           a.amount > b.amount \/ (a.amount = b.amount /\ a.address < b.address))
    [] OTHER -> candidates

\* Mistaken variant of Fill: every strategy stops at the first recipient that does not fit.
FillUntilFull(candidates, strategy, spent, count, budget, slots) ==
  FoldLeft(LAMBDA s, row :
             IF s.stop \/ ~Within(count + Len(s.chosen) + 1, slots) \/ ~Within(s.spent + row.amount, budget)
             THEN [s EXCEPT !.stop = TRUE]
             ELSE [s EXCEPT !.chosen = Append(@, row), !.spent = @ + row.amount],
           [stop |-> FALSE, chosen |-> <<>>, spent |-> spent], InOrder(candidates, strategy)).chosen

\* The loop of the other strategies: the smallest stop at the first that does not fit.
Fill(candidates, strategy, spent, count, budget, slots) ==
  FoldLeft(LAMBDA s, row :
             IF s.stop \/ ~Within(count + Len(s.chosen) + 1, slots) THEN [s EXCEPT !.stop = TRUE]
             ELSE IF ~Within(s.spent + row.amount, budget)
             THEN [s EXCEPT !.stop = (strategy = "smallest-first")]
             ELSE [s EXCEPT !.chosen = Append(@, row), !.spent = @ + row.amount],
           [stop |-> FALSE, chosen |-> <<>>, spent |-> spent], InOrder(candidates, strategy)).chosen

\* A run of the tool: `rows' is the consolidated list, `args' its arguments with the --paid files
\* (sequences of rows), the --hold addresses and the --include addresses, in order.
PaidRows(rows, args) == FlattenSeq(args.paid)

\* What was paid is on the list, at the list's amount, and in one file only.
PaidAgrees(rows, args) ==
  /\ ToSet(PaidRows(rows, args)) \subseteq ToSet(rows)
  /\ NoDuplicates(PaidRows(rows, args))

Arguments(rows, args) ==
  LET paid == Addresses(PaidRows(rows, args)) IN
  /\ \A k \in DOMAIN args.include :
       args.include[k] \in Addresses(rows) \ (paid \cup args.hold)
  /\ args.max_recipients = Unlimited \/ args.max_recipients >= 1
  /\ args.strategy = "random" =>
       /\ args.tiers.medium_from < args.tiers.large_from
       /\ args.tiers.large_to = Unlimited \/ args.tiers.large_to > args.tiers.large_from
       /\ \E limit \in {args.budget, args.tiers.counts["small"], args.max_recipients} : limit # Unlimited

Forced(rows, args) ==
  [k \in DOMAIN args.include |-> CHOOSE row \in ToSet(rows) : row.address = args.include[k]]

Candidates(rows, args) ==
  SelectSeq(rows, LAMBDA row :
    row.address \notin Addresses(PaidRows(rows, args)) \cup args.hold \cup ToSet(args.include))

\* selected.csv and remaining.csv.
select_batch(rows, args) ==
  LET forced == Forced(rows, args)
      candidates == Candidates(rows, args)
      chosen == IF args.strategy = "random"
                THEN random_select(candidates, args.tiers, args.draw_value,
                                   Left(args.budget, TotalOf(forced)),
                                   Left(args.max_recipients, Len(forced)))
                ELSE Fill(candidates, args.strategy, TotalOf(forced), Len(forced),
                          args.budget, args.max_recipients)
      selected == forced \o ByAddress(chosen)
      remaining == SelectSeq(rows, LAMBDA row :
                     row.address \notin Addresses(PaidRows(rows, args)) \cup Addresses(selected))
  IN  IF ~ (PaidAgrees(rows, args) /\ Arguments(rows, args)) THEN Refused
      ELSE Result(/\ Within(TotalOf(forced), args.budget)
                  /\ Within(Len(forced), args.max_recipients),
                  [selected |-> selected, remaining |-> ByAddress(remaining)])
=============================================================================
