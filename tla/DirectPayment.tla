---------------------------- MODULE DirectPayment ----------------------------
(***************************************************************************)
(* A list paid from the reserve Safe in several rounds: select-batch       *)
(* chooses the recipients of a round, `safe-batch build' splits them into  *)
(* Safe transactions, `safe-batch verify' rebuilds the files, somebody     *)
(* proposes the transactions in the Safe's web app, and SafeQueue takes    *)
(* over: reviews, signatures, execution.  The next round starts from the   *)
(* same list and the recipients.csv files of what was executed, as far as  *)
(* the operator passes them.                                               *)
(*                                                                         *)
(* Every step here leaves the Safe alone or is an action of SafeQueue, for *)
(* contents and sheets that the payments built determine.  A content is a  *)
(* sequence of <<recipient, amount>>.                                      *)
(***************************************************************************)
EXTENDS SafeQueue, RecipientList

CONSTANTS
  Lists,          \* the files the operator may have exported as the list: sequences of files
  Selections,     \* the arguments select-batch is run with, without the --paid files
  Splits,         \* --max-transfers, --first-transfers (0: not given) and --expect-count of build
  Own,            \* the addresses of the Safe and of the token
  Foreign,        \* contents that somebody else proposes
  MaxRounds       \* bound on the payments built

VARIABLES
  selection,      \* the files of the last select-batch, with its arguments
  folders         \* the payments built, in order: [rows, split, txs]

roundVars == <<selection, folders>>

NoSelection == [args |-> <<>>]

\* The list as select-batch and build read it.
TheList(files) == LET read == read_rows(files, TRUE) IN
                  IF read.ok THEN consolidate(read.out, "input", FALSE) ELSE Refused

-----------------------------------------------------------------------------
(* safe_batch.py build and verify *)

Transfer(row) == <<row.address, row.amount>>

\* Sizes of the transactions: an optional small first one, then near-equal ones.
split_sizes(count, max_transfers, first) ==
  LET head == IF first = 0 THEN <<>> ELSE <<IF first < count THEN first ELSE count>>
      left == count - (IF first = 0 THEN 0 ELSE head[1])
      parts == (left + max_transfers - 1) \div max_transfers
  IN  IF left = 0 THEN head
      ELSE head \o [k \in 1 .. parts |-> left \div parts + (IF k <= left % parts THEN 1 ELSE 0)]

\* slices and build_transactions: each transaction takes the next rows of the list.
build_transactions(rows, sizes) ==
  LET Start(k) == FoldLeft(LAMBDA x, y : x + y, 0, SubSeq(sizes, 1, k - 1))
  IN  [k \in DOMAIN sizes |->
         [j \in 1 .. sizes[k] |-> Transfer(rows[Start(k) + j])]]

\* What cmd_build writes.
BuildFolder(rows, split) ==
  [rows |-> rows, split |-> split,
   txs |-> build_transactions(rows, split_sizes(Len(rows), split.max, split.first))]

\* cmd_verify: everything is recomputed from recipients.csv.
verify_offline(folder) ==
  LET sizes == [k \in DOMAIN folder.txs |-> Len(folder.txs[k])] IN
  /\ NoDuplicates(folder.rows)
  /\ sizes = split_sizes(Len(folder.rows), folder.split.max, folder.split.first)
  /\ folder.txs = build_transactions(folder.rows, sizes)

-----------------------------------------------------------------------------
Init_ ==
  /\ Init
  /\ selection = NoSelection
  /\ folders = <<>>

\* The recipients.csv of the transactions that the Safe executed.
PaidFiles ==
  {tx \in UNION {ToSet(folders[k].txs) : k \in DOMAIN folders} :
     \E i \in Id : status[i] = "ok" /\ content[i] = tx}

AsRows(tx) == [j \in DOMAIN tx |-> [address |-> tx[j][1], amount |-> tx[j][2]]]

\* select-batch, with --paid for some of the executed transactions: the operator may forget others.
Select(files, choice) ==
  /\ selection = NoSelection
  /\ Len(folders) < MaxRounds
  /\ \E given \in SUBSET PaidFiles :
       LET args == [paid |-> [k \in 1 .. Cardinality(given) |-> AsRows(SetToSeq(given)[k])],
                    hold |-> choice.hold, include |-> choice.include, budget |-> choice.budget,
                    max_recipients |-> choice.max_recipients, strategy |-> choice.strategy,
                    tiers |-> choice.tiers, draw_value |-> choice.draw_value]
       IN  \E list \in {TheList(files)} :
           \E made \in {IF list.ok THEN select_batch(list.out, args) ELSE Refused} :
           /\ made.ok
           /\ selection' = [args |-> args, list |-> list.out,
                            selected |-> made.out.selected, remaining |-> made.out.remaining]
  /\ UNCHANGED <<vars, folders>>

\* cmd_build refuses a list without rows, one that pays the Safe or the token, and one that does
\* not have the expected number of recipients.
Build(split) ==
  /\ selection # NoSelection
  /\ selection.selected # <<>>
  /\ Addresses(selection.selected) \cap Own = {}
  /\ split.expect = Len(selection.selected)
  /\ folders' = Append(folders, BuildFolder(selection.selected, split))
  /\ selection' = NoSelection
  /\ UNCHANGED vars

\* The selection is thrown away, and another is made.
Discard ==
  /\ selection # NoSelection
  /\ selection' = NoSelection
  /\ UNCHANGED <<vars, folders>>

\* A transaction of a verified payment is proposed, at the nonce the web app offers or another.
ProposePayment(i, n) ==
  /\ \E k \in DOMAIN folders :
       /\ \E tx \in ToSet(folders[k].txs) : Propose(i, n, tx)
       /\ verify_offline(folders[k])
  /\ UNCHANGED roundVars

\* read_sheet: the sheet a review compares a payment with.
SheetOf(rows) == [a \in Addresses(rows) |-> (CHOOSE row \in ToSet(rows) : row.address = a).amount]

Review(r) ==
  /\ \/ ReadInfo(r)
     \/ ReadRecords(r)
     \/ \E k \in DOMAIN folders, hashes \in SUBSET Id : Verdict(r, SheetOf(folders[k].rows), hashes)
     \/ \E sheet \in Sheets, hashes \in SUBSET Id : Verdict(r, sheet, hashes)
  /\ UNCHANGED roundVars

\* What build does depends on nothing that happens at the Safe after the selection, so the Safe
\* rests in between; a round is prepared while no review is under way.
Next_ ==
  \/ /\ \A r \in Reviewer : phase[r] = "idle"
     /\ \E files \in Lists, choice \in Selections : Select(files, choice)
  \/ \E split \in Splits : Build(split)
  \/ Discard
  \/ /\ selection = NoSelection
     /\ \/ \E i \in Id, n \in 0 .. MaxNonce : ProposePayment(i, n)
        \/ \E i \in Id, n \in 0 .. MaxNonce, c \in Foreign : Propose(i, n, c) /\ UNCHANGED roundVars
        \/ \E i \in Id, outcome \in {"ok", "failed"} : Execute(i, outcome) /\ UNCHANGED roundVars
        \/ \E r \in Reviewer : Review(r)

PaymentSpec == Init_ /\ [][Next_]_<<vars, roundVars>>

-----------------------------------------------------------------------------
(* Properties. *)

\* The candidates a selection left out although they were neither held nor paid.
LeftOut == SelectSeq(selection.remaining, LAMBDA row : row.address \notin selection.args.hold)

\* A selection stays within the budget and the number of recipients, pays nobody a part, and uses
\* what it may: with smallest-first no choice of the candidates reaches more recipients, and with
\* the other strategies of the loop nobody that was left out would still fit.  Who was paid and who
\* remains are the rest of the list, each recipient once, also when a wallet was held or required.
SelectionUsesTheBudget ==
  selection # NoSelection =>
    LET args == selection.args
        selected == selection.selected
        candidates == Candidates(selection.list, args)
        Fits(rows) == /\ Within(TotalOf(Forced(selection.list, args)) + MapThenSumSet(LAMBDA row : row.amount, rows),
                                args.budget)
                      /\ Within(Len(args.include) + Cardinality(rows), args.max_recipients)
        chosen == ToSet(selected) \ ToSet(Forced(selection.list, args))
    IN  /\ Fits(chosen)
        /\ NoDuplicates(PaidRows(selection.list, args) \o selected \o selection.remaining)
        /\ ToSet(PaidRows(selection.list, args) \o selected \o selection.remaining) = ToSet(selection.list)
        /\ args.strategy = "smallest-first" =>
             \A rows \in SUBSET ToSet(candidates) : Fits(rows) => Cardinality(rows) <= Cardinality(chosen)
        /\ args.strategy \in {"largest-first", "input"} =>
             \A row \in ToSet(LeftOut) : ~Fits(chosen \cup {row})
        /\ args.strategy = "random" =>
             \A row \in ToSet(LeftOut) : \/ ~Fits(chosen \cup {row})
                                         \/ tier_of(row.amount, args.tiers) = "none"
                                         \/ LET tier == tier_of(row.amount, args.tiers)
                                            IN  Cardinality({x \in chosen : tier_of(x.amount, args.tiers) = tier})
                                                  = args.tiers.counts[tier]
=============================================================================
