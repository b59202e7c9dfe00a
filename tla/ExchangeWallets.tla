--------------------------- MODULE ExchangeWallets ---------------------------
(***************************************************************************)
(* normalize-exchange-wallets.py: what the exchanges sent in, in eight     *)
(* formats, becomes one file of wallets per exchange.  A submission is     *)
(*   [mode, format           from the policy                               *)
(*    received               is there a raw file                           *)
(*    wallets                address -> [shard0, shard1], as submitted     *)
(*    declared               the total the sender's own total row states   *)
(*    signed                 address -> [by, names]: who signed the        *)
(*                           message of the row, the addresses it names    *)
(*    marked                 rows marked as signed (one format)            *)
(*    rolledBack, withdrawn, declaredTo   (one format)                     *)
(*    supplement             addresses sent in later, by hand              *)
(*    destination            role -> address, or NoFile]                   *)
(* Cells, spreadsheets, signature recovery and address spellings are left  *)
(* out: the wallets of a submission are the addresses its cells decode to. *)
(***************************************************************************)
EXTENDS NativeClaims

CONSTANT NoFile

Submitted(s) == [a \in DOMAIN s.wallets |-> s.wallets[a].shard0 + s.wallets[a].shard1]

SubmittedTotal(s) == MapThenSumSet(LAMBDA a : Submitted(s)[a], DOMAIN s.wallets)

\* The rows of a parser: a submitted balance, and whether the wallet authorised the delivery.
Parsed(s, balances, verified) ==
    [a \in DOMAIN s.wallets |-> [balance |-> balances[a], verified |-> a \in verified]]

NoBalances(s) == [a \in DOMAIN s.wallets |-> 0]

\* destination_status and parse_destination_lines: [to, staking, status].
Destination(to, staking, status) == [to |-> to, staking |-> staking, status |-> status]

destination_status(s) ==
    LET roles == s.destination IN
    IF s.mode = "same_address" THEN Result(TRUE, Destination("", "", "same_address"))
    ELSE IF roles = NoFile THEN Result(TRUE, Destination("", "", "missing_file"))
    ELSE IF DOMAIN roles = {} THEN Result(TRUE, Destination("", "", "blank"))
    ELSE IF s.mode = "aggregate_split"
    THEN Result(/\ DOMAIN roles = {"wallet", "staking"}
                /\ roles["wallet"] # roles["staking"],
                Destination(roles["wallet"], roles["staking"], "configured"))
    ELSE Result(DOMAIN roles = {"aggregate"}, Destination(roles["aggregate"], "", "configured"))

-----------------------------------------------------------------------------
\* One operator per format.  A format that carries authorisations cannot be read before the
\* destination is known.
parse_xlsx_address(s) == Result(TRUE, Parsed(s, NoBalances(s), {}))

parse_txt_address_list(s) == Result(DOMAIN s.wallets # {}, Parsed(s, NoBalances(s), {}))

parse_okx(s) ==
    Result(\A a \in DOMAIN s.wallets : Submitted(s)[a] > 0, Parsed(s, Submitted(s), {}))

parse_bybit(s) ==
    Result(/\ \A a \in DOMAIN s.wallets : Submitted(s)[a] > 0
           /\ s.declared = SubmittedTotal(s),
           Parsed(s, Submitted(s), {}))

\* recover_eip191_address and message_addresses: the wallet signed a message that names the
\* destination and no other address.
Authorised(s, a, to) ==
    /\ a \in DOMAIN s.signed
    /\ s.signed[a].by = a
    /\ s.signed[a].names = {to}

parse_mexc(s, to) ==
    Result(/\ to # ""
           /\ \A a \in DOMAIN s.wallets : Submitted(s)[a] > 0 /\ Authorised(s, a, to),
           Parsed(s, Submitted(s), DOMAIN s.wallets))

parse_eip191_statement(s, to) ==
    Result(/\ to # ""
           /\ DOMAIN s.wallets # {}
           /\ \A a \in DOMAIN s.wallets : Authorised(s, a, to),
           Parsed(s, NoBalances(s), DOMAIN s.wallets))

\* parse_kucoin_authorizations: one message for all rows, every signature its row's own.
KucoinAuthorizations(s, to) ==
    /\ DOMAIN s.signed # {}
    /\ \A a \in DOMAIN s.signed : Authorised(s, a, to)

\* kucoin_summary_metadata: the total of the workbook's third sheet.
KucoinTotals(s) == s.declared = SubmittedTotal(s)

\* parse_kucoin: two sheets are added up; the signatures are those of the marked rows.
parse_kucoin(s, to) ==
    Result(/\ to # ""
           /\ KucoinAuthorizations(s, to)
           /\ s.marked \subseteq DOMAIN s.wallets
           /\ DOMAIN s.signed = s.marked
           /\ KucoinTotals(s),
           Parsed(s, Submitted(s), s.marked))

\* parse_digitalx: deposits that the rollback undid are part of the stated total, and no
\* part of the inventory.
parse_digitalx(s, to) ==
    Result(/\ to # "" /\ s.declaredTo = to
           /\ s.withdrawn = 0
           /\ s.declared = SubmittedTotal(s) + s.rolledBack,
           Parsed(s, Submitted(s), {}))

Parse(s, to) ==
    CASE s.format = "xlsx_address" -> parse_xlsx_address(s)
      [] s.format = "txt_address_list" -> parse_txt_address_list(s)
      [] s.format = "csv_okx_atto" -> parse_okx(s)
      [] s.format = "csv_bybit_amount" -> parse_bybit(s)
      [] s.format = "xlsx_mexc_eip191" -> parse_mexc(s, to)
      [] s.format = "txt_eip191_statement" -> parse_eip191_statement(s, to)
      [] s.format = "xlsx_kucoin_eip191" -> parse_kucoin(s, to)
      [] s.format = "xlsx_digitalx_summary" -> parse_digitalx(s, to)

\* Mistaken variant of Inventory: the supplement is not read.
InventoryAsSent(s) ==
    LET place == destination_status(s)
        parsed == IF s.received THEN Parse(s, place.out.to) ELSE Result(TRUE, <<>>)
    IN  IF ~ (place.ok /\ parsed.ok) THEN Refused
        ELSE Result(TRUE, [a \in DOMAIN parsed.out |->
                 [balance |-> parsed.out[a].balance, verified |-> parsed.out[a].verified,
                  to |-> place.out.to, staking |-> place.out.staking, status |-> place.out.status]])

\* A turn of main's loop: the rows of one exchange.  An address in the raw file and in the
\* supplement is a duplicate.
Inventory(s) ==
    LET place == destination_status(s)
        parsed == IF s.received THEN Parse(s, place.out.to) ELSE Result(TRUE, <<>>)
        Row(r) == [balance |-> r.balance, verified |-> r.verified, to |-> place.out.to,
                   staking |-> place.out.staking, status |-> place.out.status]
    IN  IF ~ (place.ok /\ parsed.ok /\ s.supplement \cap DOMAIN parsed.out = {}) THEN Refused
        ELSE Result(TRUE, [a \in DOMAIN parsed.out \cup s.supplement |->
                 Row(IF a \in s.supplement THEN [balance |-> 0, verified |-> FALSE]
                     ELSE parsed.out[a])])

\* The exchanges are taken in the order of the policy, and each file is in place before the
\* next submission is read: a refusal leaves the files of the exchanges before it.
NormalizedInTurn(order, rows) ==
    LET Fits(i) == /\ rows[order[i]].ok
                   /\ \A j \in 1 .. i - 1 :
                        DOMAIN rows[order[j]].out \cap DOMAIN rows[order[i]].out = {}
        done == {i \in 1 .. Len(order) : \A j \in 1 .. i : Fits(j)}
    IN  [i \in 1 .. Cardinality(done) |-> [exchange |-> order[i], rows |-> rows[order[i]].out]]

Normalized(order, submissions) == NormalizedInTurn(order, [e \in Range(order) |-> Inventory(submissions[e])])

\* The summary, written last: passed unless an inventory or a destination is missing.
NormalizationSummary(submissions, files) ==
    LET Place(e) == destination_status(submissions[e]).out IN
    [status |-> IF \A e \in DOMAIN files :
                     submissions[e].received /\ Place(e).status \notin {"blank", "missing_file"}
                THEN "passed" ELSE "hold",
     exchanges |-> [e \in DOMAIN files |->
        [output |-> files[e], mode |-> submissions[e].mode, received |-> submissions[e].received,
         to |-> Place(e).to, staking |-> Place(e).staking, status |-> Place(e).status,
         submitted |-> Total(files[e], LAMBDA r : r.balance)]]]
=============================================================================
