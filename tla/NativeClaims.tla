---------------------------- MODULE NativeClaims ----------------------------
(***************************************************************************)
(* The native claim ledger: what an address owned at the cutoff.           *)
(*   actual-supply-ledger.py       one row per address, from the states of *)
(*                                 the two shards, the staking state and   *)
(*                                 the receipts still under way            *)
(*   format-all-claims.py          the same rows, recomputed               *)
(*   enrich-claim-metadata-rpc.py  the code of the addresses that shard 0  *)
(*                                 does not list                           *)
(* A program is an operator: what it would write, or Refused where it      *)
(* raises before it replaces its output.  A file of rows is a function of  *)
(* the address, so the order of the rows, duplicates and the agreement of  *)
(* address and key are left out, as are prices and decimal renderings.     *)
(***************************************************************************)
EXTENDS Integers, FiniteSets, SequencesExt

CONSTANTS
    Minimum,    \* the threshold of the migration, 1,000 ONE
    WONE,       \* the contract of the wrapped coin
    LayerZero,  \* the two bridge collateral contracts
    Excluded    \* the addresses given with --exclude-address to the WONE overlay

ASSUME ClaimsAssumption ==
    /\ Minimum \in Nat \ {0}
    /\ WONE \notin LayerZero
    /\ LayerZero \subseteq Excluded

Refused == [ok |-> FALSE]

Result(ok, out) == IF ok THEN [ok |-> TRUE, out |-> out] ELSE Refused

At(f, a) == IF a \in DOMAIN f THEN f[a] ELSE 0

\* The sum of a field over a file.
Total(rows, field(_)) == MapThenSumSet(LAMBDA a : field(rows[a]), DOMAIN rows)

-----------------------------------------------------------------------------
(***************************************************************************)
(* actual-supply-ledger.  A chain is                                       *)
(*   [shard0, shard1  address -> [balance, code],                          *)
(*    staking         address -> [active, undelegation, reward],           *)
(*    receipts        set of [to, amount, group],                          *)
(*    pending         what the receipt report says they add up to,         *)
(*    coverage        whether the report covers all of history]            *)
(***************************************************************************)
load_pending_receipts(chain) ==
    [a \in {r.to : r \in chain.receipts} |->
        MapThenSumSet(LAMBDA r : r.amount, {r \in chain.receipts : r.to = a})]

\* int_field: an absent row counts zero, and an absent account has no code hash.
Field(file, a, field) ==
    IF a \in DOMAIN file THEN file[a][field] ELSE IF field = "code" THEN "" ELSE 0

\* Mistaken variant of LedgerRow: the receipts under way are not the wallet's yet.
LedgerRowWithoutReceipts(chain, a) ==
    LET l0 == Field(chain.shard0, a, "balance")
        l1 == Field(chain.shard1, a, "balance")
        undelegation == Field(chain.staking, a, "undelegation")
        reward == Field(chain.staking, a, "reward")
        active == Field(chain.staking, a, "active")
        wallet == l0 + l1 + undelegation + reward
    IN  [l0 |-> l0, l1 |-> l1, undelegation |-> undelegation, reward |-> reward,
         receipt |-> 0, wallet |-> wallet, staked |-> active, total |-> wallet + active,
         code0 |-> Field(chain.shard0, a, "code"), code1 |-> Field(chain.shard1, a, "code")]

\* A turn of the four-way merge.
LedgerRow(chain, a) ==
    LET l0 == Field(chain.shard0, a, "balance")
        l1 == Field(chain.shard1, a, "balance")
        undelegation == Field(chain.staking, a, "undelegation")
        reward == Field(chain.staking, a, "reward")
        active == Field(chain.staking, a, "active")
        receipt == At(load_pending_receipts(chain), a)
        wallet == l0 + l1 + undelegation + reward + receipt
    IN  [l0 |-> l0, l1 |-> l1, undelegation |-> undelegation, reward |-> reward,
         receipt |-> receipt, wallet |-> wallet, staked |-> active, total |-> wallet + active,
         code0 |-> Field(chain.shard0, a, "code"), code1 |-> Field(chain.shard1, a, "code")]

actual_supply_ledger(chain) ==
    LET keys == DOMAIN chain.shard0 \cup DOMAIN chain.shard1 \cup DOMAIN chain.staking
                \cup {r.to : r \in chain.receipts}
        rows == [a \in keys |-> LedgerRow(chain, a)]
    IN  Result(/\ chain.pending = MapThenSumSet(LAMBDA r : r.amount, chain.receipts)
               /\ \A a \in keys : rows[a].total > 0,
               rows)

-----------------------------------------------------------------------------
\* format-all-claims recomputes every total of the ledger it renders.
format_all_claims(ledger) ==
    Result(\A a \in DOMAIN ledger :
             LET r == ledger[a] IN
             /\ r.l0 + r.l1 + r.undelegation + r.reward + r.receipt = r.wallet
             /\ r.wallet + r.staked = r.total,
           ledger)

\* enrich-claim-metadata: `codes' is the cache, or what the RPC answers for the rows asked.
enrich_claim_metadata(native, codes) ==
    LET asked == {a \in DOMAIN native : native[a].code0 = ""}
    IN  Result(asked \subseteq DOMAIN codes,
               [a \in DOMAIN native |->
                    IF a \in asked THEN [native[a] EXCEPT !.code0 = codes[a]] ELSE native[a]])

\* code_bearing: some shard has code at the address; shard 0 must have been asked.
code_bearing(r) == r.code0 = "code" \/ r.code1 = "code"
=============================================================================
