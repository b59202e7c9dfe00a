------------------------------ MODULE Activity ------------------------------
(***************************************************************************)
(* The last activity of every qualified address.                           *)
(*   fetch-account-activity-rpc.py  pages through a node's history         *)
(*   extend-account-activity.py     joins a scan of added candidates to an *)
(*                                  earlier scan                           *)
(*   build-directional-activity.py  a second source, both directions       *)
(*   enrich-claim-activity.py       the latest of all of them, per row     *)
(*   summarize-claim-activity.py    totals per window of months            *)
(* An event is [time, shard, block, id]; times are positive and id stands  *)
(* for the position, type, detail and hash that break ties.                *)
(***************************************************************************)
EXTENDS Integers, Sequences, FiniteSetsExt

CONSTANTS
    PageSize,       \* entries a node lists per page
    MaxPages,       \* pages the scan is willing to ask for
    CutoffBlock,    \* shard -> block of the cutoff
    CutoffTime      \* the time of the cutoff

ASSUME ActivityAssumption ==
    /\ PageSize \in Nat \ {0} /\ MaxPages \in Nat \ {0} /\ CutoffTime \in Nat
    /\ CutoffBlock \in [{0, 1} -> Nat]

\* What a program gives: an output, or Refused where it ends with an error.
Refused == [ok |-> FALSE]

Result(ok, out) == IF ok THEN [ok |-> TRUE, out |-> out] ELSE Refused

NoActivity == [time |-> 0, shard |-> 0, block |-> 0, id |-> 0]

\* activity_sort_key: time, shard, block, then what is left.
Before(e, f) ==
    \/ e.time < f.time
    \/ e.time = f.time /\ e.shard < f.shard
    \/ e.time = f.time /\ e.shard = f.shard /\ e.block < f.block
    \/ e.time = f.time /\ e.shard = f.shard /\ e.block = f.block /\ e.id < f.id

Latest(events) ==
    IF events = {} THEN NoActivity
    ELSE CHOOSE e \in events : \A f \in events : ~ Before(e, f)

-----------------------------------------------------------------------------
(***************************************************************************)
(* fetch-account-activity.  A history is a sequence of entries             *)
(* [time, block, id, canonical], newest first: the node lists them page by *)
(* page, and an entry whose block is no longer canonical stays listed.     *)
(***************************************************************************)
\* transaction_activity and the canonical check: what a listed entry counts for.
transaction_activity(shard, entry) ==
    IF /\ entry.block <= CutoffBlock[shard]
       /\ entry.time <= CutoffTime
       /\ entry.canonical
    THEN {[time |-> entry.time, shard |-> shard, block |-> entry.block, id |-> entry.id]}
    ELSE {}

Page(history, p) ==
    SubSeq(history, p * PageSize + 1, Min({(p + 1) * PageSize, Len(history)}))

OnPage(shard, history, p) ==
    UNION {transaction_activity(shard, Page(history, p)[i]) : i \in DOMAIN Page(history, p)}

\* Mistaken variant of collect_source: a page with nothing usable ends the history.
FirstPageOnly(shard, history) ==
    Result(TRUE, Latest(OnPage(shard, history, 0)))

\* The pages are read until one has an activity or is short; Refused past MaxPages.
collect_source(shard, history) ==
    LET Stop(p) == OnPage(shard, history, p) # {} \/ Len(Page(history, p)) < PageSize
        stops == {p \in 0 .. MaxPages - 1 : Stop(p)}
    IN  IF stops = {} THEN Refused
        ELSE Result(TRUE, Latest(OnPage(shard, history, Min(stops))))

\* combine: regular transactions, and on shard 0 staking transactions as well.
source_specs(shard) == IF shard = 0 THEN {"regular", "staking"} ELSE {"regular"}

combine(found) == Latest({r \in found : r # NoActivity})

\* One address of a chunk: every source of the shard, or Refused.
ScanAddress(shard, histories) ==
    LET results == {collect_source(shard, histories[spec]) : spec \in source_specs(shard)}
    IN  Result(\A r \in results : r.ok, combine({r.out : r \in results}))

-----------------------------------------------------------------------------
\* A scan is [of, rows, shard]: `of' is the candidate file whose hash its summary holds,
\* rows a function of the address.  A candidate file is a function of the address too:
\* its amounts are part of its hash.

\* extend-account-activity prepare: the candidates an earlier scan does not have.  The
\* file is in place before the row counts are compared.
prepare(candidates, existing) ==
    [a \in DOMAIN candidates \ DOMAIN existing |-> candidates[a]]

\* extend-account-activity merge.
merge(candidates, existing, added) ==
    LET both == DOMAIN existing.rows \cup DOMAIN added.rows IN
    Result(/\ DOMAIN existing.rows \cap DOMAIN added.rows = {}
           /\ both = DOMAIN candidates
           /\ existing.shard = added.shard,
           [of |-> candidates, shard |-> existing.shard,
            rows |-> [a \in both |->
                         IF a \in DOMAIN existing.rows THEN existing.rows[a] ELSE added.rows[a]]])

(***************************************************************************)
(* build-directional-activity: per address the newest transaction it       *)
(* signed and the newest sent to it, each an event with `canonical'.       *)
(***************************************************************************)
latest_event(events) ==
    IF events = {} THEN {}
    ELSE {CHOOSE e \in events : \A f \in events : ~ Before(e, f)}

\* resolve refuses an event that the canonical chain does not have at its block.
build_directional_activity(candidates, directional) ==
    LET chosen == [a \in DOMAIN candidates \cap DOMAIN directional |-> latest_event(directional[a])] IN
    Result(/\ DOMAIN candidates \subseteq DOMAIN directional
           /\ \A a \in DOMAIN candidates : \A e \in chosen[a] :
                e.block <= CutoffBlock[e.shard] /\ e.time <= CutoffTime /\ e.canonical,
           [of |-> candidates,
            rows |-> [a \in DOMAIN candidates |->
                Latest({[time |-> e.time, shard |-> e.shard, block |-> e.block, id |-> e.id]
                            : e \in chosen[a]})]])

-----------------------------------------------------------------------------
\* Mistaken variant of LoadScan: an activity in the block of the cutoff is refused.
LoadScanBefore(scan, candidates, shard) ==
    /\ scan.of = candidates
    /\ scan.shard = shard
    /\ \A a \in DOMAIN scan.rows : LET e == scan.rows[a] IN
          e = NoActivity \/ (/\ e.shard = shard
                             /\ e.block < CutoffBlock[shard]
                             /\ e.time <= CutoffTime)

\* load_scan_summary and load_activity: the scan is of these candidates, on this shard,
\* and no record of it is later than the cutoff.
LoadScan(scan, candidates, shard) ==
    /\ scan.of = candidates
    /\ scan.shard = shard
    /\ \A a \in DOMAIN scan.rows : LET e == scan.rows[a] IN
          e = NoActivity \/ (/\ e.shard = shard
                             /\ e.block <= CutoffBlock[shard]
                             /\ e.time <= CutoffTime)

LoadSupplement(extra, candidates) ==
    /\ extra.of = candidates
    /\ \A a \in DOMAIN extra.rows : LET e == extra.rows[a] IN
          e = NoActivity \/ (e.block <= CutoffBlock[e.shard] /\ e.time <= CutoffTime)

\* apply_rejections: reviewed entries [shard, address, id] are blanked; each must be there.
RejectionsApply(rejected, scans) ==
    \A r \in rejected : /\ r.address \in DOMAIN scans[r.shard].rows
                        /\ scans[r.shard].rows[r.address] # NoActivity
                        /\ scans[r.shard].rows[r.address].id = r.id

apply_rejections(rejected, scans, shard, a) ==
    IF \E r \in rejected : r.shard = shard /\ r.address = a
    THEN NoActivity ELSE scans[shard].rows[a]

select_activity(records) == Latest({r \in records : r # NoActivity})

\* write_enriched: the supplement wins only when it is strictly later.
Enriched(rejected, scans, extra, a) ==
    LET selected == select_activity({apply_rejections(rejected, scans, s, a) : s \in {0, 1}})
        other == extra.rows[a]
    IN  IF other.time > selected.time THEN other ELSE selected

\* enrich-claim-activity over the rows of the qualified ledger.
enrich_claim_activity(candidates, scans, rejected, extra) ==
    Result(/\ \A s \in {0, 1} : LoadScan(scans[s], candidates, s)
           /\ DOMAIN scans[0].rows = DOMAIN scans[1].rows
           /\ RejectionsApply(rejected, scans)
           /\ LoadSupplement(extra, candidates)
           /\ DOMAIN extra.rows = DOMAIN scans[0].rows
           /\ DOMAIN candidates = DOMAIN scans[0].rows,
           [a \in DOMAIN candidates |-> Enriched(rejected, scans, extra, a)])
=============================================================================
