----------------------------- MODULE ActivityRun -----------------------------
(***************************************************************************)
(* The activity scans as an operator runs them: two shards, each scanned   *)
(* in chunks with a checkpoint, killed at any step and started again; the  *)
(* candidate file may grow in between, and the added candidates are then   *)
(* scanned alone and joined.  A scan has three places on disk:             *)
(*   "base"    a scan of the candidate file                                *)
(*   "added"   a scan of the candidates that "base" does not have          *)
(*   "joined"  the two of them                                             *)
(* A file is None or its content, and a hash is the content.               *)
(***************************************************************************)
EXTENDS Activity

CONSTANTS
    Address,    \* numbers, in the order of their keys
    Chunk,      \* --chunk-size
    Worlds,     \* what may have happened: [history, directional, rejected]
    MaxKills,   \* bound: how often a program is killed
    MaxEdits,   \* bound: how often the candidate file is written anew
    None        \* no file

ASSUME RunAssumption == Chunk \in Nat \ {0} /\ Address \subseteq Nat

\* A node lists a history newest first.
NewestFirst(entries) ==
    \A i, j \in DOMAIN entries : i < j => entries[j].time <= entries[i].time

ASSUME WorldsAssumption ==
    \A w \in Worlds : \A a \in Address :
        /\ \A s \in {0, 1} : \A spec \in source_specs(s) :
             /\ w.history[a][s][spec] \in Seq([time : Nat, block : Nat, id : Nat, canonical : BOOLEAN])
             /\ NewestFirst(w.history[a][s][spec])
        /\ IsFiniteSet(w.directional[a])
        /\ w.directional[a] \subseteq [time : Nat, shard : {0, 1}, block : Nat, id : Nat, canonical : BOOLEAN]

Scan == {<<"base", 0>>, <<"base", 1>>, <<"added", 0>>, <<"added", 1>>}
Place == {"base", "added", "joined"}

VARIABLES
    history,        \* address -> shard -> type -> entries
    found,          \* what a scan of it answers: the history does not change
    directional,    \* address -> set of events
    rejected,       \* reviewed entries [shard, address, id]
    candidates,     \* the qualified ledger: address -> its amount
    increment,      \* the file `prepare' writes
    checkpoint,     \* Scan -> None or [of, rows]
    output,         \* <<place, shard>> -> None or address -> event
    summary,        \* <<place, shard>> -> None or [of, out]
    extra,          \* the directional activity: None or [of, rows]
    enriched,       \* None or address -> event
    enrichedSummary,\* None or [input, out]
    partial,        \* places whose `.partial' a killed run left
    running,        \* None, or the scan at work with its candidate file
    kills, edits

vars == <<history, found, directional, rejected, candidates, increment, checkpoint, output, summary,
          extra, enriched, enrichedSummary, partial, running, kills, edits>>

inputs == <<history, found, directional, rejected>>
joins == <<increment, extra, enriched, enrichedSummary>>

\* The input a scan is started on.
Input(scan) == IF scan[1] = "base" THEN candidates ELSE increment

\* None, or what a program reads: the output, if its summary holds its hash.
Matches(place, shard) ==
    /\ output[<<place, shard>>] # None
    /\ summary[<<place, shard>>] # None
    /\ summary[<<place, shard>>].out = output[<<place, shard>>]

Scanned(place, shard, file) == Matches(place, shard) /\ summary[<<place, shard>>].of = file

Read(place, shard) ==
    [of |-> summary[<<place, shard>>].of, rows |-> output[<<place, shard>>], shard |-> shard]

Init ==
    /\ \E w \in Worlds : /\ history = w.history
                        /\ directional = w.directional
                        /\ rejected = w.rejected
                        /\ found = [a \in Address |-> [s \in {0, 1} |->
                                       ScanAddress(s, w.history[a][s])]]
    /\ candidates = [a \in Address \ {Max(Address)} |-> 1]
    /\ increment = None
    /\ checkpoint = [s \in Scan |-> None]
    /\ output = [p \in Place \X {0, 1} |-> None]
    /\ summary = [p \in Place \X {0, 1} |-> None]
    /\ extra = None /\ enriched = None /\ enrichedSummary = None
    /\ partial = {} /\ running = None /\ kills = 0 /\ edits = 0

-----------------------------------------------------------------------------
\* The qualified ledger is built anew: an address is added, or an amount changes.
Edit ==
    /\ edits < MaxEdits
    /\ candidates' \in {[a \in Address |-> 1], [candidates EXCEPT ![Min(Address)] = 2]}
    /\ edits' = edits + 1
    /\ UNCHANGED <<inputs, joins, checkpoint, output, summary, partial, running, kills>>

\* load_checkpoint, and the records it may hold.
load_checkpoint(scan) ==
    checkpoint[scan] # None =>
        /\ checkpoint[scan].of = Input(scan)
        /\ DOMAIN checkpoint[scan].rows \subseteq DOMAIN Input(scan)

\* fetch-account-activity up to its loop; --replace is given.  The operator scans shard 0
\* first, and starts no scan that is already there.
Start(scan) ==
    /\ running = None
    /\ ~ Scanned(scan[1], scan[2], Input(scan))
    /\ scan[2] = 1 => Scanned(scan[1], 0, Input(scan))
    /\ scan \notin partial
    /\ Input(scan) # None
    /\ load_checkpoint(scan)
    /\ running' = [scan |-> scan, of |-> Input(scan), step |-> "scan",
                   rows |-> IF checkpoint[scan] = None THEN <<>> ELSE checkpoint[scan].rows]
    /\ UNCHANGED <<inputs, joins, candidates, checkpoint, output, summary, partial, kills, edits>>

Todo == DOMAIN running.of \ DOMAIN running.rows

\* The next chunk, in the order of the file.
NextChunk == {a \in Todo : Cardinality({b \in Todo : b < a}) < Chunk}

\* A chunk: every address of it is scanned, then the checkpoint is replaced.
ScanChunk ==
    /\ running # None /\ running.step = "scan" /\ Todo # {}
    /\ LET shard == running.scan[2]
           rows == [a \in NextChunk \cup DOMAIN running.rows |->
                       IF a \in NextChunk THEN found[a][shard].out ELSE running.rows[a]]
       IN  IF \A a \in NextChunk : found[a][shard].ok
           THEN /\ running' = [running EXCEPT !.rows = rows]
                /\ checkpoint' = [checkpoint EXCEPT ![running.scan] = [of |-> running.of, rows |-> rows]]
           ELSE running' = None /\ UNCHANGED checkpoint
    /\ UNCHANGED <<inputs, joins, candidates, output, summary, partial, kills, edits>>

\* write_output reads the candidate file again; a row it has no record of ends the program
\* and leaves the `.partial'.
write_output ==
    /\ running # None /\ running.step = "scan" /\ Todo = {}
    /\ IF DOMAIN Input(running.scan) \subseteq DOMAIN running.rows
       THEN /\ output' = [output EXCEPT ![running.scan] =
                             [a \in DOMAIN Input(running.scan) |-> running.rows[a]]]
            /\ running' = [running EXCEPT !.step = "summary"]
            /\ UNCHANGED partial
       ELSE /\ partial' = partial \cup {running.scan}
            /\ running' = None
            /\ UNCHANGED output
    /\ UNCHANGED <<inputs, joins, candidates, checkpoint, summary, kills, edits>>

WriteSummary ==
    /\ running # None /\ running.step = "summary"
    /\ summary' = [summary EXCEPT ![running.scan] = [of |-> running.of, out |-> output[running.scan]]]
    /\ running' = None
    /\ UNCHANGED <<inputs, joins, candidates, checkpoint, output, partial, kills, edits>>

\* The program ends early: killed, or an RPC answer it does not accept.  A kill while the
\* output is written leaves its `.partial'.
Kill ==
    /\ running # None /\ kills < MaxKills
    /\ running' = None
    /\ partial' \in {partial} \cup (IF running.step = "scan" /\ Todo = {}
                                           THEN {partial \cup {running.scan}} ELSE {})
    /\ kills' = kills + 1
    /\ UNCHANGED <<inputs, joins, candidates, checkpoint, output, summary, edits>>

\* The operator removes what stops the next run: a left `.partial', a checkpoint of
\* another candidate file.
CleanUp(scan) ==
    /\ running = None
    /\ \/ /\ scan \in partial
          /\ partial' = partial \ {scan}
          /\ UNCHANGED checkpoint
       \/ /\ Input(scan) # None /\ ~ load_checkpoint(scan)
          /\ checkpoint' = [checkpoint EXCEPT ![scan] = None]
          /\ UNCHANGED partial
    /\ UNCHANGED <<inputs, joins, candidates, output, summary, running, kills, edits>>

-----------------------------------------------------------------------------
\* The short programs write an output and then its summary; `whole' is FALSE when they are
\* killed in between.
Ends(whole) == IF whole THEN kills' = kills ELSE kills < MaxKills /\ kills' = kills + 1

\* extend-account-activity prepare; the operator moved earlier files aside.
Prepare ==
    /\ running = None
    /\ Matches("base", 1) /\ ~ Scanned("base", 1, candidates)
    /\ increment' = prepare(candidates, output[<<"base", 0>>])
    /\ increment' # increment
    /\ UNCHANGED <<inputs, extra, enriched, enrichedSummary, candidates, checkpoint, output,
                   summary, partial, running, kills, edits>>

\* extend-account-activity merge, --replace given.
Merge(shard) ==
    /\ running = None
    /\ Matches("base", shard) /\ Matches("added", shard)
    /\ LET result == merge(candidates, Read("base", shard), Read("added", shard)) IN
       /\ result.ok
       /\ ~ (Matches("joined", shard) /\ Read("joined", shard) = result.out)
       /\ output' = [output EXCEPT ![<<"joined", shard>>] = result.out.rows]
       /\ \E whole \in BOOLEAN :
            /\ Ends(whole)
            /\ summary' = IF whole THEN [summary EXCEPT ![<<"joined", shard>>] =
                                           [of |-> result.out.of, out |-> result.out.rows]]
                          ELSE summary
    /\ UNCHANGED <<inputs, joins, candidates, checkpoint, partial, running, edits>>

\* build-directional-activity, --replace given.
Directional ==
    /\ running = None
    /\ Scanned("base", 1, candidates) \/ Scanned("joined", 1, candidates)
    /\ LET result == build_directional_activity(candidates, directional) IN
       result.ok /\ extra' = result.out /\ extra' # extra
    /\ UNCHANGED <<inputs, increment, enriched, enrichedSummary, candidates, checkpoint, output,
                   summary, partial, running, kills, edits>>

\* enrich-claim-activity, --replace given, on the scans in `place'.
Enrich(place) ==
    /\ running = None
    /\ extra # None
    /\ \A s \in {0, 1} : Matches(place, s)
    /\ LET result == enrich_claim_activity(candidates, [s \in {0, 1} |-> Read(place, s)],
                                           rejected, extra) IN
       /\ result.ok
       /\ enrichedSummary # [input |-> candidates, out |-> result.out] \/ enriched # result.out
       /\ enriched' = result.out
       /\ \E whole \in BOOLEAN :
            /\ Ends(whole)
            /\ enrichedSummary' = IF whole THEN [input |-> candidates, out |-> result.out]
                                  ELSE enrichedSummary
    /\ UNCHANGED <<inputs, increment, extra, candidates, checkpoint, output, summary, partial,
                   running, edits>>

\* What the programs and the operator do, as against what befalls them.
Work ==
    \/ ScanChunk \/ write_output \/ WriteSummary
    \/ \E scan \in Scan : Start(scan) \/ CleanUp(scan)
    \/ Prepare \/ Directional
    \/ \E shard \in {0, 1} : Merge(shard)
    \/ \E place \in {"base", "joined"} : Enrich(place)

Next == Work \/ Edit \/ Kill

\* The operator carries on while something is left to do.
Fairness == WF_vars(Work)

Spec == Init /\ [][Next]_vars /\ Fairness

-----------------------------------------------------------------------------
\* All records of a history that count, however long it is.
Usable(a, shard) ==
    UNION {UNION {transaction_activity(shard, history[a][shard][spec][i]) :
                      i \in DOMAIN history[a][shard][spec]} : spec \in source_specs(shard)}

Kept(a, shard) ==
    IF \E r \in rejected : r.shard = shard /\ r.address = a THEN {}
    ELSE {Latest(Usable(a, shard))}

\* The activity that decides the stage of an address is the latest of everything known of
\* it: the whole history on both shards, less the reviewed rejections, and the directional
\* events.  Paging, the checkpoint, a run that was killed, a scan joined from two, and a
\* candidate file written anew in between never make an address look older or younger
\* (collect_source, merge and write_enriched).
EnrichedIsLatest ==
    enriched # None =>
        \A a \in DOMAIN enriched :
            enriched[a].time = Max({e.time : e \in Kept(a, 0) \cup Kept(a, 1)
                                                 \cup directional[a] \cup {NoActivity}})

\* Every history ends within the pages the scan asks for.
Short ==
    \A a \in Address : \A s \in {0, 1} : \A spec \in source_specs(s) :
        Len(history[a][s][spec]) < PageSize * MaxPages

\* However often a scan is killed and whatever changes in the candidate file, the operator
\* ends with an activity file for the candidates that are on disk, with its summary: no left
\* `.partial' or checkpoint and no scan of an earlier file stops the chain for good.
ActivityGetsKnown ==
    Short => <>[](enrichedSummary = [input |-> candidates, out |-> enriched])
=============================================================================
