----------------------------- MODULE ArchiveScan -----------------------------
(***************************************************************************)
(* The resumable stages of the transaction archive: scan-blocks.py reads a *)
(* range of blocks in tasks, trace-internal.py traces the blocks the scan  *)
(* marked, and build-archive.py takes the two for one run.                 *)
(*                                                                         *)
(* Each stage appends what a worker read to its CSV files, one after the   *)
(* other, and then notes the task as done; an attempt that stops anywhere  *)
(* is continued by another one, which skips what is noted.  The node may   *)
(* change its chain above Fork at any moment.  A block is a number and the *)
(* branch it is on; every block gives one row of each file it belongs to.  *)
(***************************************************************************)
EXTENDS Integers, FiniteSetsExt, Sequences

CONSTANTS
    End,        \* the last block of the range, which begins at 1
    step,       \* blocks of a task
    Fork,       \* the last block both branches share
    Marked,     \* the blocks with something to trace
    MaxStops,   \* bound: attempts that are stopped from outside
    MaxTears    \* bound: stops that leave the last line of a file unfinished

Number == 1..End
Branch == {"old", "new"}

ASSUME ScanAssumption ==
    /\ End \in Nat \ {0} /\ step \in Nat \ {0} /\ Fork \in Nat
    /\ Marked \subseteq Number /\ MaxStops \in Nat /\ MaxTears \in Nat

\* A block by its hash.
Hash(n, b) == [number |-> n, branch |-> IF n <= Fork THEN "shared" ELSE b]

\* A task is named by its first block.
Task == {n \in Number : (n - 1) % step = 0}

TaskEnd(t) == IF t + step - 1 < End THEN t + step - 1 ELSE End

VARIABLES
    node,     \* the branch the node is on
    stage,    \* stage.json of each stage: "none", "open", "complete"
    csv,      \* file -> the blocks with a row in it
    torn,     \* files whose last line is unfinished, "done" for done.jsonl
    glued,    \* files in which a row was appended to an unfinished line
    segments, \* done.jsonl: task -> the branch it was read on, or "none"
    traced,   \* done.txt: the blocks noted as traced
    job,      \* the stage that runs, or "none"
    todo,     \* its tasks (scan) or blocks (trace) that are not yet dealt with
    read,     \* those of them a worker has read -> the outcome
    unit,     \* the one being written, or 0
    left,     \* the files still to be written for it
    failures, \* blocks whose trace failed in this attempt
    untraced, \* stage.json of the trace: the blocks it went without
    stops, tears

vars == <<node, stage, csv, torn, glued, segments, traced, job, todo, read, unit,
          left, failures, untraced, stops, tears>>
files == <<csv, torn, glued, segments, traced>>
bounds == <<stops, tears>>

\* The files of a stage in the order they are written; staking transactions
\* and cross-shard blocks go to files of their own like the transactions.
FilesOf(j) == IF j = "scan" THEN <<"tx", "trace">> ELSE <<"internal", "stats">>
File == {"tx", "trace", "internal", "stats"}

\* trace-internal.candidates
Candidates == {h.number : h \in csv["trace"]}

Units(j) == IF j = "scan" THEN Task ELSE Candidates
Done(j) == IF j = "scan" THEN {t \in Task : segments[t] # "none"} ELSE traced

Init ==
    /\ node = "old"
    /\ stage = [j \in {"scan", "trace"} |-> "none"]
    /\ csv = [f \in File |-> {}] /\ torn = {} /\ glued = {}
    /\ segments = [t \in Task |-> "none"] /\ traced = {}
    /\ job = "none" /\ todo = {} /\ read = <<>> /\ unit = 0 /\ left = <<>>
    /\ failures = {} /\ untraced = {} /\ stops = 0 /\ tears = 0

-----------------------------------------------------------------------------
\* The attempt is over, and with it what it had in memory.
Ended == job' = "none" /\ todo' = {} /\ read' = <<>> /\ unit' = 0 /\ left' = <<>> /\ failures' = {}

\* open_stage, for the first time or with --resume, and what is noted as done:
\* the scan can not read a done.jsonl with an unfinished line.
Start(j) ==
    /\ job = "none"
    /\ stage[j] # "complete"
    /\ IF j = "scan" THEN "done" \notin torn ELSE stage["scan"] = "complete"
    /\ stage' = [stage EXCEPT ![j] = "open"]
    /\ job' = j
    /\ todo' = Units(j) \ Done(j)
    /\ read' = <<>> /\ unit' = 0 /\ left' = <<>> /\ failures' = {}
    /\ UNCHANGED <<node, files, untraced, bounds>>

\* A worker reads a task: all of it on one branch, or its links do not hold.
Scan(t) ==
    /\ job = "scan" /\ t \in todo \ DOMAIN read
    /\ read' = [u \in DOMAIN read \cup {t} |-> IF u = t THEN node ELSE read[u]]
    /\ UNCHANGED <<node, stage, files, job, todo, unit, left, failures, untraced, bounds>>

\* A worker traces a block by its number, or fails to.
Trace(n, outcome) ==
    /\ job = "trace" /\ n \in todo \ DOMAIN read
    /\ read' = [u \in DOMAIN read \cup {n} |-> IF u = n THEN outcome ELSE read[u]]
    /\ UNCHANGED <<node, stage, files, job, todo, unit, left, failures, untraced, bounds>>

\* Mistaken variant of Take: the task is noted as done before its files are written.
TakeAndNote(u) ==
    /\ unit = 0 /\ u \in todo \cap DOMAIN read
    /\ IF read[u] = "failed"
       THEN /\ failures' = failures \cup {u}
            /\ todo' = todo \ {u}
            /\ UNCHANGED <<unit, left, segments>>
       ELSE /\ unit' = u /\ left' = FilesOf(job)
            /\ segments' = IF job = "scan" THEN [segments EXCEPT ![u] = read[u]] ELSE segments
            /\ UNCHANGED <<failures, todo>>
    /\ UNCHANGED <<node, stage, csv, torn, glued, traced, job, read, untraced, bounds>>

\* The main process takes a result: of the scan in any order, of the trace in
\* the order --interleave gives, which may be any.
Take(u) ==
    /\ unit = 0 /\ u \in todo \cap DOMAIN read
    /\ IF read[u] = "failed"
       THEN /\ failures' = failures \cup {u}
            /\ todo' = todo \ {u}
            /\ UNCHANGED <<unit, left>>
       ELSE /\ unit' = u /\ left' = FilesOf(job)
            /\ UNCHANGED <<failures, todo>>
    /\ UNCHANGED <<node, stage, files, job, read, untraced, bounds>>

\* The rows of the present result in file f.
Rows(f) ==
    LET range == IF job = "scan" THEN unit..TaskEnd(unit) ELSE {unit} IN
    {Hash(n, read[unit]) : n \in IF f = "trace" THEN range \cap Marked ELSE range}

FirstRow(rows) == {CHOOSE h \in rows : \A g \in rows : h.number <= g.number}

\* AppendCsv.write and flush, cut off in the middle of a line or not.  Whatever
\* is appended to an unfinished line becomes part of it: the first row is lost.
\* What such a line reads as, at worst one more block to trace, is left out.
Appended(f, rows, cut) ==
    LET glues == f \in torn /\ rows # {} IN
    /\ csv' = [csv EXCEPT ![f] = @ \cup (IF glues THEN rows \ FirstRow(rows) ELSE rows)]
    /\ glued' = IF glues THEN glued \cup {f} ELSE glued
    /\ torn' = (IF rows # {} THEN torn \ {f} ELSE torn) \cup (IF cut THEN {f} ELSE {})

Write ==
    /\ unit # 0 /\ left # <<>>
    /\ Appended(Head(left), Rows(Head(left)), FALSE)
    /\ left' = Tail(left)
    /\ UNCHANGED <<node, stage, segments, traced, job, todo, read, unit, failures, untraced, bounds>>

\* The line in done.jsonl, or in done.txt.
Note ==
    /\ unit # 0 /\ left = <<>>
    /\ IF job = "scan"
       THEN segments' = [segments EXCEPT ![unit] = read[unit]] /\ UNCHANGED traced
       ELSE traced' = traced \cup {unit} /\ UNCHANGED segments
    /\ todo' = todo \ {unit} /\ unit' = 0
    /\ UNCHANGED <<node, stage, csv, torn, glued, job, read, left, failures, untraced, bounds>>

\* Mistaken variant of Continuous: the links between tasks are not compared.
NoGaps == \A t \in Task : segments[t] # "none"

\* verify_continuity: the tasks follow on one another by number and by hash.
Continuous ==
    /\ \A t \in Task : segments[t] # "none"
    /\ \A t \in Task \ {1} :
         Hash(t - 1, segments[t]) = Hash(TaskEnd(t - step), segments[t - step])

\* All tasks are written: the scan checks the chain, and completes or stops.
FinishScan ==
    /\ job = "scan" /\ todo = {}
    /\ stage' = [stage EXCEPT !["scan"] = IF Continuous THEN "complete" ELSE @]
    /\ Ended
    /\ UNCHANGED <<node, files, untraced, bounds>>

\* Mistaken variant of Counted: the blocks of block-stats.csv are not compared with the marked ones.
Uncounted(allow) == failures = {} \/ allow

\* Mistaken variant of Counted: only the blocks this attempt traced are counted.
CountedHere(allow) ==
    /\ failures = {} \/ allow
    /\ DOMAIN read = Candidates

\* The failed blocks may be left out only with --allow-untraceable, and every
\* marked block must be counted in block-stats.csv or be left out.
Counted(allow) ==
    /\ failures = {} \/ allow
    /\ {h.number : h \in csv["stats"]} \cup failures = Candidates

FinishTrace(allow) ==
    /\ job = "trace" /\ todo = {}
    /\ IF Counted(allow)
       THEN stage' = [stage EXCEPT !["trace"] = "complete"] /\ untraced' = failures
       ELSE UNCHANGED <<stage, untraced>>
    /\ Ended
    /\ UNCHANGED <<node, files, bounds>>

-----------------------------------------------------------------------------
\* The attempt is stopped from outside or by an error of the node.  What a write
\* has brought to the disk so far stays: the first rows, and with cut a part of
\* the next one.
Stop(cut) ==
    /\ job # "none" /\ stops < MaxStops
    /\ stops' = stops + 1
    /\ IF cut THEN tears < MaxTears /\ tears' = tears + 1 ELSE UNCHANGED tears
    /\ IF unit # 0 /\ left # <<>>
       THEN LET f == Head(left) IN
            \E k \in 0..End : LET rows == {h \in Rows(f) : h.number <= k} IN
                /\ cut => rows # Rows(f)
                /\ Appended(f, rows, cut)
       ELSE ~cut /\ UNCHANGED <<csv, torn, glued>>
    /\ Ended
    /\ UNCHANGED <<node, stage, segments, traced, untraced>>

\* It is stopped in the middle of the line that notes a task as done.  A number
\* in done.txt that is cut short reads as another number.
TearNote(n) ==
    /\ unit # 0 /\ left = <<>>
    /\ stops < MaxStops /\ tears < MaxTears
    /\ stops' = stops + 1 /\ tears' = tears + 1
    /\ IF job = "scan" THEN torn' = torn \cup {"done"} /\ UNCHANGED traced
                       ELSE traced' = traced \cup {n} /\ UNCHANGED torn
    /\ Ended
    /\ UNCHANGED <<node, stage, csv, glued, segments, untraced>>

\* The node leaves the blocks above Fork and follows the other branch.
Reorganise ==
    /\ node = "old"
    /\ node' = "new"
    /\ UNCHANGED <<stage, files, job, todo, read, unit, left, failures, untraced, bounds>>

Work ==
    \/ \E u \in Number : Scan(u) \/ Trace(u, node) \/ Take(u)
    \/ Write \/ Note \/ FinishScan

Next ==
    \/ \E j \in {"scan", "trace"} : Start(j)
    \/ Work
    \/ \E u \in Number : Trace(u, "failed") \/ TearNote(u)
    \/ \E allow \in BOOLEAN : FinishTrace(allow)
    \/ \E cut \in BOOLEAN : Stop(cut)
    \/ Reorganise

Spec == Init /\ [][Next]_vars

\* An attempt runs on, and is repeated; traces do not fail for ever.
Fairness ==
    /\ \A j \in {"scan", "trace"} : WF_vars(Start(j))
    /\ WF_vars(Work) /\ WF_vars(FinishTrace(FALSE))
    /\ <>[][\A u \in Number : ~Trace(u, "failed")]_vars
FairSpec == Spec /\ Fairness

-----------------------------------------------------------------------------
(***************************************************************************)
(* Properties.                                                             *)
(***************************************************************************)
\* A complete scan has the rows of every block of one chain, however often it
\* was stopped and continued and whatever the node did, unless a row was
\* appended to an unfinished line.
ScanIsComplete ==
    stage["scan"] = "complete" =>
        \E b \in Branch : \A n \in Number :
            /\ "tx" \notin glued => Hash(n, b) \in csv["tx"]
            /\ "trace" \notin glued /\ n \in Marked => Hash(n, b) \in csv["trace"]

\* "The finished run checks the links between tasks, so a run is one connected
\* chain": no row of a scan that nobody had to continue is of another one.
OneChain ==
    stage["scan"] = "complete" /\ stops = 0 =>
        \E b \in Branch : \A f \in {"tx", "trace"} : \A h \in csv[f] : h = Hash(h.number, b)

\* A complete trace has the rows of every marked block but the ones it lists
\* as untraced, unless a row was appended to an unfinished line of them.
TraceIsComplete ==
    stage["trace"] = "complete" /\ "internal" \notin glued =>
        \A n \in Candidates \ untraced : \E h \in csv["internal"] : h.number = n

\* Repeating the stages with --resume completes the run, unless the node left
\* the chain that was being read or a line was torn.
RunGetsDone ==
    <>(stage["trace"] = "complete" \/ node = "new" \/ tears > 0)
=============================================================================
