------------------------- MODULE ArchiveScanProofs -------------------------
(***************************************************************************)
(* What the archive's stages guarantee, for every range, task size, set of *)
(* marked blocks and number of stops: a complete scan has the rows of all  *)
(* blocks of one chain, and a complete trace those of all marked blocks.   *)
(*                                                                         *)
(* The argument has two parts.  The inductive invariant IInv says that a   *)
(* task is noted only after its rows are in the files and that rows are    *)
(* never lost; and tasks whose ends link by hash lie on one branch, which  *)
(* is proved from the least task that would be on another one.             *)
(***************************************************************************)
EXTENDS ArchiveScan, WellFoundedInduction, NaturalsInduction, TLAPS

-----------------------------------------------------------------------------
(***************************************************************************)
(* The tasks.                                                              *)
(***************************************************************************)
\* A number that leaves no remainder is a multiple.
LEMMA Multiple ==
    ASSUME NEW s \in Nat \ {0}, NEW a \in Nat, a % s = 0
    PROVE  \E p \in Nat : a = s * p
<1>1. a % s = a - s * (a \div s)
  BY SMTT(30)
<1>2. a \div s \in Nat
  OBVIOUS
<1>3. s * (a \div s) = a
  BY <1>1, <1>2
<1> QED
  BY Zenon, <1>2, <1>3

\* Multiples are a step apart, and a step down from one is another.
LEMMA Apart ==
    ASSUME NEW s \in Nat \ {0}, NEW a \in Nat, NEW b \in Nat, a % s = 0, b % s = 0, a < b
    PROVE  a + s <= b /\ (b - s) % s = 0
<1>1. PICK p \in Nat : a = s * p
  BY Zenon, Multiple
<1>2. PICK q \in Nat : b = s * q
  BY Zenon, Multiple
<1>3. q >= p + 1
  BY <1>1, <1>2
<1>4. a + s <= b
  BY <1>1, <1>2, <1>3
<1>5. b - s = s * (q - 1)
  BY <1>2
<1>6. (b - s) % s = 0
  BY <1>2, <1>5
<1> QED
  BY Zenon, <1>4, <1>6

\* Every block is of a task: the tasks cover the range.
LEMMA InATask ==
    ASSUME NEW n \in Number
    PROVE  \E t \in Task : n \in t..TaskEnd(t)
<1>1. n \in Nat /\ n <= End /\ n - 1 \in Nat /\ step \in Nat \ {0} /\ End \in Nat
  BY ScanAssumption DEF Number
<1>2. PICK r \in 0..(step - 1) : r <= n - 1 /\ (n - 1 - r) % step = 0
  <2>1. ASSUME NEW m \in Nat
        PROVE  m % step \in 0..(step - 1) /\ m % step <= m /\ (m - (m % step)) % step = 0
    <3>1. m % step = m - step * (m \div step)
      BY <1>1, SMTT(30)
    <3>2. m \div step \in Nat
      BY <1>1
    <3>3. m - (m % step) = step * (m \div step)
      BY <1>1, <3>1, <3>2
    <3>4. \A q \in Nat : (step * q) % step = 0
      BY <1>1
    <3>5. (m - (m % step)) % step = 0
      BY Zenon, <3>2, <3>3, <3>4
    <3>6. m % step \in 0..(step - 1) /\ m % step <= m
      BY <1>1
    <3> QED
      BY Zenon, <3>5, <3>6
  <2> DEFINE r == (n - 1) % step
  <2>2. r \in 0..(step - 1) /\ r <= n - 1 /\ (n - 1 - r) % step = 0
    BY Zenon, <1>1, <2>1
  <2> HIDE DEF r
  <2> QED
    BY Zenon, <2>2
<1> DEFINE t == n - r
<1>3. t - 1 = n - 1 - r
  BY <1>1
<1>4. t \in Task
  BY <1>1, <1>2, <1>3 DEF Task, Number
<1>5. n \in t..TaskEnd(t)
  BY <1>1, <1>2 DEF TaskEnd
<1> QED
  BY Zenon, <1>4, <1>5

\* Between a task and a later one lies the one before the later one, which
\* ends where the later one begins.
LEMMA TaskBefore ==
    ASSUME NEW t \in Task, NEW u \in Task, t < u
    PROVE  /\ u - step \in Task /\ t <= u - step /\ u - step < u
           /\ TaskEnd(u - step) = u - 1 /\ TaskEnd(t) <= u - 1
<1>1. t \in Nat /\ u \in Nat /\ t - 1 \in Nat /\ u - 1 \in Nat /\ step \in Nat \ {0} /\ t - 1 < u - 1 /\ End \in Nat
  BY ScanAssumption DEF Task, Number
<1>2. (t - 1) % step = 0 /\ (u - 1) % step = 0
  BY Zenon DEF Task
<1>3. (t - 1) + step <= u - 1 /\ (u - 1 - step) % step = 0
  BY Zenon, <1>1, <1>2, Apart
<1>4. u - 1 - step = (u - step) - 1
  BY <1>1
<1>5. u - step \in Number
  BY <1>1, <1>3 DEF Task, Number
<1>6. u - step \in Task
  BY Zenon, <1>3, <1>4, <1>5 DEF Task
<1>7. t <= u - step /\ u - step < u /\ u - 1 < End
  BY <1>1, <1>3 DEF Task, Number
<1> QED
  BY <1>1, <1>6, <1>7 DEF TaskEnd

\* A set of naturals that is not empty has a least member.
LEMMA Least ==
    ASSUME NEW S \in SUBSET Nat, S # {}
    PROVE  \E x \in S : \A y \in S : x <= y
<1>1. IsWellFoundedOn({p \in Nat \X Nat : p[1] < p[2]}, Nat)
  BY Zenon, NatLessThanWellFounded DEF OpToRel
<1>2. PICK x \in S : \A y \in S : ~(<<y, x>> \in {p \in Nat \X Nat : p[1] < p[2]})
  BY Zenon, <1>1, WFMin
<1>3. ASSUME NEW y \in S, y < x
      PROVE  FALSE
  <2>1. <<y, x>> \in Nat \X Nat /\ <<y, x>>[1] < <<y, x>>[2]
    BY Zenon, <1>3
  <2> QED
    BY Zenon, <1>2, <2>1
<1> QED
  BY <1>3

-----------------------------------------------------------------------------
(***************************************************************************)
(* The inductive invariant.                                                *)
(***************************************************************************)
Block == {Hash(n, b) : n \in Number, b \in Branch}

TypeOK ==
    /\ node \in Branch
    /\ stage \in [{"scan", "trace"} -> {"none", "open", "complete"}]
    /\ csv \in [File -> SUBSET Block]
    /\ torn \subseteq File \cup {"done"} /\ glued \subseteq File
    /\ segments \in [Task -> Branch \cup {"none"}]
    /\ traced \subseteq Number
    /\ job \in {"none", "scan", "trace"}
    /\ todo \subseteq Number
    /\ DOMAIN read \subseteq Number /\ \A u \in DOMAIN read : read[u] \in Branch \cup {"failed"}
    /\ unit \in Number \cup {0}
    /\ failures \subseteq Number /\ untraced \subseteq Number
    /\ stops \in Nat /\ tears \in Nat

\* One result at a time is written, of an attempt that runs and that has not
\* yet dealt with it; its files are written in their order.
OneAtATime ==
    /\ unit = 0 => left = <<>>
    /\ unit # 0 =>
         /\ unit \in todo \cap DOMAIN read /\ read[unit] \in Branch
         /\ \/ job = "scan" /\ left \in {<<"tx", "trace">>, <<"trace">>, <<>>}
            \/ job = "trace" /\ left \in {<<"internal", "stats">>, <<"stats">>, <<>>}

\* A stage that is complete is not run again, the trace follows the scan, and
\* the scan does not repeat a task that is noted.
StagesInOrder ==
    /\ job = "none" => todo = {}
    /\ job = "scan" => stage["scan"] # "complete" /\ todo \subseteq Task \ Done("scan")
    /\ job = "trace" => stage["scan"] = "complete" /\ stage["trace"] # "complete"
    /\ stage["trace"] = "complete" => stage["scan"] = "complete"
    /\ stage["scan"] = "complete" => Continuous

\* The rows of task t, read on branch b, are in file f, unless one was glued.
Written(f, t, b) ==
    f \notin glued =>
        \A n \in t..TaskEnd(t) : (f = "trace" => n \in Marked) => Hash(n, b) \in csv[f]

\* What is noted was written before, and what is written is not lost.
NotedIsWritten ==
    /\ \A t \in Task : segments[t] # "none" =>
         Written("tx", t, segments[t]) /\ Written("trace", t, segments[t])
    /\ unit # 0 /\ job = "scan" =>
         /\ left # <<"tx", "trace">> => Written("tx", unit, read[unit])
         /\ left = <<>> => Written("trace", unit, read[unit])

\* Block h is of task t, read on branch b.
Of(h, t, b) == h.number \in t..TaskEnd(t) /\ h = Hash(h.number, b)

\* Without a stop, a row is of a task that is noted or that is being written.
RowsHaveTasks ==
    stops = 0 => \A f \in {"tx", "trace"} : \A h \in csv[f] :
        \/ \E t \in Task : segments[t] # "none" /\ Of(h, t, segments[t])
        \/ unit # 0 /\ job = "scan" /\ Of(h, unit, read[unit])

\* A block that is counted has its rows, which are written before.
Traced(n) == \E h \in csv["internal"] : h.number = n
CountedIsTraced ==
    "internal" \notin glued =>
        /\ \A h \in csv["stats"] : Traced(h.number)
        /\ unit # 0 /\ job = "trace" /\ left # <<"internal", "stats">> => Traced(unit)

\* What a complete trace has counted and left out is all that was marked.
AllCounted ==
    stage["trace"] = "complete" =>
        \A n \in Candidates : n \in untraced \/ \E h \in csv["stats"] : h.number = n

IInv ==
    /\ TypeOK /\ OneAtATime /\ StagesInOrder /\ NotedIsWritten
    /\ RowsHaveTasks /\ CountedIsTraced /\ AllCounted

-----------------------------------------------------------------------------
(***************************************************************************)
(* The steps preserve it.                                                  *)
(***************************************************************************)
\* The rows of a result: one of each block of it that the file is about.
LEMMA RowsOfTheUnit ==
    ASSUME TypeOK, OneAtATime, StagesInOrder, unit # 0, NEW f \in File
    PROVE  /\ Rows(f) \subseteq Block
           /\ job = "scan" =>
                /\ unit \in Task
                /\ \A h \in Rows(f) : Of(h, unit, read[unit])
                /\ \A n \in unit..TaskEnd(unit) :
                     (f = "trace" => n \in Marked) => Hash(n, read[unit]) \in Rows(f)
           /\ job = "trace" /\ f # "trace" => Rows(f) = {Hash(unit, read[unit])}
<1>1. unit \in Number /\ read[unit] \in Branch
  BY Zenon DEF OneAtATime, TypeOK
<1>2. \A n \in unit..TaskEnd(unit) : n \in Number
  BY <1>1, ScanAssumption DEF TaskEnd, Number
<1>3. \A n \in Number : Hash(n, read[unit]) \in Block /\ Hash(n, read[unit]).number = n
  BY <1>1 DEF Block, Hash
<1>4. CASE job = "scan"
  <2>1. unit \in Task
    BY Zenon, <1>4 DEF OneAtATime, StagesInOrder
  <2>2. Rows(f) = {Hash(n, read[unit]) : n \in IF f = "trace" THEN (unit..TaskEnd(unit)) \cap Marked
                                                             ELSE unit..TaskEnd(unit)}
    BY Zenon, <1>4 DEF Rows
  <2> QED
    BY Zenon, <1>2, <1>3, <1>4, <2>1, <2>2 DEF Of
<1>5. CASE job = "trace"
  <2>1. Rows(f) = {Hash(n, read[unit]) : n \in IF f = "trace" THEN {unit} \cap Marked ELSE {unit}}
    BY Zenon, <1>5 DEF Rows
  <2> QED
    BY Zenon, <1>1, <1>3, <1>5, <2>1
<1> QED
  BY Zenon, <1>4, <1>5 DEF OneAtATime

\* What is appended to a file: nothing is lost, and all of it is there unless
\* a row was glued.
LEMMA AppendOutcome ==
    ASSUME TypeOK, NEW f \in File, NEW rows \in SUBSET Block, NEW cut,
           Appended(f, rows, cut)
    PROVE  /\ csv' \in [File -> SUBSET Block] /\ torn' \subseteq File \cup {"done"}
           /\ glued' \subseteq File /\ glued \subseteq glued'
           /\ \A g \in File \ {f} : csv'[g] = csv[g]
           /\ csv[f] \subseteq csv'[f] /\ csv'[f] \subseteq csv[f] \cup rows
           /\ f \notin glued' => csv'[f] = csv[f] \cup rows
BY Zenon DEF Appended, TypeOK

\* The first state.
LEMMA InitIInv == Init => IInv
<1> SUFFICES ASSUME Init PROVE IInv
  BY Zenon
<1> USE ScanAssumption DEF Init
<1>1. TypeOK
  BY DEF TypeOK, Branch
<1>2. OneAtATime
  BY Zenon DEF OneAtATime, Branch
<1>3. StagesInOrder
  BY Zenon DEF StagesInOrder, Branch
<1>4. NotedIsWritten
  BY Zenon DEF NotedIsWritten, Branch
<1>5. RowsHaveTasks
  BY Zenon DEF RowsHaveTasks, File, Branch
<1>6. CountedIsTraced
  BY Zenon DEF CountedIsTraced, File, Branch
<1>7. AllCounted
  BY Zenon DEF AllCounted, Branch
<1> QED
  BY Zenon, <1>1, <1>2, <1>3, <1>4, <1>5, <1>6, <1>7 DEF IInv

\* Start preserves the invariant.
LEMMA StartIInv ==
    ASSUME IInv, NEW j \in {"scan", "trace"}, Start(j)
    PROVE  IInv'
<1> USE ScanAssumption DEF IInv, Start, files, bounds, Units
<1>1. TypeOK'
  <2>1. \A h \in Block : h.number \in Number
    BY DEF Block, Hash
  <2>2. Candidates \subseteq Number
    BY <2>1 DEF Candidates, TypeOK, File
  <2>3. Units(j) \subseteq Number
    BY Zenon, <2>2 DEF Task
  <2> QED
    BY <2>3 DEF TypeOK
<1>2. OneAtATime'
  BY Zenon DEF OneAtATime
<1>3. StagesInOrder'
  BY DEF StagesInOrder, Done, Continuous
<1>4. NotedIsWritten'
  BY Zenon DEF NotedIsWritten, Written
<1>5. RowsHaveTasks'
  BY Zenon DEF RowsHaveTasks
<1>6. CountedIsTraced'
  BY Zenon DEF CountedIsTraced, Traced
<1>7. AllCounted'
  BY DEF AllCounted, StagesInOrder
<1> QED
  BY Zenon, <1>1, <1>2, <1>3, <1>4, <1>5, <1>6, <1>7

\* Scan preserves the invariant.
LEMMA ScanIInv ==
    ASSUME IInv, NEW t \in Number, Scan(t)
    PROVE  IInv'
<1> USE ScanAssumption DEF IInv, Scan, files, bounds
<1>1. TypeOK'
  BY Zenon DEF TypeOK
<1>2. OneAtATime'
  BY Zenon DEF OneAtATime
<1>3. StagesInOrder'
  BY Zenon DEF StagesInOrder, Done
<1>4. NotedIsWritten'
  BY Zenon DEF NotedIsWritten, OneAtATime, Written
<1>5. RowsHaveTasks'
  BY Zenon DEF RowsHaveTasks, OneAtATime
<1>6. CountedIsTraced'
  BY Zenon DEF CountedIsTraced, Traced
<1>7. AllCounted'
  BY Zenon DEF AllCounted, StagesInOrder
<1> QED
  BY Zenon, <1>1, <1>2, <1>3, <1>4, <1>5, <1>6, <1>7

\* Trace preserves the invariant.
LEMMA TraceIInv ==
    ASSUME IInv, NEW n \in Number, NEW outcome \in Branch \cup {"failed"}, Trace(n, outcome)
    PROVE  IInv'
<1> USE ScanAssumption DEF IInv, Trace, files, bounds
<1>1. TypeOK'
  BY Zenon DEF TypeOK
<1>2. OneAtATime'
  BY Zenon DEF OneAtATime
<1>3. StagesInOrder'
  BY Zenon DEF StagesInOrder, Continuous
<1>4. NotedIsWritten'
  BY Zenon DEF NotedIsWritten, Written
<1>5. RowsHaveTasks'
  BY Zenon DEF RowsHaveTasks
<1>6. CountedIsTraced'
  BY Zenon DEF CountedIsTraced, Traced
<1>7. AllCounted'
  BY Zenon DEF AllCounted, StagesInOrder
<1> QED
  BY Zenon, <1>1, <1>2, <1>3, <1>4, <1>5, <1>6, <1>7

\* Take preserves the invariant.
LEMMA TakeIInv ==
    ASSUME IInv, NEW u \in Number, Take(u)
    PROVE  IInv'
<1> USE ScanAssumption DEF IInv, Take, files, bounds, FilesOf
<1>1. TypeOK'
  BY Zenon DEF TypeOK
<1>2. OneAtATime'
  <2>1. job \in {"scan", "trace"} /\ u # 0 /\ read[u] \in Branch \cup {"failed"}
    BY DEF TypeOK, StagesInOrder, Number
  <2> QED
    BY Zenon, <2>1 DEF OneAtATime
<1>3. StagesInOrder'
  BY Zenon DEF StagesInOrder, Done, Continuous
<1>4. NotedIsWritten'
  BY SMTT(30) DEF NotedIsWritten, Written
<1>5. RowsHaveTasks'
  BY Zenon DEF RowsHaveTasks
<1>6. CountedIsTraced'
  BY Zenon DEF CountedIsTraced, Traced
<1>7. AllCounted'
  BY Zenon DEF AllCounted, TypeOK, StagesInOrder
<1> QED
  BY Zenon, <1>1, <1>2, <1>3, <1>4, <1>5, <1>6, <1>7

\* Note preserves the invariant.
LEMMA NoteIInv ==
    ASSUME IInv, Note
    PROVE  IInv'
<1> USE ScanAssumption DEF IInv, Note, bounds
<1>1. TypeOK'
  BY Zenon DEF TypeOK, OneAtATime
<1>2. OneAtATime'
  BY Zenon DEF OneAtATime
<1>3. StagesInOrder'
  BY Zenon DEF StagesInOrder, TypeOK, Done, Continuous
<1>4. NotedIsWritten'
  BY Zenon DEF NotedIsWritten, TypeOK, Written
<1>5. RowsHaveTasks'
  <2> SUFFICES ASSUME stops = 0, NEW f \in {"tx", "trace"}, NEW h \in csv[f]
               PROVE  \E t \in Task : segments'[t] # "none" /\ Of(h, t, segments'[t])
    BY Zenon DEF RowsHaveTasks
  <2>1. CASE \E t \in Task : segments[t] # "none" /\ Of(h, t, segments[t])
    <3>1. PICK t \in Task : segments[t] # "none" /\ Of(h, t, segments[t])
      BY Zenon, <2>1
    <3>2. segments'[t] = segments[t]
      BY Zenon, <3>1 DEF OneAtATime, StagesInOrder, Done, TypeOK
    <3> QED
      BY Zenon, <3>1, <3>2
  <2>2. CASE job = "scan" /\ Of(h, unit, read[unit])
    <3>1. unit \in Task /\ read[unit] # "none"
      BY Zenon, <2>2 DEF OneAtATime, StagesInOrder, Branch
    <3>2. segments'[unit] = read[unit]
      BY Zenon, <2>2, <3>1 DEF TypeOK
    <3> QED
      BY Zenon, <2>2, <3>1, <3>2
  <2> QED
    BY Zenon, <2>1, <2>2 DEF RowsHaveTasks
<1>6. CountedIsTraced'
  BY Zenon DEF CountedIsTraced, Traced
<1>7. AllCounted'
  BY Zenon DEF AllCounted, OneAtATime, StagesInOrder
<1> QED
  BY Zenon, <1>1, <1>2, <1>3, <1>4, <1>5, <1>6, <1>7

\* FinishScan preserves the invariant.
LEMMA FinishScanIInv ==
    ASSUME IInv, FinishScan
    PROVE  IInv'
<1> USE ScanAssumption DEF IInv, FinishScan, Ended, files, bounds
<1>1. TypeOK'
  BY DEF TypeOK
<1>2. OneAtATime'
  BY Zenon DEF OneAtATime
<1>3. StagesInOrder'
  BY DEF StagesInOrder, Continuous
<1>4. NotedIsWritten'
  BY Zenon DEF NotedIsWritten, Written
<1>5. RowsHaveTasks'
  BY Zenon DEF RowsHaveTasks, OneAtATime
<1>6. CountedIsTraced'
  BY Zenon DEF CountedIsTraced, Traced
<1>7. AllCounted'
  BY DEF AllCounted, StagesInOrder
<1> QED
  BY Zenon, <1>1, <1>2, <1>3, <1>4, <1>5, <1>6, <1>7

\* FinishTrace preserves the invariant.
LEMMA FinishTraceIInv ==
    ASSUME IInv, NEW allow \in BOOLEAN, FinishTrace(allow)
    PROVE  IInv'
<1> USE ScanAssumption DEF IInv, FinishTrace, Counted, Ended, files, bounds
<1>1. TypeOK'
  BY DEF TypeOK
<1>2. OneAtATime'
  BY Zenon DEF OneAtATime
<1>3. StagesInOrder'
  BY Zenon DEF StagesInOrder, TypeOK, Continuous
<1>4. NotedIsWritten'
  BY Zenon DEF NotedIsWritten, Written
<1>5. RowsHaveTasks'
  BY Zenon DEF RowsHaveTasks
<1>6. CountedIsTraced'
  BY Zenon DEF CountedIsTraced, Traced
<1>7. AllCounted'
  <2>1. CASE Counted(allow)
    <3>1. ASSUME NEW n \in Candidates, n \notin failures
          PROVE  \E h \in csv["stats"] : h.number = n
      BY Zenon, <2>1, <3>1
    <3>2. untraced' = failures /\ csv' = csv
      BY Zenon, <2>1
    <3> QED
      BY Zenon, <3>1, <3>2 DEF AllCounted, Candidates
  <2>2. CASE ~Counted(allow)
    BY Zenon, <2>2 DEF AllCounted, Candidates
  <2> QED
    BY Zenon, <2>1, <2>2
<1> QED
  BY Zenon, <1>1, <1>2, <1>3, <1>4, <1>5, <1>6, <1>7

\* TearNote preserves the invariant.
LEMMA TearNoteIInv ==
    ASSUME IInv, NEW n \in Number, TearNote(n)
    PROVE  IInv'
<1> USE ScanAssumption DEF IInv, TearNote, Ended
<1>1. TypeOK'
  <2>1. torn' \subseteq File \cup {"done"} /\ traced' \subseteq Number
    BY Zenon DEF TypeOK
  <2>2. stops' \in Nat /\ tears' \in Nat
    BY DEF TypeOK
  <2>3. DOMAIN read' = {}
    OBVIOUS
  <2> QED
    BY Zenon, <2>1, <2>2, <2>3 DEF TypeOK
<1>2. OneAtATime'
  BY Zenon DEF OneAtATime
<1>3. StagesInOrder'
  BY Zenon DEF StagesInOrder, Continuous
<1>4. NotedIsWritten'
  BY Zenon DEF NotedIsWritten, Written
<1>5. RowsHaveTasks'
  BY DEF RowsHaveTasks, TypeOK
<1>6. CountedIsTraced'
  BY Zenon DEF CountedIsTraced, Traced
<1>7. AllCounted'
  BY Zenon DEF AllCounted, OneAtATime, StagesInOrder
<1> QED
  BY Zenon, <1>1, <1>2, <1>3, <1>4, <1>5, <1>6, <1>7

\* Reorganise preserves the invariant.
LEMMA ReorganiseIInv ==
    ASSUME IInv, Reorganise
    PROVE  IInv'
<1> USE ScanAssumption DEF IInv, Reorganise, files, bounds
<1>1. TypeOK'
  BY Zenon DEF TypeOK, Branch
<1>2. OneAtATime'
  BY Zenon DEF OneAtATime
<1>3. StagesInOrder'
  BY Zenon DEF StagesInOrder, Done, Continuous
<1>4. NotedIsWritten'
  BY Zenon DEF NotedIsWritten, Written
<1>5. RowsHaveTasks'
  BY Zenon DEF RowsHaveTasks
<1>6. CountedIsTraced'
  BY Zenon DEF CountedIsTraced, Traced
<1>7. AllCounted'
  BY Zenon DEF AllCounted, Candidates
<1> QED
  BY Zenon, <1>1, <1>2, <1>3, <1>4, <1>5, <1>6, <1>7

\* Write preserves the invariant: the rows of the result come to the next of its files.
LEMMA WriteIInv ==
    ASSUME IInv, Write
    PROVE  IInv'
<1> USE DEF IInv
<1>1. PICK f \in File :
      /\ f = Head(left) /\ unit # 0
      /\ \/ job = "scan" /\ left = <<"tx", "trace">> /\ f = "tx" /\ left' = <<"trace">>
         \/ job = "scan" /\ left = <<"trace">> /\ f = "trace" /\ left' = <<>>
         \/ job = "trace" /\ left = <<"internal", "stats">> /\ f = "internal" /\ left' = <<"stats">>
         \/ job = "trace" /\ left = <<"stats">> /\ f = "stats" /\ left' = <<>>
  <2>1. unit # 0 /\ left # <<>> /\ left' = Tail(left)
    BY Zenon DEF Write
  <2>2. CASE job = "scan" /\ left = <<"tx", "trace">>
    BY <2>1, <2>2 DEF File
  <2>3. CASE job = "scan" /\ left = <<"trace">>
    BY <2>1, <2>3 DEF File
  <2>4. CASE job = "trace" /\ left = <<"internal", "stats">>
    BY <2>1, <2>4 DEF File
  <2>5. CASE job = "trace" /\ left = <<"stats">>
    BY <2>1, <2>5 DEF File
  <2> QED
    BY Zenon, <2>1, <2>2, <2>3, <2>4, <2>5 DEF OneAtATime
<1> DEFINE rows == Rows(f)
<1>2. /\ rows \subseteq Block
      /\ job = "scan" =>
           /\ unit \in Task
           /\ \A h \in rows : Of(h, unit, read[unit])
           /\ \A n \in unit..TaskEnd(unit) :
                (f = "trace" => n \in Marked) => Hash(n, read[unit]) \in rows
      /\ job = "trace" => rows = {Hash(unit, read[unit])}
  BY Zenon, <1>1, RowsOfTheUnit
<1>3. Appended(f, rows, FALSE)
  BY Zenon, <1>1 DEF Write
<1> HIDE DEF rows
<1>4. /\ csv' \in [File -> SUBSET Block] /\ torn' \subseteq File \cup {"done"}
      /\ glued' \subseteq File /\ glued \subseteq glued'
      /\ \A g \in File \ {f} : csv'[g] = csv[g]
      /\ csv[f] \subseteq csv'[f] /\ csv'[f] \subseteq csv[f] \cup rows
      /\ f \notin glued' => csv'[f] = csv[f] \cup rows
  BY Zenon, <1>1, <1>2, <1>3, AppendOutcome
<1>5. UNCHANGED <<node, stage, segments, traced, job, todo, read, unit, failures, untraced, stops, tears>>
  BY Zenon DEF Write, bounds
<1>6. TypeOK'
  BY Zenon, <1>4, <1>5 DEF TypeOK
<1>7. OneAtATime'
  BY Zenon, <1>1, <1>5 DEF OneAtATime
<1>8. StagesInOrder'
  BY Zenon, <1>5 DEF StagesInOrder, Done, Continuous
<1>9. \A g \in File : g \notin glued' => g \notin glued /\ csv[g] \subseteq csv'[g]
  BY Zenon, <1>4
<1>10. NotedIsWritten'
  <2>1. ASSUME NEW t \in Task, segments[t] # "none", NEW g \in {"tx", "trace"}, Written(g, t, segments[t])
        PROVE  Written(g, t, segments[t])'
    BY Zenon, <1>5, <1>9, <2>1 DEF Written, File
  <2>2. ASSUME NEW g \in {"tx", "trace"}, Written(g, unit, read[unit])
        PROVE  Written(g, unit, read[unit])'
    BY Zenon, <1>5, <1>9, <2>2 DEF Written, File
  <2>3. job = "scan" => Written(f, unit, read[unit])'
    BY Zenon, <1>2, <1>4, <1>5 DEF Written
  <2>4. \A t \in Task : segments[t] # "none" =>
          Written("tx", t, segments[t])' /\ Written("trace", t, segments[t])'
    BY Zenon, <2>1 DEF NotedIsWritten
  <2>5. job = "scan" =>
          /\ Written("tx", unit, read[unit])'
          /\ left' = <<>> => Written("trace", unit, read[unit])'
    BY <1>1, <2>2, <2>3 DEF NotedIsWritten
  <2> QED
    BY Zenon, <1>5, <2>4, <2>5 DEF NotedIsWritten
<1>11. RowsHaveTasks'
  <2>1. \A g \in {"tx", "trace"} : \A h \in csv'[g] :
           h \in csv[g] \/ (job = "scan" /\ Of(h, unit, read[unit]))
    <3>1. ASSUME NEW g \in {"tx", "trace"}, NEW h \in csv'[g], h \notin csv[g]
          PROVE  g = f /\ h \in rows
      BY Zenon, <1>4, <3>1 DEF File
    <3> QED
      BY Zenon, <1>1, <1>2, <3>1
  <2> QED
    BY Zenon, <1>1, <1>5, <2>1 DEF RowsHaveTasks
<1>12. CountedIsTraced'
  <2> SUFFICES ASSUME "internal" \notin glued'
               PROVE  /\ \A h \in csv'["stats"] : Traced(h.number)'
                      /\ job = "trace" /\ left' # <<"internal", "stats">> => Traced(unit)'
    BY Zenon, <1>5 DEF CountedIsTraced
  <2>1. ASSUME NEW h \in csv["stats"]
        PROVE  \E g \in csv'["internal"] : g.number = h.number
    BY Zenon, <1>9 DEF CountedIsTraced, Traced, File
  <2>2. job = "trace" => Traced(unit)'
    <3>1. Hash(unit, read[unit]).number = unit
      BY Zenon DEF Hash
    <3>2. CASE job = "trace" /\ f = "internal"
      <4>1. Hash(unit, read[unit]) \in csv'["internal"]
        BY Zenon, <1>2, <1>4, <3>2
      <4> QED
        BY Zenon, <1>5, <3>1, <4>1 DEF Traced
    <3>3. CASE job = "trace" /\ f = "stats"
      <4>1. left # <<"internal", "stats">> /\ Traced(unit)
        BY <1>1, <1>9, <3>3 DEF CountedIsTraced, File
      <4> QED
        BY Zenon, <1>5, <1>9, <4>1 DEF Traced, File
    <3> QED
      BY Zenon, <1>1, <3>2, <3>3
  <2>3. \A h \in csv'["stats"] : h \in csv["stats"] \/ (job = "trace" /\ h.number = unit)
    BY <1>1, <1>2, <1>4 DEF File, Hash
  <2> QED
    BY Zenon, <1>5, <2>1, <2>2, <2>3 DEF Traced
<1>13. AllCounted'
  <2>1. stage["trace"] = "complete" => job # "scan" /\ job # "trace"
    BY Zenon DEF StagesInOrder
  <2> QED
    BY Zenon, <1>1, <1>5, <2>1 DEF AllCounted
<1> QED
  BY Zenon, <1>6, <1>7, <1>8, <1>10, <1>11, <1>12, <1>13

\* Stop preserves the invariant: a part of the rows may have come to the file.
LEMMA StopIInv ==
    ASSUME IInv, NEW cut \in BOOLEAN, Stop(cut)
    PROVE  IInv'
<1> USE DEF IInv
<1>1. /\ job' = "none" /\ todo' = {} /\ read' = <<>> /\ unit' = 0 /\ left' = <<>> /\ failures' = {}
      /\ UNCHANGED <<node, stage, segments, traced, untraced>>
      /\ stops' = stops + 1 /\ tears' \in Nat
  BY DEF Stop, Ended, TypeOK
<1>2. /\ csv' \in [File -> SUBSET Block] /\ torn' \subseteq File \cup {"done"}
      /\ glued' \subseteq File /\ glued \subseteq glued'
      /\ \A g \in File : csv[g] \subseteq csv'[g]
      /\ \/ csv' = csv
         \/ /\ unit # 0 /\ job = "scan"
            /\ csv'["internal"] = csv["internal"] /\ csv'["stats"] = csv["stats"]
         \/ /\ unit # 0 /\ job = "trace" /\ csv'["trace"] = csv["trace"]
            /\ \/ csv'["stats"] = csv["stats"]
               \/ /\ left = <<"stats">> /\ csv'["internal"] = csv["internal"]
                  /\ \A h \in csv'["stats"] : h \in csv["stats"] \/ h.number = unit
  <2>1. CASE unit # 0 /\ left # <<>>
    <3>1. PICK f \in File :
          /\ f = Head(left)
          /\ \/ job = "scan" /\ f \in {"tx", "trace"}
             \/ job = "trace" /\ f = "internal"
             \/ job = "trace" /\ f = "stats" /\ left = <<"stats">>
      BY <2>1 DEF OneAtATime, File
    <3>2. Rows(f) \subseteq Block /\ (job = "trace" => Rows(f) = {Hash(unit, read[unit])})
      BY Zenon, <2>1, <3>1, RowsOfTheUnit
    <3>3. PICK rows \in SUBSET Rows(f) : Appended(f, rows, cut)
      BY Zenon, <2>1, <3>1 DEF Stop
    <3>4. rows \in SUBSET Block /\ TypeOK
      BY Zenon, <3>2
    <3>5. /\ csv' \in [File -> SUBSET Block] /\ torn' \subseteq File \cup {"done"}
          /\ glued' \subseteq File /\ glued \subseteq glued'
          /\ \A g \in File \ {f} : csv'[g] = csv[g]
          /\ csv[f] \subseteq csv'[f] /\ csv'[f] \subseteq csv[f] \cup rows
      BY Zenon, <3>1, <3>3, <3>4, AppendOutcome
    <3>6. job = "trace" => \A h \in rows : h.number = unit
      BY <3>2 DEF Hash
    <3> QED
      BY Zenon, <2>1, <3>1, <3>5, <3>6 DEF File
  <2>2. CASE ~(unit # 0 /\ left # <<>>)
    BY Zenon, <2>2 DEF Stop, TypeOK
  <2> QED
    BY Zenon, <2>1, <2>2
<1>3. TypeOK'
  BY <1>1, <1>2 DEF TypeOK
<1>4. OneAtATime'
  BY Zenon, <1>1 DEF OneAtATime
<1>5. StagesInOrder'
  BY Zenon, <1>1 DEF StagesInOrder, Continuous
<1>6. NotedIsWritten'
  <2>1. ASSUME NEW t \in Task, segments[t] # "none", NEW g \in {"tx", "trace"}, Written(g, t, segments[t])
        PROVE  Written(g, t, segments[t])'
    BY Zenon, <1>1, <1>2, <2>1 DEF Written, File
  <2>2. \A t \in Task : segments[t] # "none" =>
          Written("tx", t, segments[t])' /\ Written("trace", t, segments[t])'
    BY Zenon, <2>1 DEF NotedIsWritten
  <2> QED
    BY Zenon, <1>1, <2>2 DEF NotedIsWritten
<1>7. RowsHaveTasks'
  BY <1>1 DEF RowsHaveTasks, TypeOK
<1>8. CountedIsTraced'
  <2> SUFFICES ASSUME "internal" \notin glued', NEW h \in csv'["stats"]
               PROVE  Traced(h.number)'
    BY Zenon, <1>1 DEF CountedIsTraced
  <2>1. h \in csv["stats"] \/ (unit # 0 /\ job = "trace" /\ left = <<"stats">> /\ h.number = unit)
    BY Zenon, <1>2
  <2>2. left = <<"stats">> => left # <<"internal", "stats">>
    OBVIOUS
  <2>3. Traced(h.number)
    BY Zenon, <1>2, <2>1, <2>2 DEF CountedIsTraced
  <2> QED
    BY Zenon, <1>2, <2>3 DEF Traced, File
<1>9. AllCounted'
  <2>1. stage["trace"] = "complete" => job # "scan" /\ job # "trace"
    BY Zenon DEF StagesInOrder
  <2> QED
    BY Zenon, <1>1, <1>2, <2>1 DEF AllCounted, Candidates
<1> QED
  BY Zenon, <1>3, <1>4, <1>5, <1>6, <1>7, <1>8, <1>9

\* Every step preserves the invariant.
LEMMA NextIInv ==
    ASSUME IInv, [Next]_vars
    PROVE  IInv'
<1>1. CASE Next
  <2>1. \A u \in Number : Trace(u, node) => IInv'
    BY Zenon, TraceIInv DEF IInv, TypeOK
  <2>2. \A u \in Number : Trace(u, "failed") => IInv'
    BY Zenon, TraceIInv
  <2> QED
    BY Zenon, <1>1, <2>1, <2>2, StartIInv, ScanIInv, TakeIInv, WriteIInv, NoteIInv, FinishScanIInv,
       FinishTraceIInv, TearNoteIInv, StopIInv, ReorganiseIInv DEF Next, Work
<1>2. CASE UNCHANGED vars
  BY SMTT(30), <1>2 DEF vars, IInv, TypeOK, OneAtATime, StagesInOrder, NotedIsWritten, RowsHaveTasks,
              CountedIsTraced, AllCounted, Done, Continuous, Candidates, Written, Of, Traced
<1> QED
  BY Zenon, <1>1, <1>2

\* The invariant holds in every state of every behaviour.
THEOREM Invariance == Spec => []IInv
<1>1. Init => IInv
  BY Zenon, InitIInv
<1>2. IInv /\ [Next]_vars => IInv'
  BY Zenon, NextIInv
<1> QED
  BY <1>1, <1>2, PTL DEF Spec

-----------------------------------------------------------------------------
(***************************************************************************)
(* What it says of a run that is complete.                                 *)
(***************************************************************************)
\* Tasks that follow on one another are on one branch from the first block on
\* that the branches do not share.
LEMMA OneBranch ==
    ASSUME Continuous, segments \in [Task -> Branch \cup {"none"}]
    PROVE  \E b \in Branch : \A t \in Task : \A n \in t..TaskEnd(t) :
               Hash(n, segments[t]) = Hash(n, b)
<1> DEFINE Above == {t \in Task : TaskEnd(t) > Fork}
<1>1. Above \subseteq Nat /\ Fork \in Nat /\ End \in Nat
  BY ScanAssumption DEF Task, Number
<1>2. \A t \in Task : segments[t] \in Branch /\ TaskEnd(t) \in Nat
  BY ScanAssumption DEF Continuous, Task, Number, TaskEnd
<1>3. CASE Above = {}
  <2>1. \A t \in Task : \A n \in t..TaskEnd(t) : n <= Fork
    BY <1>1, <1>2, <1>3 DEF Task, Number
  <2>2. \A t \in Task : \A n \in t..TaskEnd(t) : Hash(n, segments[t]) = Hash(n, "old")
    BY Zenon, <2>1 DEF Hash
  <2> QED
    BY Zenon, <2>2 DEF Branch
<1>4. CASE Above # {}
  <2>1. PICK t0 \in Above : \A t \in Above : t0 <= t
    <3> HIDE DEF Above
    <3> QED
      BY Zenon, <1>1, <1>4, Least
  <2> DEFINE Bad == {t \in Above : segments[t] # segments[t0]}
  <2>2. Bad = {}
    <3> SUFFICES ASSUME Bad # {}
                 PROVE  FALSE
      BY Zenon
    <3>1. PICK u \in Bad : \A t \in Bad : u <= t
      <4>1. Bad \subseteq Nat
        BY Zenon, <1>1
      <4> HIDE DEF Bad
      <4> QED
        BY Zenon, <4>1, Least
    <3>2. u \in Task /\ t0 \in Task /\ t0 < u
      BY <1>1, <2>1, <3>1
    <3> DEFINE t == u - step
    <3>3. t \in Task /\ t < u /\ TaskEnd(t) = u - 1 /\ TaskEnd(t0) <= u - 1
      BY Zenon, <3>2, TaskBefore
    <3>4. u - 1 > Fork
      BY <1>1, <1>2, <3>2, <3>3 DEF Task, Number
    <3>5. Hash(u - 1, segments[u]) = Hash(u - 1, segments[t])
      <4>1. u # 1
        BY <3>2 DEF Task, Number
      <4> QED
        BY Zenon, <3>2, <3>3, <4>1 DEF Continuous
    <3>6. segments[u] = segments[t]
      <4>1. ~(u - 1 <= Fork)
        BY <1>1, <3>2, <3>4 DEF Task, Number
      <4> QED
        BY Zenon, <3>5, <4>1 DEF Hash
    <3>7. t \in Bad
      BY Zenon, <3>1, <3>3, <3>4, <3>6
    <3> QED
      BY <1>1, <3>1, <3>3, <3>7
  <2>3. ASSUME NEW t \in Task, NEW n \in t..TaskEnd(t)
        PROVE  Hash(n, segments[t]) = Hash(n, segments[t0])
    <3>1. CASE n <= Fork
      BY Zenon, <3>1 DEF Hash
    <3>2. CASE ~(n <= Fork)
      <4>1. t \in Above
        BY <1>1, <1>2, <3>2 DEF Task, Number
      <4> QED
        BY Zenon, <2>2, <4>1
    <3> QED
      BY Zenon, <3>1, <3>2
  <2> QED
    BY Zenon, <1>2, <2>3
<1> QED
  BY Zenon, <1>3, <1>4

\* A complete scan has the rows of every block of one chain (ScanIsComplete).
THEOREM CompleteScans == Spec => []ScanIsComplete
<1>1. IInv => ScanIsComplete
  <2> SUFFICES ASSUME IInv, stage["scan"] = "complete"
               PROVE  \E b \in Branch : \A n \in Number :
                          /\ "tx" \notin glued => Hash(n, b) \in csv["tx"]
                          /\ "trace" \notin glued /\ n \in Marked => Hash(n, b) \in csv["trace"]
    BY Zenon DEF ScanIsComplete
  <2>1. Continuous /\ segments \in [Task -> Branch \cup {"none"}]
    BY Zenon DEF IInv, StagesInOrder, TypeOK
  <2>2. PICK b \in Branch : \A t \in Task : \A n \in t..TaskEnd(t) : Hash(n, segments[t]) = Hash(n, b)
    BY Zenon, <2>1, OneBranch
  <2>3. ASSUME NEW n \in Number
        PROVE  /\ "tx" \notin glued => Hash(n, b) \in csv["tx"]
               /\ "trace" \notin glued /\ n \in Marked => Hash(n, b) \in csv["trace"]
    <3>1. PICK t \in Task : n \in t..TaskEnd(t)
      BY Zenon, InATask
    <3>2. Written("tx", t, segments[t]) /\ Written("trace", t, segments[t])
      BY Zenon, <2>1 DEF IInv, NotedIsWritten, Continuous
    <3> QED
      BY Zenon, <2>2, <3>1, <3>2 DEF Written
  <2> QED
    BY Zenon, <2>3
<1> QED
  BY <1>1, Invariance, PTL

\* Every row of a complete scan that was never stopped is of one chain (OneChain).
THEOREM ScansOfOneChain == Spec => []OneChain
<1>1. IInv => OneChain
  <2> SUFFICES ASSUME IInv, stage["scan"] = "complete", stops = 0
               PROVE  \E b \in Branch : \A f \in {"tx", "trace"} : \A h \in csv[f] : h = Hash(h.number, b)
    BY Zenon DEF OneChain
  <2>1. Continuous /\ segments \in [Task -> Branch \cup {"none"}] /\ job # "scan"
    BY Zenon DEF IInv, StagesInOrder, TypeOK
  <2>2. PICK b \in Branch : \A t \in Task : \A n \in t..TaskEnd(t) : Hash(n, segments[t]) = Hash(n, b)
    BY Zenon, <2>1, OneBranch
  <2> QED
    BY <2>1, <2>2 DEF IInv, RowsHaveTasks, Of
<1> QED
  BY <1>1, Invariance, PTL

\* A complete trace has rows for every marked block it does not list as
\* untraced (TraceIsComplete).
THEOREM CompleteTraces == Spec => []TraceIsComplete
<1>1. IInv => TraceIsComplete
  BY Zenon DEF IInv, AllCounted, CountedIsTraced, Traced, TraceIsComplete
<1> QED
  BY <1>1, Invariance, PTL
=============================================================================
