--------------------------- MODULE SafeQueueProofs ---------------------------
(***************************************************************************)
(* Nobody is paid twice by payments that passed a crosscheck.              *)
(*                                                                         *)
(* Two payments with a common recipient may both be queued, and both be    *)
(* under review at once.  The argument: of two reviews, the one that read  *)
(* the list later saw everything the earlier one saw, so the later verdict *)
(* knew both payments; it passes only if the other one can no longer       *)
(* execute.  What "can no longer" means rests on the order of the reads:   *)
(* the nonce is read first, so a proposal below it that is listed as not   *)
(* executed was overtaken for good.                                        *)
(*                                                                         *)
(* The argument asks nothing of what is proposed and of the sheets that    *)
(* are compared, so it holds of the rounds of DirectPayment as well, whose *)
(* contents and sheets are those of the payments built.                    *)
(***************************************************************************)
EXTENDS DirectPayment, FiniteSetTheorems, TLAPS

\* It will never pay anyone.
Dead(i) == status[i] = "failed" \/ (status[i] = "queued" /\ at[i] < nonce)

Ok == {i \in Id : status[i] = "ok"}

\* What has paid or may be signed.
Live == Passed \cup Ok

Compatible(i, j) == Overlap(content[i], content[j]) => Dead(i) \/ Dead(j)

\* What a review remembers is still so, as far as it matters.
Remembered(r) ==
  /\ phase[r] # "idle" => next[r] <= nonce
  /\ phase[r] = "records" => \A i \in Id :
       /\ seen[r][i] \in {"ok", "failed"} => status[i] = seen[r][i]
       /\ seen[r][i] = "queued" => /\ status[i] # "none"
                                   /\ at[i] < next[r] => status[i] = "queued"

\* Of two lists that were read, one contains the other.
Ordered(r, s) ==
  (phase[r] = "records" /\ phase[s] = "records")
     => Listed(r) \subseteq Listed(s) \/ Listed(s) \subseteq Listed(r)

\* A payment approved without a review having it on its list is compatible with what is on it.
Unseen(r) ==
  phase[r] = "records" =>
    \A q \in Live \ Listed(r) : \A p \in Listed(r) : Compatible(p, q)

\* The types, whatever is proposed and compared.
Shapes ==
  /\ nonce \in Nat
  /\ status \in [Id -> {"none", "queued", "ok", "failed"}]
  /\ at \in [Id -> Nat]
  /\ DOMAIN content = Id
  /\ phase \in [Reviewer -> {"idle", "info", "records"}]
  /\ next \in [Reviewer -> Nat]
  /\ seen \in [Reviewer -> [Id -> {"none", "queued", "ok", "failed"}]]

\* What a verdict said of its transactions.
Covers(v) ==
  /\ v.targets \subseteq Id
  /\ UNION {Payees(content[i]) : i \in v.targets} = DOMAIN v.sheet
  /\ \A i \in v.targets : \A x \in Payment(content[i]) :
       x[3] - v.sheet[x[2]] \in (0 - Tolerance) .. Tolerance

IInv ==
  /\ Shapes
  /\ \A v \in passes : Covers(v)
  /\ \A i \in Live : i \in Id /\ status[i] # "none" /\ Single(content[i])
  /\ \A i, j \in Live : i # j => Compatible(i, j)
  /\ \A r \in Reviewer : Remembered(r) /\ Unseen(r)
  /\ \A r, s \in Reviewer : Ordered(r, s)

-----------------------------------------------------------------------------

LEMMA EmptyPaysNobody ==
  ASSUME NEW c, Transfers[c] = <<>>
  PROVE  Single(c) /\ \A d : ~Overlap(c, d) /\ ~Overlap(d, c)
<1>1. Payment(c) = {}
  BY DEF Payment
<1> QED BY Zenon, <1>1 DEF Single, Overlap, Payees

LEMMA OverlapSymmetric == \A c, d : Overlap(c, d) <=> Overlap(d, c)
BY Zenon DEF Overlap

\* Verdicts stay true while the contents they are about stay the same.
LEMMA CoversKept ==
  ASSUME \A v \in passes : Covers(v), passes' = passes, \A i \in Passed : content'[i] = content[i]
  PROVE  \A v \in passes' : Covers(v)'
<1> SUFFICES ASSUME NEW v \in passes PROVE Covers(v)'
  BY Zenon
<1>1. \A i \in v.targets : content'[i] = content[i]
  BY Zenon DEF Passed
<1>2. {Payees(content'[i]) : i \in v.targets} = {Payees(content[i]) : i \in v.targets}
  BY Zenon, <1>1
<1> QED BY Zenon, <1>1, <1>2 DEF Covers

LEMMA InitIInv == Init => IInv
<1> SUFFICES ASSUME Init PROVE IInv
  BY Zenon
<1>1. Shapes
  BY Zenon, HistoryAssumption, NonceAssumption DEF Init, Shapes
<1>2. Live = History
  BY Zenon, HistoryAssumption DEF Init, Live, Ok, Passed
<1>3. \A i \in Live : i \in Id /\ status[i] # "none" /\ Single(content[i])
  BY Zenon, <1>2, HistoryAssumption DEF Init
<1>4. \A i, j \in Live : i # j => Compatible(i, j)
  BY Zenon, <1>2, HistoryAssumption DEF Init, Compatible
<1>5. \A r \in Reviewer : Remembered(r) /\ Unseen(r)
  BY Zenon DEF Init, Remembered, Unseen
<1>6. \A r, s \in Reviewer : Ordered(r, s)
  BY Zenon DEF Init, Ordered
<1>7. \A v \in passes : Covers(v)
  BY Zenon DEF Init
<1> QED BY Zenon, <1>1, <1>7, <1>3, <1>4, <1>5, <1>6 DEF IInv

\* A new proposal is in no list, passed by no review, and paid nobody.
LEMMA ProposeIInv ==
  ASSUME IInv, NEW i \in Id, NEW n \in 0 .. MaxNonce, NEW c, Propose(i, n, c)
  PROVE  IInv'
<1> USE DEF IInv
<1>1. Shapes'
  BY NonceAssumption DEF Propose, Shapes, reviews
<1>2. UNCHANGED <<nonce, phase, next, seen, passes>>
  BY Zenon DEF Propose, reviews
<1>3. \A j \in Id \ {i} : /\ status'[j] = status[j] /\ at'[j] = at[j] /\ content'[j] = content[j]
  BY Zenon DEF Propose, Shapes
<1>4. status[i] = "none" /\ status'[i] = "queued"
  BY Zenon DEF Propose, Shapes
<1>5. Live' = Live /\ i \notin Live /\ Live \subseteq Id
  BY Zenon, <1>2, <1>3, <1>4 DEF Live, Ok, Passed
<1>6. \A p, q \in Id \ {i} : Compatible(p, q) => Compatible(p, q)'
  BY Zenon, <1>2, <1>3 DEF Compatible, Dead
<1>7. \A r \in Reviewer : (phase[r] = "records" => i \notin Listed(r)) /\ Listed(r)' = Listed(r)
  BY <1>2, <1>4 DEF Listed, Remembered, Shapes
<1>8. \A r \in Reviewer : Remembered(r)'
  BY <1>2, <1>3, <1>4 DEF Remembered, Shapes
<1>9. \A r \in Reviewer : Unseen(r)'
  BY Zenon, <1>2, <1>5, <1>6, <1>7 DEF Unseen, Listed
<1>10. \A r, s \in Reviewer : Ordered(r, s)'
  BY <1>2, <1>7 DEF Ordered
<1>11. \A j \in Live' : j \in Id /\ status'[j] # "none" /\ Single(content[j])'
  BY Zenon, <1>3, <1>5
<1>12. \A p, q \in Live' : p # q => Compatible(p, q)'
  BY Zenon, <1>5, <1>6
<1>13. \A v \in passes' : Covers(v)'
  BY Zenon, <1>2, <1>3, <1>5, CoversKept DEF Live
<1> QED BY Zenon, <1>1, <1>8, <1>9, <1>10, <1>11, <1>12, <1>13

\* An execution keeps every dead proposal dead and adds to Live only a call that pays nobody.
LEMMA ExecuteIInv ==
  ASSUME IInv, NEW i \in Id, NEW outcome \in {"ok", "failed"}, Execute(i, outcome)
  PROVE  IInv'
<1> USE DEF IInv
<1>1. Shapes'
  BY DEF Execute, Shapes, reviews
<1>2. UNCHANGED <<at, content, phase, next, seen, passes>> /\ nonce' = nonce + 1
  BY Zenon DEF Execute, reviews
<1>3. /\ \A j \in Id \ {i} : status'[j] = status[j]
      /\ status'[i] = outcome /\ status[i] = "queued" /\ at[i] = nonce
  BY Zenon DEF Execute, Shapes
<1>4. \A j \in Id : Dead(j) => Dead(j)'
  BY <1>2, <1>3 DEF Dead, Shapes
<1>5. \A p, q \in Id : Compatible(p, q) => Compatible(p, q)'
  BY Zenon, <1>2, <1>4 DEF Compatible
<1>6. Live' \subseteq Live \cup {i} /\ Live \subseteq Id
  BY Zenon, <1>2, <1>3 DEF Live, Ok, Passed
<1>7. i \notin Live => /\ Single(content[i])
                       /\ \A p \in Id : Compatible(p, i)' /\ Compatible(i, p)'
  <2> SUFFICES ASSUME i \notin Live
               PROVE  /\ Single(content[i])
                      /\ \A p \in Id : Compatible(p, i)' /\ Compatible(i, p)'
    BY Zenon
  <2>1. Transfers[content[i]] = <<>>
    BY Zenon DEF Execute, Live
  <2>2. Single(content[i]) /\ \A d : ~Overlap(content[i], d) /\ ~Overlap(d, content[i])
    BY Zenon, <2>1, EmptyPaysNobody
  <2> QED BY Zenon, <1>2, <2>2 DEF Compatible
<1>8. \A r \in Reviewer : Listed(r)' = Listed(r) /\ Listed(r) \subseteq Id
  BY Zenon, <1>2 DEF Listed
<1>9. \A r \in Reviewer : Remembered(r)'
  BY <1>2, <1>3 DEF Remembered, Shapes
<1>10. \A r \in Reviewer : Unseen(r)'
  BY <1>2, <1>5, <1>6, <1>7, <1>8 DEF Unseen
<1>11. \A r, s \in Reviewer : Ordered(r, s)'
  BY <1>2, <1>8 DEF Ordered
<1>12. \A j \in Live' : j \in Id /\ status'[j] # "none" /\ Single(content[j])'
  BY Zenon, <1>2, <1>3, <1>6, <1>7
<1>13. \A p, q \in Live' : p # q => Compatible(p, q)'
  BY <1>5, <1>6, <1>7
<1>14. \A v \in passes' : Covers(v)'
  BY Zenon, <1>2, CoversKept
<1> QED BY Zenon, <1>1, <1>9, <1>10, <1>11, <1>12, <1>13, <1>14

LEMMA ReadInfoIInv ==
  ASSUME IInv, NEW r \in Reviewer, ReadInfo(r)
  PROVE  IInv'
<1> USE DEF IInv
<1>1. Shapes'
  BY Zenon DEF ReadInfo, Shapes, safe
<1>2. UNCHANGED <<nonce, status, at, content, seen, passes>>
  BY Zenon DEF ReadInfo, safe
<1>3. /\ \A s \in Reviewer \ {r} : phase'[s] = phase[s] /\ next'[s] = next[s]
      /\ phase'[r] = "info" /\ next'[r] = nonce
  BY Zenon DEF ReadInfo, Shapes
<1>4. Live' = Live /\ (\A s \in Reviewer : Listed(s)' = Listed(s))
  BY Zenon, <1>2 DEF Live, Ok, Passed, Listed
<1>5. \A p, q : Compatible(p, q)' <=> Compatible(p, q)
  BY Zenon, <1>2 DEF Compatible, Dead
<1>6. \A s \in Reviewer : Remembered(s)'
  BY <1>1, <1>2, <1>3 DEF Remembered, Shapes
<1>7. \A s \in Reviewer : Unseen(s)'
  BY Zenon, <1>3, <1>4, <1>5 DEF Unseen
<1>8. \A s, t \in Reviewer : Ordered(s, t)'
  BY <1>3, <1>4 DEF Ordered
<1>9. \A v \in passes' : Covers(v)'
  BY Zenon, <1>2, CoversKept
<1> QED BY Zenon, <1>1, <1>2, <1>4, <1>5, <1>6, <1>7, <1>8, <1>9

\* The list just read contains every list read before, and everything that was passed.
LEMMA ReadRecordsIInv ==
  ASSUME IInv, NEW r \in Reviewer, ReadRecords(r)
  PROVE  IInv'
<1> USE DEF IInv
<1>1. Shapes'
  BY Zenon DEF ReadRecords, Shapes, safe
<1>2. UNCHANGED <<nonce, status, at, content, next, passes>>
  BY Zenon DEF ReadRecords, safe
<1>3. /\ \A s \in Reviewer \ {r} : phase'[s] = phase[s] /\ seen'[s] = seen[s]
      /\ phase[r] = "info" /\ phase'[r] = "records" /\ seen'[r] = status
  BY Zenon DEF ReadRecords, Shapes
<1>4. /\ Live' = Live
      /\ \A s \in Reviewer \ {r} : Listed(s)' = Listed(s)
      /\ Listed(r)' = {i \in Id : status[i] # "none"}
  BY Zenon, <1>2, <1>3 DEF Live, Ok, Passed, Listed
<1>5. \A p, q : Compatible(p, q)' <=> Compatible(p, q)
  BY Zenon, <1>2 DEF Compatible, Dead
<1>6. \A s \in Reviewer : Remembered(s)'
  BY <1>2, <1>3 DEF Remembered, Shapes
<1>7. Unseen(r)'
  BY Zenon, <1>4 DEF Unseen
<1>8. \A s \in Reviewer \ {r} : Unseen(s)'
  BY Zenon, <1>3, <1>4, <1>5 DEF Unseen
<1>9. \A s \in Reviewer : phase[s] = "records" => Listed(s) \subseteq Listed(r)'
  BY <1>4 DEF Listed, Remembered, Shapes
<1>10. \A s, t \in Reviewer : Ordered(s, t)'
  BY <1>3, <1>4, <1>9 DEF Ordered
<1>11. \A v \in passes' : Covers(v)'
  BY Zenon, <1>2, CoversKept
<1> QED BY Zenon, <1>1, <1>2, <1>4, <1>5, <1>6, <1>7, <1>8, <1>10, <1>11

\* A payment that passes is compatible with everything on the reviewer's list.
LEMMA PassCompatible ==
  ASSUME IInv, NEW r \in Reviewer, phase[r] = "records",
         NEW T \in SUBSET Listed(r), NEW sheet, Pass(r, T, sheet),
         NEW i \in T, NEW j \in Listed(r), i # j
  PROVE  Compatible(i, j)
<1> USE DEF IInv
<1>1. Payees(content[i]) \subseteq DOMAIN sheet
  BY Zenon DEF Pass, PaysTheSheet
<1>2. j \in Id /\ seen[r][j] \in {"queued", "ok", "failed"}
  BY DEF Listed, Shapes
<1>3. CASE j \in T
  BY Zenon, <1>3 DEF Pass, PaysTheSheet, Compatible
<1>4. CASE j \notin T /\ Shown(j) \cap DOMAIN sheet = {} /\ content[j] \in Readable
  BY Zenon, <1>1, <1>4 DEF Shown, Compatible, Overlap
<1>5. CASE j \notin T /\ seen[r][j] = "failed"
  BY Zenon, <1>2, <1>5 DEF Remembered, Compatible, Dead
<1>6. CASE j \notin T /\ seen[r][j] = "queued" /\ at[j] < next[r]
  <2>1. status[j] = "queued" /\ next[r] <= nonce
    BY Zenon, <1>2, <1>6 DEF Remembered
  <2>2. at[j] \in Nat /\ next[r] \in Nat /\ nonce \in Nat
    BY Zenon, <1>2 DEF Shapes
  <2>3. Dead(j)
    BY <1>6, <2>1, <2>2 DEF Dead
  <2> QED BY Zenon, <2>3 DEF Compatible
<1>7. CASE j \notin T /\ seen[r][j] = "ok"
  BY Zenon, <1>2, <1>4, <1>7 DEF Pass, NotPaidBefore, Done
<1>8. CASE j \notin T /\ seen[r][j] = "queued" /\ at[j] >= next[r]
  BY Zenon, <1>2, <1>4, <1>8 DEF Pass, NotQueuedElsewhere, Waiting, NextNonce
<1> QED BY <1>2, <1>3, <1>5, <1>6, <1>7, <1>8 DEF Shapes

LEMMA VerdictIInv ==
  ASSUME IInv, NEW r \in Reviewer, NEW sheet, NEW hashes \in SUBSET Id,
         Verdict(r, sheet, hashes)
  PROVE  IInv'
<1> USE DEF IInv
<1> DEFINE T == Targets(r, sheet, hashes)
           v == [sheet |-> sheet, targets |-> T]
<1>1. UNCHANGED <<nonce, status, at, content, next, seen>>
  BY Zenon DEF Verdict, safe
<1>2. /\ \A s \in Reviewer \ {r} : phase'[s] = phase[s]
      /\ phase[r] = "records" /\ phase'[r] = "idle"
  BY Zenon DEF Verdict, Shapes
<1>3. T \subseteq Listed(r) /\ T \subseteq Id
  BY Zenon DEF Targets, Listed, Waiting
<1>4. Shapes'
  BY <1>3 DEF Verdict, Shapes, safe
<1>5. \A p, q : Compatible(p, q)' <=> Compatible(p, q)
  BY Zenon, <1>1 DEF Compatible, Dead
<1>6. \A s \in Reviewer : Listed(s)' = Listed(s)
  BY Zenon, <1>1 DEF Listed
<1>7. \A s \in Reviewer : Remembered(s)'
  BY <1>1, <1>2 DEF Remembered, Shapes
<1>8. \A s, t \in Reviewer : Ordered(s, t)'
  BY <1>2, <1>6 DEF Ordered
<1>9. CASE passes' = passes
  <2>1. Live' = Live /\ \A w \in passes' : Covers(w)'
    BY Zenon, <1>1, <1>9, CoversKept DEF Live, Ok, Passed
  <2>2. \A s \in Reviewer : Unseen(s)'
    BY Zenon, <1>2, <1>5, <1>6, <2>1 DEF Unseen
  <2> QED BY Zenon, <1>1, <1>4, <1>5, <1>7, <1>8, <2>1, <2>2
<1>10. CASE Pass(r, T, sheet) /\ passes' = passes \cup {v}
  <2>1. Live' = Live \cup T
    <3>1. v.targets = T /\ v.sheet = sheet
      BY Zenon
    <3>2. Passed' = Passed \cup T
      <4> HIDE DEF v
      <4> QED BY Zenon, <1>10, <3>1 DEF Passed
    <3> QED BY Zenon, <1>1, <3>2 DEF Live, Ok
  <2>2. \A p \in T, q \in Listed(r) : p # q => Compatible(p, q) /\ Compatible(q, p)
    BY Zenon, <1>2, <1>3, <1>10, PassCompatible, OverlapSymmetric DEF Compatible
  <2>3. \A p \in T, q \in Live : p # q => Compatible(p, q) /\ Compatible(q, p)
    BY Zenon, <1>2, <1>3, <2>2, OverlapSymmetric DEF Unseen, Compatible
  <2>4. \A p, q \in Live' : p # q => Compatible(p, q)'
    BY Zenon, <1>3, <1>5, <2>1, <2>2, <2>3
  <2>5. \A p \in Live' : p \in Id /\ status'[p] # "none" /\ Single(content[p])'
    BY <1>1, <1>2, <1>3, <1>10, <2>1 DEF Pass, PaysTheSheet, Listed, Remembered, Shapes
  <2>6. \A s \in Reviewer : Unseen(s)'
    <3> SUFFICES ASSUME NEW s \in Reviewer, s # r, phase[s] = "records",
                        NEW q \in (Live \cup T) \ Listed(s), NEW p \in Listed(s)
                 PROVE  Compatible(p, q)
      BY Zenon, <1>2, <1>5, <1>6, <2>1 DEF Unseen
    <3>1. CASE q \in Live
      BY Zenon, <3>1 DEF Unseen
    <3>2. CASE q \in T
      <4>1. p \in Listed(r) /\ p # q
        BY Zenon, <1>2, <1>3, <3>2 DEF Ordered
      <4> QED BY Zenon, <2>2, <3>2, <4>1
    <3> QED BY Zenon, <3>1, <3>2
  <2>7. \A w \in passes' : Covers(w)'
    <3>1. \A w : Covers(w) => Covers(w)'
      BY Zenon, <1>1 DEF Covers
    <3>2. Covers(v)
      BY Zenon, <1>3, <1>10 DEF Covers, Pass, PaysTheSheet
    <3>3. \A w \in passes' : Covers(w)
      <4> HIDE DEF v
      <4> QED BY Zenon, <1>10, <3>2
    <3> QED BY Zenon, <3>1, <3>3
  <2> QED BY Zenon, <1>4, <1>7, <1>8, <2>4, <2>5, <2>6, <2>7
<1> QED BY Zenon, <1>9, <1>10 DEF Verdict

LEMMA StutterIInv == IInv /\ UNCHANGED vars => IInv'
<1> SUFFICES ASSUME IInv, UNCHANGED vars PROVE IInv'
  BY Zenon
<1>1. UNCHANGED <<nonce, status, at, content, phase, next, seen, passes>>
  BY Zenon DEF vars, safe, reviews
<1> QED BY SMTT(30), <1>1 DEF IInv, Shapes, Covers, Live, Ok, Passed, Compatible, Dead, Remembered, Unseen,
                    Ordered, Listed

LEMMA NextIInv == IInv /\ [Next]_vars => IInv'
<1> SUFFICES ASSUME IInv, [Next]_vars PROVE IInv'
  BY Zenon
<1>1. ASSUME NEW i \in Id, NEW n \in 0 .. MaxNonce, NEW c \in Content, Propose(i, n, c) PROVE IInv'
  BY Zenon, <1>1, ProposeIInv
<1>2. ASSUME NEW i \in Id, NEW outcome \in {"ok", "failed"}, Execute(i, outcome) PROVE IInv'
  BY Zenon, <1>2, ExecuteIInv
<1>3. ASSUME NEW r \in Reviewer, ReadInfo(r) PROVE IInv'
  BY Zenon, <1>3, ReadInfoIInv
<1>4. ASSUME NEW r \in Reviewer, ReadRecords(r) PROVE IInv'
  BY Zenon, <1>4, ReadRecordsIInv
<1>5. ASSUME NEW r \in Reviewer, NEW sheet \in Sheets, NEW hashes \in SUBSET Id,
             Verdict(r, sheet, hashes)
      PROVE  IInv'
  BY Zenon, <1>5, VerdictIInv
<1>6. CASE UNCHANGED vars
  BY Zenon, <1>6, StutterIInv
<1> QED BY Zenon, <1>1, <1>2, <1>3, <1>4, <1>5, <1>6 DEF Next

\* The inductive invariant holds in every reachable state.
THEOREM Invariance == Spec => []IInv
BY InitIInv, NextIInv, PTL DEF Spec

LEMMA IInvNobodyPaidTwice == IInv => NobodyPaidTwice
<1> SUFFICES ASSUME IInv PROVE NobodyPaidTwice
  BY Zenon
<1>1. \A i \in Ok : i \in Live /\ ~Dead(i)
  BY Zenon DEF Ok, Live, Dead
<1> QED BY Zenon, <1>1 DEF IInv, Compatible, NobodyPaidTwice, Ok

\* No recipient of the Safe's successful transactions is paid twice, for any number of proposals,
\* reviewers, sheets and nonces, when the owners sign payments only after RESULT: PASS.
THEOREM NeverPaysTwice == Spec => []NobodyPaidTwice
BY Invariance, IInvNobodyPaidTwice, PTL

\* The variables keep their types.
THEOREM TypesHold == Spec => []TypeOK
<1>1. ASSUME Init PROVE TypeOK
  BY Zenon, <1>1, HistoryAssumption, NonceAssumption DEF Init, TypeOK
<1>2. TypeOK /\ [Next]_vars => TypeOK'
  <2> SUFFICES ASSUME TypeOK, [Next]_vars PROVE TypeOK'
    BY Zenon
  <2>1. ASSUME NEW i \in Id, NEW n \in 0 .. MaxNonce, NEW c \in Content, Propose(i, n, c) PROVE TypeOK'
    BY <2>1, NonceAssumption DEF Propose, TypeOK, reviews
  <2>2. ASSUME NEW i \in Id, NEW outcome \in {"ok", "failed"}, Execute(i, outcome) PROVE TypeOK'
    BY <2>2 DEF Execute, TypeOK, reviews
  <2>3. ASSUME NEW r \in Reviewer, ReadInfo(r) PROVE TypeOK'
    BY Zenon, <2>3 DEF ReadInfo, TypeOK, safe
  <2>4. ASSUME NEW r \in Reviewer, ReadRecords(r) PROVE TypeOK'
    BY Zenon, <2>4 DEF ReadRecords, TypeOK, safe
  <2>5. ASSUME NEW r \in Reviewer, NEW sheet \in Sheets, NEW hashes \in SUBSET Id,
               Verdict(r, sheet, hashes)
        PROVE  TypeOK'
    <3>1. Targets(r, sheet, hashes) \in SUBSET Id
      BY Zenon DEF Targets, Listed, Waiting
    <3> QED BY <2>5, <3>1 DEF Verdict, TypeOK, safe
  <2>6. CASE UNCHANGED vars
    BY Zenon, <2>6 DEF vars, safe, reviews, TypeOK
  <2> QED BY Zenon, <2>1, <2>2, <2>3, <2>4, <2>5, <2>6 DEF Next
<1> QED BY <1>1, <1>2, PTL DEF Spec

LEMMA IInvSheetPaidExactly == IInv => SheetPaidExactly
<1> SUFFICES ASSUME IInv, NEW v \in passes, \A i \in v.targets : status[i] = "ok",
                    NEW a \in DOMAIN v.sheet
             PROVE  LET received == {m \in UNION {{i} \X Payment(content[i]) : i \in Id} :
                                       status[m[1]] = "ok" /\ m[2][2] = a}
                    IN  /\ Cardinality(received) = 1
                        /\ \A m \in received : m[2][3] - v.sheet[a] \in (0 - Tolerance) .. Tolerance
  BY Zenon DEF SheetPaidExactly
<1> DEFINE received == {m \in UNION {{i} \X Payment(content[i]) : i \in Id} :
                          status[m[1]] = "ok" /\ m[2][2] = a}
<1>1. Covers(v) /\ NobodyPaidTwice
  BY Zenon, IInvNobodyPaidTwice DEF IInv
<1>2. PICK i \in v.targets : a \in Payees(content[i])
  BY Zenon, <1>1 DEF Covers
<1>3. PICK x \in Payment(content[i]) : x[2] = a
  BY Zenon, <1>2 DEF Payees
<1>4. i \in Id /\ status[i] = "ok"
  BY Zenon, <1>1 DEF Covers
<1>5. <<i, x>> \in received
  BY <1>3, <1>4
<1>6. ASSUME NEW m \in received PROVE m = <<i, x>>
  <2>1. PICK j \in Id : m \in {j} \X Payment(content[j])
    BY Zenon
  <2>2. m = <<j, m[2]>> /\ m[2] \in Payment(content[j]) /\ status[j] = "ok" /\ m[2][2] = a
    BY <2>1
  <2>3. a \in Payees(content[j])
    BY Zenon, <2>2 DEF Payees
  <2>4. j = i
    BY Zenon, <1>1, <1>2, <1>4, <2>2, <2>3 DEF NobodyPaidTwice, Overlap
  <2>5. m[2] = x
    BY Zenon, <1>1, <1>3, <1>4, <2>2, <2>4 DEF NobodyPaidTwice, Single
  <2> QED BY Zenon, <2>2, <2>4, <2>5
<1>7. received = {<<i, x>>}
  BY Zenon, <1>5, <1>6
<1>8. Cardinality(received) = 1
  BY Zenon, <1>7, FS_Singleton
<1>9. \A m \in received : m[2][3] - v.sheet[a] \in (0 - Tolerance) .. Tolerance
  BY <1>1, <1>3, <1>7 DEF Covers
<1> QED BY Zenon, <1>8, <1>9

\* When all transactions of a verdict have succeeded, its sheet is paid: every wallet once, by the
\* whole history of the Safe, and at the amount shown.
THEOREM PaysTheSheetOnce == Spec => []SheetPaidExactly
BY Invariance, IInvSheetPaidExactly, PTL

-----------------------------------------------------------------------------
(* The rounds of DirectPayment. *)

\* Selecting, building and discarding leave the Safe alone; every other step is one of the Safe's or
\* of a review's, with a transaction that was built and a sheet of a payment.
LEMMA RoundIInv == IInv /\ [Next_]_<<vars, roundVars>> => IInv'
<1> SUFFICES ASSUME IInv, [Next_]_<<vars, roundVars>> PROVE IInv'
  BY Zenon
<1>1. ASSUME NEW files \in Lists, NEW choice \in Selections, Select(files, choice) PROVE IInv'
  BY Zenon, <1>1, StutterIInv DEF Select
<1>2. ASSUME NEW split \in Splits, Build(split) PROVE IInv'
  BY Zenon, <1>2, StutterIInv DEF Build
<1>3. CASE Discard
  BY Zenon, <1>3, StutterIInv DEF Discard
<1>4. ASSUME NEW i \in Id, NEW n \in 0 .. MaxNonce, NEW c, Propose(i, n, c) PROVE IInv'
  BY <1>4, ProposeIInv
<1>5. ASSUME NEW i \in Id, NEW n \in 0 .. MaxNonce, ProposePayment(i, n) PROVE IInv'
  BY Zenon, <1>4, <1>5 DEF ProposePayment
<1>6. ASSUME NEW i \in Id, NEW outcome \in {"ok", "failed"}, Execute(i, outcome) PROVE IInv'
  BY Zenon, <1>6, ExecuteIInv
<1>7. ASSUME NEW r \in Reviewer, Review(r) PROVE IInv'
  <2>1. ASSUME NEW sheet, NEW hashes \in SUBSET Id, Verdict(r, sheet, hashes) PROVE IInv'
    BY <2>1, VerdictIInv
  <2> QED BY Zenon, <1>7, <2>1, ReadInfoIInv, ReadRecordsIInv DEF Review
<1>8. CASE UNCHANGED <<vars, roundVars>>
  BY Zenon, <1>8, StutterIInv
<1> QED BY Zenon, <1>1, <1>2, <1>3, <1>4, <1>5, <1>6, <1>7, <1>8 DEF Next_

LEMMA RoundsInvariance == PaymentSpec => []IInv
<1>1. Init_ => IInv
  BY Zenon, InitIInv DEF Init_
<1> QED BY <1>1, RoundIInv, PTL DEF PaymentSpec

\* Also when a list is paid in rounds, each selected from what the operator says was paid, nobody is
\* paid twice: a --paid file that was forgotten costs a review that does not pass, not a payment.
THEOREM RoundsNeverPayTwice == PaymentSpec => []NobodyPaidTwice
BY RoundsInvariance, IInvNobodyPaidTwice, PTL

\* And every sheet that passed, those of the payments built included, is paid once and exactly.
THEOREM RoundsPayTheSheetOnce == PaymentSpec => []SheetPaidExactly
BY RoundsInvariance, IInvSheetPaidExactly, PTL
=============================================================================
