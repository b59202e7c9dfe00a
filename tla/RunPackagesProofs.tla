-------------------------- MODULE RunPackagesProofs --------------------------
(***************************************************************************)
(* Proofs, for every set of package paths, of the safety invariants of     *)
(* RunPackages.                                                            *)
(*                                                                         *)
(* None of them is inductive.  IInv adds what every operation relies on:   *)
(* that generations only grow, that the operation's copy of the record     *)
(* lists nothing the last refresh of a path did not build, where its loops *)
(* have got to, and, as long as no write went wrong in a place the         *)
(* handlers do not expect, that the copy agrees with the record on disk.   *)
(***************************************************************************)
EXTENDS RunPackages, TLAPS

Refreshing == {"build", "seal", "aside", "place", "commit", "unstage", "invalidate", "clear"}
Quarantining == {"moving", "rollback", "finish", "recover"}
Records == [pending : {"none", "refresh", "quarantine"}, targets : SUBSET Target,
            packages : [Target -> Gen]]

\* The type invariant.
TypeOK ==
    /\ at \in [Target -> Gen] /\ dest \in [Target -> Gen] /\ last \in [Target -> Gen]
    /\ staging \in [Target -> {"none", "open", "sealed"}]
    /\ aside \in SUBSET (Target \X Gen) /\ kept \in SUBSET (Target \X Gen)
    /\ listed \in SUBSET (Target \X Gen)
    /\ journal \in [there : BOOLEAN, moves : SUBSET Target]
    /\ record \in Records /\ mem \in Records
    /\ pc \in {"idle", "journalled"} \cup Refreshing \cup Quarantining
    /\ work \in SUBSET Target /\ todo \in SUBSET work
    /\ gen \in Gen /\ failed \in SUBSET Gen /\ smooth \in BOOLEAN

\* Nothing is of a generation that was not begun, and a running refresh has
\* exactly its targets in its generation.
Generations ==
    /\ \A t \in Target : last[t] =< gen /\ at[t] =< gen /\ dest[t] =< gen
    /\ \A t \in Target, g \in Gen :
         <<t, g>> \in aside \cup kept \cup listed => g # 0 /\ g =< gen
    /\ \A g \in failed : g # 0 /\ g =< gen
    /\ pc \in Refreshing => gen # 0 /\ \A t \in Target : last[t] = gen <=> t \in work
    /\ pc \in Refreshing \ {"invalidate", "clear"} => gen \notin failed

\* The record and the copy list only what the last refresh of a path built.
ListsTheLast ==
    \A t \in Target : record.packages[t] \in {0, last[t]} /\ mem.packages[t] \in {0, last[t]}

Somewhere(t, g) == at[t] = g \/ dest[t] = g \/ <<t, g>> \in aside \/ <<t, g>> \in kept

\* No package is in two places.
InOnePlace ==
    \A t \in Target, g \in Gen :
        g # 0 =>
            /\ ~ (at[t] = g /\ dest[t] = g)
            /\ <<t, g>> \in aside => at[t] # g /\ dest[t] # g /\ <<t, g>> \notin kept
            /\ <<t, g>> \in kept => at[t] # g /\ dest[t] # g

\* What was listed, and what the copy would list, is somewhere.
IsSomewhere ==
    /\ \A t \in Target, g \in Gen : <<t, g>> \in listed => Somewhere(t, g)
    /\ \A t \in Target : mem.packages[t] # 0 => Somewhere(t, mem.packages[t])
    /\ \A t \in Target : record.packages[t] # 0 => <<t, record.packages[t]>> \in listed

\* How far the loops of a refresh are: its generation is nowhere until it is
\* placed, on a path that was emptied.
RefreshProgress ==
    /\ pc \in {"build", "seal", "aside"} => \A t \in work : ~ Somewhere(t, gen)
    /\ pc = "aside" => \A t \in work \ todo : at[t] = 0
    /\ pc = "place" => /\ \A t \in todo : at[t] = 0 /\ ~ Somewhere(t, gen)
                       /\ \A t \in work \ todo : at[t] = gen
    /\ pc = "commit" => \A t \in work : at[t] = gen

\* How far the loops of a quarantine are, and that only a pending one has
\* packages in its directory.
QuarantineProgress ==
    /\ record.pending # "quarantine" => dest = None
    /\ pc \in Refreshing \cup {"journalled"} => record.pending # "quarantine"
    /\ pc \in Quarantining => record.pending = "quarantine"
    /\ pc = "journalled" => mem.pending = "quarantine" /\ \A t \in work : at[t] # 0
    /\ pc = "moving" => /\ \A t \in todo : at[t] # 0 /\ dest[t] = 0
                        /\ \A t \in work \ todo : at[t] = 0 /\ dest[t] # 0
                        /\ \A t \in Target \ work : dest[t] = 0
    /\ pc = "rollback" => /\ \A t \in todo : at[t] = 0 /\ dest[t] # 0
                          /\ \A t \in Target \ todo : dest[t] = 0

\* As long as every write did what its handler expects.
RecordIsSound ==
    /\ \A t, u \in Target : last[t] = last[u] => record.packages[t] = record.packages[u]
    /\ \A t \in Target : record.packages[t] \notin failed
    /\ record.pending # "quarantine" =>
         \A t \in Target : record.packages[t] # 0 => at[t] = record.packages[t]
    /\ pc \in Refreshing => mem = record /\ \A t \in work : record.packages[t] = 0
JournalIsSound ==
    /\ record.pending = "quarantine" =>
         /\ record.packages = None
         /\ journal.there
         /\ \A t \in journal.moves : (at[t] = 0) # (dest[t] = 0)
    /\ pc \in Quarantining \cup {"journalled"} =>
         mem.packages = None /\ journal.there /\ journal.moves = work

IInv ==
    /\ TypeOK /\ Generations /\ ListsTheLast /\ InOnePlace /\ IsSomewhere
    /\ RefreshProgress /\ QuarantineProgress
    /\ smooth => RecordIsSound /\ JournalIsSound

-----------------------------------------------------------------------------
\* What a write of r leaves: the old record or r, and in listed exactly what
\* was listed before or is in that record.
WriteOutcome(how, r) ==
    /\ record' = (IF how = "early" THEN record ELSE r)
    /\ record' \in Records /\ smooth' \in BOOLEAN
    /\ listed' \in SUBSET (Target \X Gen)
    /\ \A t \in Target, g \in Gen :
         <<t, g>> \in listed' <=> <<t, g>> \in listed \/ (g # 0 /\ g = record'.packages[t])
    /\ smooth' => smooth /\ (how = "ok" \/ (how = "early" /\ pc # "commit"))

\* WriteOutcome is what Wrote does.
LEMMA WriteLeaves ==
  ASSUME TypeOK, NEW how, NEW r \in Records, Wrote(how, r)
  PROVE  WriteOutcome(how, r)
<1>1. record' = (IF how = "early" THEN record ELSE r) /\ record' \in Records
  BY Zenon DEF TypeOK, Wrote
<1>2. record'.packages \in [Target -> Gen]
  BY Zenon, <1>1 DEF Records
<1>3. listed' = listed \cup {<<t, record'.packages[t]>> : t \in {u \in Target : record'.packages[u] # 0}}
  BY Zenon DEF Wrote
<1>4. listed' \in SUBSET (Target \X Gen)
  BY <1>2, <1>3 DEF TypeOK
<1>5. ASSUME NEW t \in Target, NEW g \in Gen
      PROVE  <<t, g>> \in listed' <=> <<t, g>> \in listed \/ (g # 0 /\ g = record'.packages[t])
  BY Zenon, <1>2, <1>3
<1>6. smooth' \in BOOLEAN /\ (smooth' => smooth /\ (how = "ok" \/ (how = "early" /\ pc # "commit")))
  BY Zenon DEF TypeOK, Wrote
<1> QED BY Zenon, <1>1, <1>4, <1>5, <1>6 DEF WriteOutcome

\* The first write of a refresh: its targets leave the record, or nothing changes.
LEMMA RefreshIInv ==
  ASSUME IInv, NEW paths \in SUBSET Target, Refresh(paths)
  PROVE  IInv'
<1> USE BoundAssumption DEF IInv, TypeOK, Gen, Records, Refreshing, Quarantining, disk, past, written,
        Refresh, End, NoRecord, None, Faults, Goto, Opened, Unlisted
<1>1. Opened(paths) \in Records
  OBVIOUS
<1>2. PICK how \in {"ok"} \cup Faults :
         /\ Wrote(how, Opened(paths))
         /\ IF how = "ok"
            THEN mem' = Opened(paths) /\ work' = paths /\ Goto("build", {})
            ELSE End
         /\ IF how = "early" THEN UNCHANGED <<gen, last>>
            ELSE /\ gen' = gen + 1
                 /\ last' = [t \in Target |-> IF t \in paths THEN gen + 1 ELSE last[t]]
  BY Zenon
<1>3. WriteOutcome(how, Opened(paths))
  BY Zenon, <1>1, <1>2, WriteLeaves
<1>4. TypeOK'
  <2>1. record' \in Records /\ smooth' \in BOOLEAN /\ listed' \in SUBSET (Target \X Gen)
    BY Zenon, <1>3 DEF WriteOutcome
  <2>2. /\ mem' \in Records /\ pc' \in {"idle", "journalled"} \cup Refreshing \cup Quarantining
        /\ work' \in SUBSET Target /\ todo' \in SUBSET work'
    BY <1>1, <1>2
  <2>3. gen' \in Gen /\ last' \in [Target -> Gen] /\ failed' \in SUBSET Gen
    BY <1>2
  <2>4. staging' \in [Target -> {"none", "open", "sealed"}]
    BY Zenon
  <2>5. /\ at' \in [Target -> Gen] /\ dest' \in [Target -> Gen]
        /\ aside' \in SUBSET (Target \X Gen) /\ kept' \in SUBSET (Target \X Gen)
        /\ journal' \in [there : BOOLEAN, moves : SUBSET Target]
    BY Zenon, <1>2
  <2> QED BY Zenon, <2>1, <2>2, <2>3, <2>4, <2>5
<1>5. Generations'
  <2>1. /\ \A t \in Target, g \in Gen : <<t, g>> \in listed' => <<t, g>> \in listed \/ (g # 0 /\ g = record'.packages[t])
        /\ \A t \in Target : record'.packages[t] \in {0, record.packages[t]}
    BY Zenon, <1>3 DEF WriteOutcome
  <2>2. \A t \in Target, g \in Gen : <<t, g>> \in listed' => g # 0 /\ g =< gen
    <3> SUFFICES ASSUME NEW t \in Target, NEW g \in Gen, <<t, g>> \in listed'
                 PROVE  g # 0 /\ g =< gen
      BY Zenon
    <3>1. CASE <<t, g>> \in listed
      BY Zenon, <3>1 DEF Generations
    <3>2. CASE g # 0 /\ g = record'.packages[t]
      <4>1. g = last[t]
        BY Zenon, <2>1, <3>2 DEF ListsTheLast
      <4> QED
        BY ZenonT(40), <3>2, <4>1 DEF Generations
    <3> QED
      BY Zenon, <2>1, <3>1, <3>2
  <2>3. gen' \in {gen, gen + 1} /\ gen \in Nat
    BY <1>2
  <2>4. CASE how = "early"
    <3>1. UNCHANGED <<gen, last>> /\ pc' = "idle"
      BY Zenon, <1>2, <2>4
    <3> QED
      BY Zenon, <2>2, <3>1 DEF Generations
  <2>5. CASE how # "early"
    <3>1. gen' = gen + 1 /\ last' = [t \in Target |-> IF t \in paths THEN gen + 1 ELSE last[t]]
      BY Zenon, <1>2, <2>5
    <3>2. \A t \in Target : last'[t] =< gen' /\ at'[t] =< gen' /\ dest'[t] =< gen'
      BY <3>1 DEF Generations
    <3>3. /\ \A t \in Target, g \in Gen : <<t, g>> \in aside' \cup kept' \cup listed' => g # 0 /\ g =< gen'
          /\ \A g \in failed' : g # 0 /\ g =< gen'
      BY <2>2, <3>1 DEF Generations
    <3>4. pc' \in Refreshing => gen' # 0 /\ \A t \in Target : last'[t] = gen' <=> t \in work'
      <4>1. pc' \in Refreshing => work' = paths
        BY Zenon, <1>2
      <4>2. \A t \in Target : last[t] # gen + 1
        BY DEF Generations
      <4> QED
        BY <2>3, <3>1, <4>1, <4>2
    <3>5. gen' \notin failed'
      BY <3>1 DEF Generations
    <3> QED
      BY Zenon, <3>2, <3>3, <3>4, <3>5 DEF Generations
  <2> QED
    BY Zenon, <2>4, <2>5
<1>6. ListsTheLast'
  BY <1>1, <1>2, <1>3 DEF WriteOutcome, ListsTheLast, Generations
<1>7. InOnePlace'
  BY <1>1, <1>2, <1>3 DEF WriteOutcome, InOnePlace, Generations, RefreshProgress, QuarantineProgress, Somewhere
<1>8. IsSomewhere'
  BY <1>1, <1>2, <1>3 DEF WriteOutcome, IsSomewhere, Generations, RefreshProgress, QuarantineProgress, Somewhere
<1>9. RefreshProgress'
  BY <1>1, <1>2, <1>3 DEF WriteOutcome, RefreshProgress, Generations, Somewhere, QuarantineProgress
<1>10. QuarantineProgress'
  BY Zenon, <1>1, <1>2, <1>3 DEF WriteOutcome, QuarantineProgress, RefreshProgress
<1>11. (smooth => RecordIsSound)'
  BY <1>1, <1>2, <1>3 DEF WriteOutcome, RecordIsSound, Generations, ListsTheLast, RefreshProgress, QuarantineProgress, JournalIsSound
<1>12. (smooth => JournalIsSound)'
  BY Zenon, <1>1, <1>2, <1>3 DEF WriteOutcome, JournalIsSound, ListsTheLast, QuarantineProgress, RecordIsSound
<1> QED BY Zenon, <1>4, <1>5, <1>6, <1>7, <1>8, <1>9, <1>10, <1>11, <1>12

\* Staging directories alone change.
LEMMA BuildIInv ==
  ASSUME IInv, Build
  PROVE  IInv'
<1> USE BoundAssumption DEF IInv, TypeOK, Gen, Records, Refreshing, Quarantining, disk, past, written,
        Build, Goto
<1>1. TypeOK'
  BY Zenon DEF TypeOK, Generations
<1>2. Generations'
  BY Zenon DEF Generations, RefreshProgress, ListsTheLast
<1>3. ListsTheLast'
  BY Zenon DEF ListsTheLast, Generations
<1>4. InOnePlace'
  BY ZenonT(40) DEF InOnePlace, Generations, RefreshProgress, QuarantineProgress, Somewhere
<1>5. IsSomewhere'
  BY Zenon DEF IsSomewhere, Generations, RefreshProgress, QuarantineProgress, Somewhere
<1>6. RefreshProgress'
  BY Zenon DEF RefreshProgress, Generations, Somewhere, QuarantineProgress
<1>7. QuarantineProgress'
  BY Zenon DEF QuarantineProgress, RefreshProgress, None
<1>8. (smooth => RecordIsSound)'
  BY ZenonT(40) DEF RecordIsSound, Generations, ListsTheLast, RefreshProgress, QuarantineProgress, JournalIsSound
<1>9. (smooth => JournalIsSound)'
  BY Zenon DEF JournalIsSound, ListsTheLast, QuarantineProgress, RecordIsSound, None
<1> QED BY Zenon, <1>1, <1>2, <1>3, <1>4, <1>5, <1>6, <1>7, <1>8, <1>9

\* Staging directories alone change.
LEMMA SealIInv ==
  ASSUME IInv, Seal
  PROVE  IInv'
<1> USE BoundAssumption DEF IInv, TypeOK, Gen, Records, Refreshing, Quarantining, disk, past, written,
        Seal, Goto
<1>1. TypeOK'
  BY Zenon DEF TypeOK, Generations
<1>2. Generations'
  BY Zenon DEF Generations, RefreshProgress, ListsTheLast
<1>3. ListsTheLast'
  BY Zenon DEF ListsTheLast, Generations
<1>4. InOnePlace'
  BY ZenonT(40) DEF InOnePlace, Generations, RefreshProgress, QuarantineProgress, Somewhere
<1>5. IsSomewhere'
  BY Zenon DEF IsSomewhere, Generations, RefreshProgress, QuarantineProgress, Somewhere
<1>6. RefreshProgress'
  BY Zenon DEF RefreshProgress, Generations, Somewhere, QuarantineProgress
<1>7. QuarantineProgress'
  BY Zenon DEF QuarantineProgress, RefreshProgress, None
<1>8. (smooth => RecordIsSound)'
  BY ZenonT(40) DEF RecordIsSound, Generations, ListsTheLast, RefreshProgress, QuarantineProgress, JournalIsSound
<1>9. (smooth => JournalIsSound)'
  BY Zenon DEF JournalIsSound, ListsTheLast, QuarantineProgress, RecordIsSound, None
<1> QED BY Zenon, <1>1, <1>2, <1>3, <1>4, <1>5, <1>6, <1>7, <1>8, <1>9

\* A target is emptied; what was there is in superseded/ from now on.
LEMMA MoveAsideIInv ==
  ASSUME IInv, NEW t \in Target, MoveAside(t)
  PROVE  IInv'
<1> USE BoundAssumption DEF IInv, TypeOK, Gen, Records, Refreshing, Quarantining, disk, past, written,
        MoveAside, SetAside, Goto
<1>1. TypeOK'
  BY DEF TypeOK, Generations
<1>2. Generations'
  BY DEF Generations, RefreshProgress, ListsTheLast
<1>3. ListsTheLast'
  BY Zenon DEF ListsTheLast, Generations
<1>4. InOnePlace'
  BY ZenonT(40) DEF InOnePlace, Generations, RefreshProgress, QuarantineProgress, Somewhere
<1>5. IsSomewhere'
  BY DEF IsSomewhere, Generations, RefreshProgress, QuarantineProgress, Somewhere
<1>6. RefreshProgress'
  BY DEF RefreshProgress, Generations, Somewhere, QuarantineProgress
<1>7. QuarantineProgress'
  BY Zenon DEF QuarantineProgress, RefreshProgress, None
<1>8. (smooth => RecordIsSound)'
  BY DEF RecordIsSound, Generations, ListsTheLast, RefreshProgress, QuarantineProgress, JournalIsSound
<1>9. (smooth => JournalIsSound)'
  BY Zenon DEF JournalIsSound, ListsTheLast, QuarantineProgress, RecordIsSound, None
<1> QED BY Zenon, <1>1, <1>2, <1>3, <1>4, <1>5, <1>6, <1>7, <1>8, <1>9

\* The new generation, nowhere so far, takes its emptied place.
LEMMA PlaceIInv ==
  ASSUME IInv, NEW t \in Target, Place(t)
  PROVE  IInv'
<1> USE BoundAssumption DEF IInv, TypeOK, Gen, Records, Refreshing, Quarantining, disk, past, written,
        Place, Goto
<1>1. TypeOK'
  BY Zenon DEF TypeOK, Generations
<1>2. Generations'
  BY DEF Generations, RefreshProgress, ListsTheLast
<1>3. ListsTheLast'
  BY Zenon DEF ListsTheLast, Generations
<1>4. InOnePlace'
  BY DEF InOnePlace, Generations, RefreshProgress, QuarantineProgress, Somewhere
<1>5. IsSomewhere'
  <2>1. ASSUME NEW u \in Target, NEW g \in Gen, g # 0, Somewhere(u, g) PROVE Somewhere(u, g)'
    BY Zenon, <2>1 DEF Somewhere, RefreshProgress
  <2> QED BY Zenon, <2>1 DEF IsSomewhere, Generations
<1>6. RefreshProgress'
  BY DEF RefreshProgress, Generations, Somewhere, QuarantineProgress
<1>7. QuarantineProgress'
  BY Zenon DEF QuarantineProgress, RefreshProgress, None
<1>8. (smooth => RecordIsSound)'
  BY DEF RecordIsSound, Generations, ListsTheLast, RefreshProgress, QuarantineProgress, JournalIsSound
<1>9. (smooth => JournalIsSound)'
  BY Zenon DEF JournalIsSound, ListsTheLast, QuarantineProgress, RecordIsSound, None
<1> QED BY Zenon, <1>1, <1>2, <1>3, <1>4, <1>5, <1>6, <1>7, <1>8, <1>9

\* The new packages are listed, all in place, or fail_closed takes over.
LEMMA CommitIInv ==
  ASSUME IInv, Commit
  PROVE  IInv'
<1> USE BoundAssumption DEF IInv, TypeOK, Gen, Records, Refreshing, Quarantining, disk, past, written,
        Commit, End, NoRecord, None, Faults, Goto
<1> DEFINE r == [pending |-> "none", targets |-> {},
                 packages |-> [t \in Target |-> IF t \in work THEN gen ELSE mem.packages[t]]]
<1>1. r \in Records
  BY Zenon
<1>2. PICK how \in {"ok"} \cup Faults :
         /\ Wrote(how, r)
         /\ IF how = "ok" THEN End
            ELSE mem' = r /\ Goto("unstage", {}) /\ UNCHANGED work
  BY Zenon
<1>3. WriteOutcome(how, r)
  BY Zenon, <1>1, <1>2, WriteLeaves
<1>4. TypeOK'
  BY <1>1, <1>2, <1>3 DEF WriteOutcome, TypeOK, Generations
<1>5. Generations'
  BY <1>1, <1>2, <1>3 DEF WriteOutcome, Generations, RefreshProgress, ListsTheLast
<1>6. ListsTheLast'
  BY <1>1, <1>2, <1>3 DEF WriteOutcome, ListsTheLast, Generations
<1>7. InOnePlace'
  BY SMTT(30), <1>1, <1>2, <1>3 DEF WriteOutcome, InOnePlace, Generations, RefreshProgress, QuarantineProgress, Somewhere
<1>8. IsSomewhere'
  <2>1. ASSUME NEW u \in Target, NEW g PROVE Somewhere(u, g)' <=> Somewhere(u, g)
    BY Zenon DEF Somewhere
  <2>2. ASSUME NEW u \in Target, r.packages[u] # 0 PROVE Somewhere(u, r.packages[u])
    <3>1. CASE u \in work
      BY Zenon, <3>1 DEF Somewhere, RefreshProgress
    <3>2. CASE u \notin work
      BY Zenon, <2>2, <3>2 DEF IsSomewhere
    <3> QED BY Zenon, <3>1, <3>2
  <2>3. \A u \in Target, g \in Gen : <<u, g>> \in listed' => Somewhere(u, g)'
    BY SMTT(30), <1>3, <2>1, <2>2 DEF WriteOutcome, IsSomewhere
  <2>4. \A u \in Target : (mem.packages[u] # 0 => Somewhere(u, mem.packages[u]))'
    BY SMTT(30), <1>2, <2>1, <2>2 DEF Somewhere
  <2>5. \A u \in Target : record'.packages[u] # 0 => <<u, record'.packages[u]>> \in listed'
    BY Zenon, <1>3 DEF WriteOutcome
  <2> QED BY Zenon, <2>3, <2>4, <2>5 DEF IsSomewhere
<1>9. RefreshProgress'
  BY Zenon, <1>1, <1>2, <1>3 DEF WriteOutcome, RefreshProgress, Generations, Somewhere, QuarantineProgress
<1>10. QuarantineProgress'
  BY Zenon, <1>1, <1>2, <1>3 DEF WriteOutcome, QuarantineProgress, RefreshProgress
<1>11. (smooth => RecordIsSound)'
  BY SMTT(30), <1>1, <1>2, <1>3 DEF WriteOutcome, RecordIsSound, Generations, ListsTheLast, RefreshProgress, QuarantineProgress, JournalIsSound
<1>12. (smooth => JournalIsSound)'
  BY Zenon, <1>1, <1>2, <1>3 DEF WriteOutcome, JournalIsSound, ListsTheLast, QuarantineProgress, RecordIsSound
<1> QED BY Zenon, <1>4, <1>5, <1>6, <1>7, <1>8, <1>9, <1>10, <1>11, <1>12

\* An error before the last write leaves the disk as it is.
LEMMA RefreshFailsIInv ==
  ASSUME IInv, RefreshFails
  PROVE  IInv'
<1> USE BoundAssumption DEF IInv, TypeOK, Gen, Records, Refreshing, Quarantining, disk, past, written,
        RefreshFails, Goto
<1>1. TypeOK'
  BY Zenon DEF TypeOK, Generations
<1>2. Generations'
  BY Zenon DEF Generations, RefreshProgress, ListsTheLast
<1>3. ListsTheLast'
  BY Zenon DEF ListsTheLast, Generations
<1>4. InOnePlace'
  BY ZenonT(40) DEF InOnePlace, Generations, RefreshProgress, QuarantineProgress, Somewhere
<1>5. IsSomewhere'
  BY Zenon DEF IsSomewhere, Generations, RefreshProgress, QuarantineProgress, Somewhere
<1>6. RefreshProgress'
  BY Zenon DEF RefreshProgress, Generations, Somewhere, QuarantineProgress
<1>7. QuarantineProgress'
  BY Zenon DEF QuarantineProgress, RefreshProgress, None
<1>8. (smooth => RecordIsSound)'
  BY ZenonT(40) DEF RecordIsSound, Generations, ListsTheLast, RefreshProgress, QuarantineProgress, JournalIsSound
<1>9. (smooth => JournalIsSound)'
  BY Zenon DEF JournalIsSound, ListsTheLast, QuarantineProgress, RecordIsSound, None
<1> QED BY Zenon, <1>1, <1>2, <1>3, <1>4, <1>5, <1>6, <1>7, <1>8, <1>9

\* The generation has failed; nothing of it is listed.
LEMMA UnstageIInv ==
  ASSUME IInv, Unstage
  PROVE  IInv'
<1> USE BoundAssumption DEF IInv, TypeOK, Gen, Records, Refreshing, Quarantining, disk, past, written,
        Unstage, Goto
<1>1. TypeOK'
  BY Zenon DEF TypeOK, Generations
<1>2. Generations'
  BY DEF Generations, RefreshProgress, ListsTheLast
<1>3. ListsTheLast'
  BY Zenon DEF ListsTheLast, Generations
<1>4. InOnePlace'
  BY ZenonT(40) DEF InOnePlace, Generations, RefreshProgress, QuarantineProgress, Somewhere
<1>5. IsSomewhere'
  BY Zenon DEF IsSomewhere, Generations, RefreshProgress, QuarantineProgress, Somewhere
<1>6. RefreshProgress'
  BY Zenon DEF RefreshProgress, Generations, Somewhere, QuarantineProgress
<1>7. QuarantineProgress'
  BY Zenon DEF QuarantineProgress, RefreshProgress, None
<1>8. (smooth => RecordIsSound)'
  <2> SUFFICES ASSUME smooth
               PROVE  RecordIsSound'
    BY Zenon
  <2>1. RecordIsSound
    BY Zenon
  <2>2. ASSUME NEW t \in Target
        PROVE  record.packages[t] # gen
    <3>1. CASE t \in work
      BY Zenon, <2>1, <3>1 DEF RecordIsSound, Generations
    <3>2. CASE t \notin work
      BY Zenon, <3>2 DEF Generations, ListsTheLast
    <3> QED
      BY Zenon, <3>1, <3>2
  <2> QED
    BY ZenonT(40), <2>1, <2>2 DEF RecordIsSound
<1>9. (smooth => JournalIsSound)'
  BY Zenon DEF JournalIsSound, ListsTheLast, QuarantineProgress, RecordIsSound, None
<1> QED BY Zenon, <1>1, <1>2, <1>3, <1>4, <1>5, <1>6, <1>7, <1>8, <1>9

\* What is at a target of the failed refresh is set aside, or stays.
LEMMA InvalidateIInv ==
  ASSUME IInv, NEW t \in Target, Invalidate(t)
  PROVE  IInv'
<1> USE BoundAssumption DEF IInv, TypeOK, Gen, Records, Refreshing, Quarantining, disk, past, written,
        Invalidate, SetAside, Goto
<1>1. TypeOK'
  BY DEF TypeOK, Generations
<1>2. Generations'
  BY DEF Generations, RefreshProgress, ListsTheLast
<1>3. ListsTheLast'
  BY Zenon DEF ListsTheLast, Generations
<1>4. InOnePlace'
  BY DEF InOnePlace, Generations, RefreshProgress, QuarantineProgress, Somewhere
<1>5. IsSomewhere'
  BY DEF IsSomewhere, Generations, RefreshProgress, QuarantineProgress, Somewhere
<1>6. RefreshProgress'
  BY Zenon DEF RefreshProgress, Generations, Somewhere, QuarantineProgress
<1>7. QuarantineProgress'
  BY Zenon DEF QuarantineProgress, RefreshProgress, None
<1>8. (smooth => RecordIsSound)'
  BY DEF RecordIsSound, Generations, ListsTheLast, RefreshProgress, QuarantineProgress, JournalIsSound
<1>9. (smooth => JournalIsSound)'
  BY Zenon DEF JournalIsSound, ListsTheLast, QuarantineProgress, RecordIsSound, None
<1> QED BY Zenon, <1>1, <1>2, <1>3, <1>4, <1>5, <1>6, <1>7, <1>8, <1>9

\* The copy is written with nothing pending.
LEMMA ClearIInv ==
  ASSUME IInv, Clear
  PROVE  IInv'
<1> USE BoundAssumption DEF IInv, TypeOK, Gen, Records, Refreshing, Quarantining, disk, past, written,
        Clear, End, NoRecord, None, Faults
<1>1. [mem EXCEPT !.pending = "none", !.targets = {}] \in Records
  BY Zenon
<1>2. PICK how \in {"ok"} \cup Faults : Wrote(how, [mem EXCEPT !.pending = "none", !.targets = {}])
  BY Zenon
<1>3. WriteOutcome(how, [mem EXCEPT !.pending = "none", !.targets = {}])
  BY Zenon, <1>1, <1>2, WriteLeaves
<1>4. TypeOK'
  BY <1>1, <1>2, <1>3 DEF WriteOutcome, TypeOK, Generations
<1>5. Generations'
  BY <1>1, <1>2, <1>3 DEF WriteOutcome, Generations, RefreshProgress, ListsTheLast
<1>6. ListsTheLast'
  BY Zenon, <1>1, <1>2, <1>3 DEF WriteOutcome, ListsTheLast, Generations
<1>7. InOnePlace'
  BY <1>1, <1>2, <1>3 DEF WriteOutcome, InOnePlace, Generations, RefreshProgress, QuarantineProgress, Somewhere
<1>8. IsSomewhere'
  BY <1>1, <1>2, <1>3 DEF WriteOutcome, IsSomewhere, Generations, RefreshProgress, QuarantineProgress, Somewhere
<1>9. RefreshProgress'
  BY Zenon, <1>1, <1>2, <1>3 DEF WriteOutcome, RefreshProgress, Generations, Somewhere, QuarantineProgress
<1>10. QuarantineProgress'
  BY Zenon, <1>1, <1>2, <1>3 DEF WriteOutcome, QuarantineProgress, RefreshProgress
<1>11. (smooth => RecordIsSound)'
  BY <1>1, <1>2, <1>3 DEF WriteOutcome, RecordIsSound, Generations, ListsTheLast, RefreshProgress, QuarantineProgress, JournalIsSound
<1>12. (smooth => JournalIsSound)'
  BY Zenon, <1>1, <1>2, <1>3 DEF WriteOutcome, JournalIsSound, ListsTheLast, QuarantineProgress, RecordIsSound
<1> QED BY Zenon, <1>4, <1>5, <1>6, <1>7, <1>8, <1>9, <1>10, <1>11, <1>12

\* The journal names exactly the packages in place.
LEMMA QuarantineIInv ==
  ASSUME IInv, Quarantine
  PROVE  IInv'
<1> USE BoundAssumption DEF IInv, TypeOK, Gen, Records, Refreshing, Quarantining, disk, past, written,
        Quarantine, Withdrawn, Unlisted, Present, Goto, None
<1>1. TypeOK'
  BY DEF TypeOK, Generations
<1>2. Generations'
  BY DEF Generations, RefreshProgress, ListsTheLast
<1>3. ListsTheLast'
  BY Zenon DEF ListsTheLast, Generations
<1>4. InOnePlace'
  BY Zenon DEF InOnePlace, Generations, RefreshProgress, QuarantineProgress, Somewhere
<1>5. IsSomewhere'
  BY Zenon DEF IsSomewhere, Generations, RefreshProgress, QuarantineProgress, Somewhere
<1>6. RefreshProgress'
  BY Zenon DEF RefreshProgress, Generations, Somewhere, QuarantineProgress
<1>7. QuarantineProgress'
  BY Zenon DEF QuarantineProgress, RefreshProgress
<1>8. (smooth => RecordIsSound)'
  BY ZenonT(40) DEF RecordIsSound, Generations, ListsTheLast, RefreshProgress, QuarantineProgress, JournalIsSound
<1>9. (smooth => JournalIsSound)'
  BY DEF JournalIsSound, ListsTheLast, QuarantineProgress, RecordIsSound
<1> QED BY Zenon, <1>1, <1>2, <1>3, <1>4, <1>5, <1>6, <1>7, <1>8, <1>9

\* The record follows the journal, or the quarantine is off.
LEMMA UnlistIInv ==
  ASSUME IInv, Unlist
  PROVE  IInv'
<1> USE BoundAssumption DEF IInv, TypeOK, Gen, Records, Refreshing, Quarantining, disk, past, written,
        Unlist, End, NoRecord, None, Faults, Goto, NoJournal
<1>1. mem \in Records
  BY Zenon
<1>2. PICK how \in {"ok"} \cup Faults :
         /\ Wrote(how, mem)
         /\ IF how = "ok"
            THEN Goto("moving", work) /\ UNCHANGED <<journal, work, mem>>
            ELSE journal' = NoJournal /\ End
  BY Zenon
<1>3. WriteOutcome(how, mem)
  BY Zenon, <1>1, <1>2, WriteLeaves
<1>4. TypeOK'
  <2>1. record' \in Records /\ smooth' \in BOOLEAN /\ listed' \in SUBSET (Target \X Gen)
    BY Zenon, <1>3 DEF WriteOutcome
  <2>2. /\ mem' \in Records /\ pc' \in {"idle", "journalled"} \cup Refreshing \cup Quarantining
        /\ work' \in SUBSET Target /\ todo' \in SUBSET work'
    BY <1>1, <1>2
  <2>3. gen' \in Gen /\ last' \in [Target -> Gen] /\ failed' \in SUBSET Gen
    BY Zenon, <1>2
  <2>4. staging' \in [Target -> {"none", "open", "sealed"}]
    BY Zenon
  <2>5. /\ at' \in [Target -> Gen] /\ dest' \in [Target -> Gen]
        /\ aside' \in SUBSET (Target \X Gen) /\ kept' \in SUBSET (Target \X Gen)
    BY Zenon
  <2>6. journal' \in [there : BOOLEAN, moves : SUBSET Target]
    <3>1. NoJournal \in [there : BOOLEAN, moves : SUBSET Target]
      BY Zenon
    <3>2. journal' = journal \/ journal' = NoJournal
      BY Zenon, <1>2
    <3> QED BY Zenon, <3>1, <3>2
  <2> QED BY Zenon, <2>1, <2>2, <2>3, <2>4, <2>5, <2>6
<1>5. Generations'
  BY <1>1, <1>2, <1>3 DEF WriteOutcome, Generations, RefreshProgress, ListsTheLast
<1>6. ListsTheLast'
  BY <1>1, <1>2, <1>3 DEF WriteOutcome, ListsTheLast, Generations
<1>7. InOnePlace'
  BY SMTT(30), <1>1, <1>2, <1>3 DEF WriteOutcome, InOnePlace, Generations, RefreshProgress, QuarantineProgress, Somewhere
<1>8. IsSomewhere'
  BY SMTT(30), <1>1, <1>2, <1>3 DEF WriteOutcome, IsSomewhere, Generations, RefreshProgress, QuarantineProgress, Somewhere
<1>9. RefreshProgress'
  BY Zenon, <1>1, <1>2, <1>3 DEF WriteOutcome, RefreshProgress, Generations, Somewhere, QuarantineProgress
<1>10. QuarantineProgress'
  <2>1. dest = None
    BY Zenon DEF QuarantineProgress
  <2>2. record'.pending = "quarantine" \/ record'.pending = record.pending
    BY Zenon, <1>3 DEF WriteOutcome, QuarantineProgress
  <2>3. CASE how = "ok"
    <3>1. record'.pending = "quarantine"
      BY Zenon, <1>3, <2>3 DEF WriteOutcome, QuarantineProgress
    <3> QED BY Zenon, <1>2, <2>1, <2>3, <3>1 DEF QuarantineProgress
  <2>4. CASE how # "ok"
    BY Zenon, <1>2, <2>1, <2>4 DEF QuarantineProgress
  <2> QED BY Zenon, <2>3, <2>4
<1>11. (smooth => RecordIsSound)'
  BY SMTT(30), <1>1, <1>2, <1>3 DEF WriteOutcome, RecordIsSound, Generations, ListsTheLast, RefreshProgress, QuarantineProgress, JournalIsSound
<1>12. (smooth => JournalIsSound)'
  BY SMTT(30), <1>1, <1>2, <1>3 DEF WriteOutcome, JournalIsSound, ListsTheLast, QuarantineProgress, RecordIsSound
<1> QED BY Zenon, <1>4, <1>5, <1>6, <1>7, <1>8, <1>9, <1>10, <1>11, <1>12

\* A package is moved, and in the quarantine from now on.
LEMMA MoveOutIInv ==
  ASSUME IInv, NEW t \in Target, MoveOut(t)
  PROVE  IInv'
<1> USE BoundAssumption DEF IInv, TypeOK, Gen, Records, Refreshing, Quarantining, disk, past, written,
        MoveOut, Move, Goto
<1>1. TypeOK'
  BY DEF TypeOK, Generations
<1>2. Generations'
  BY DEF Generations, RefreshProgress, ListsTheLast
<1>3. ListsTheLast'
  BY Zenon DEF ListsTheLast, Generations
<1>4. InOnePlace'
  BY DEF InOnePlace, Generations, RefreshProgress, QuarantineProgress, Somewhere
<1>5. IsSomewhere'
  BY DEF IsSomewhere, Generations, RefreshProgress, QuarantineProgress, Somewhere
<1>6. RefreshProgress'
  BY Zenon DEF RefreshProgress, Generations, Somewhere, QuarantineProgress
<1>7. QuarantineProgress'
  BY DEF QuarantineProgress, RefreshProgress, None
<1>8. (smooth => RecordIsSound)'
  BY DEF RecordIsSound, Generations, ListsTheLast, RefreshProgress, QuarantineProgress, JournalIsSound
<1>9. (smooth => JournalIsSound)'
  BY Zenon DEF JournalIsSound, ListsTheLast, QuarantineProgress, RecordIsSound, None
<1> QED BY Zenon, <1>1, <1>2, <1>3, <1>4, <1>5, <1>6, <1>7, <1>8, <1>9

\* What was moved is what has to go back.
LEMMA MoveFailsIInv ==
  ASSUME IInv, MoveFails
  PROVE  IInv'
<1> USE BoundAssumption DEF IInv, TypeOK, Gen, Records, Refreshing, Quarantining, disk, past, written,
        MoveFails, Goto
<1>1. TypeOK'
  BY Zenon DEF TypeOK, Generations
<1>2. Generations'
  BY Zenon DEF Generations, RefreshProgress, ListsTheLast
<1>3. ListsTheLast'
  BY Zenon DEF ListsTheLast, Generations
<1>4. InOnePlace'
  BY ZenonT(40) DEF InOnePlace, Generations, RefreshProgress, QuarantineProgress, Somewhere
<1>5. IsSomewhere'
  BY Zenon DEF IsSomewhere, Generations, RefreshProgress, QuarantineProgress, Somewhere
<1>6. RefreshProgress'
  BY Zenon DEF RefreshProgress, Generations, Somewhere, QuarantineProgress
<1>7. QuarantineProgress'
  BY Zenon DEF QuarantineProgress, RefreshProgress, None
<1>8. (smooth => RecordIsSound)'
  BY DEF RecordIsSound, Generations, ListsTheLast, RefreshProgress, QuarantineProgress, JournalIsSound
<1>9. (smooth => JournalIsSound)'
  BY Zenon DEF JournalIsSound, ListsTheLast, QuarantineProgress, RecordIsSound, None
<1> QED BY Zenon, <1>1, <1>2, <1>3, <1>4, <1>5, <1>6, <1>7, <1>8, <1>9

\* A package is back in its place, which was empty.
LEMMA PutBackIInv ==
  ASSUME IInv, NEW t \in Target, PutBack(t)
  PROVE  IInv'
<1> USE BoundAssumption DEF IInv, TypeOK, Gen, Records, Refreshing, Quarantining, disk, past, written,
        PutBack, Goto
<1>1. TypeOK'
  BY DEF TypeOK, Generations
<1>2. Generations'
  BY DEF Generations, RefreshProgress, ListsTheLast
<1>3. ListsTheLast'
  BY Zenon DEF ListsTheLast, Generations
<1>4. InOnePlace'
  BY DEF InOnePlace, Generations, RefreshProgress, QuarantineProgress, Somewhere
<1>5. IsSomewhere'
  BY DEF IsSomewhere, Generations, RefreshProgress, QuarantineProgress, Somewhere
<1>6. RefreshProgress'
  BY Zenon DEF RefreshProgress, Generations, Somewhere, QuarantineProgress
<1>7. QuarantineProgress'
  BY ZenonT(40) DEF QuarantineProgress, RefreshProgress, None
<1>8. (smooth => RecordIsSound)'
  BY DEF RecordIsSound, Generations, ListsTheLast, RefreshProgress, QuarantineProgress, JournalIsSound
<1>9. (smooth => JournalIsSound)'
  BY Zenon DEF JournalIsSound, ListsTheLast, QuarantineProgress, RecordIsSound, None
<1> QED BY Zenon, <1>1, <1>2, <1>3, <1>4, <1>5, <1>6, <1>7, <1>8, <1>9

\* Everything is back and nothing is listed.
LEMMA RolledBackIInv ==
  ASSUME IInv, RolledBack
  PROVE  IInv'
<1> USE BoundAssumption DEF IInv, TypeOK, Gen, Records, Refreshing, Quarantining, disk, past, written,
        RolledBack, End, NoRecord, None, Faults
<1>1. [mem EXCEPT !.pending = "none"] \in Records
  BY Zenon
<1>2. PICK how \in {"ok"} \cup Faults : Wrote(how, [mem EXCEPT !.pending = "none"])
  BY Zenon
<1>3. WriteOutcome(how, [mem EXCEPT !.pending = "none"])
  BY Zenon, <1>1, <1>2, WriteLeaves
<1>4. TypeOK'
  <2>1. record' \in Records /\ smooth' \in BOOLEAN /\ listed' \in SUBSET (Target \X Gen)
    BY Zenon, <1>3 DEF WriteOutcome
  <2>2. /\ mem' \in Records /\ pc' \in {"idle", "journalled"} \cup Refreshing \cup Quarantining
        /\ work' \in SUBSET Target /\ todo' \in SUBSET work'
    BY <1>1, <1>2
  <2>3. gen' \in Gen /\ last' \in [Target -> Gen] /\ failed' \in SUBSET Gen
    BY Zenon, <1>2
  <2>4. staging' \in [Target -> {"none", "open", "sealed"}]
    BY Zenon
  <2>5. /\ at' \in [Target -> Gen] /\ dest' \in [Target -> Gen]
        /\ aside' \in SUBSET (Target \X Gen) /\ kept' \in SUBSET (Target \X Gen)
        /\ journal' \in [there : BOOLEAN, moves : SUBSET Target]
    BY Zenon, <1>2
  <2> QED BY Zenon, <2>1, <2>2, <2>3, <2>4, <2>5
<1>5. Generations'
  BY <1>1, <1>2, <1>3 DEF WriteOutcome, Generations, RefreshProgress, ListsTheLast
<1>6. ListsTheLast'
  BY Zenon, <1>1, <1>2, <1>3 DEF WriteOutcome, ListsTheLast, Generations
<1>7. InOnePlace'
  BY <1>1, <1>2, <1>3 DEF WriteOutcome, InOnePlace, Generations, RefreshProgress, QuarantineProgress, Somewhere
<1>8. IsSomewhere'
  BY <1>1, <1>2, <1>3 DEF WriteOutcome, IsSomewhere, Generations, RefreshProgress, QuarantineProgress, Somewhere
<1>9. RefreshProgress'
  BY Zenon, <1>1, <1>2, <1>3 DEF WriteOutcome, RefreshProgress, Generations, Somewhere, QuarantineProgress
<1>10. QuarantineProgress'
  BY <1>1, <1>2, <1>3 DEF WriteOutcome, QuarantineProgress, RefreshProgress
<1>11. (smooth => RecordIsSound)'
  BY <1>1, <1>2, <1>3 DEF WriteOutcome, RecordIsSound, Generations, ListsTheLast, RefreshProgress, QuarantineProgress, JournalIsSound
<1>12. (smooth => JournalIsSound)'
  BY Zenon, <1>1, <1>2, <1>3 DEF WriteOutcome, JournalIsSound, ListsTheLast, QuarantineProgress, RecordIsSound
<1> QED BY Zenon, <1>4, <1>5, <1>6, <1>7, <1>8, <1>9, <1>10, <1>11, <1>12

\* What was moved is kept, and the quarantine is over.
LEMMA FinishQuarantineIInv ==
  ASSUME IInv, NEW how \in {"ok"} \cup Faults, FinishQuarantine(how)
  PROVE  IInv'
<1> USE BoundAssumption DEF IInv, TypeOK, Gen, Records, Refreshing, Quarantining, disk, past, written,
        FinishQuarantine, End, NoRecord, None, Faults
<1>1. [mem EXCEPT !.pending = "none"] \in Records
  BY Zenon
<1>2. WriteOutcome(how, [mem EXCEPT !.pending = "none"])
  BY Zenon, <1>1, WriteLeaves
<1>3. TypeOK'
  BY <1>1, <1>2 DEF WriteOutcome, TypeOK, Generations
<1>4. Generations'
  BY <1>1, <1>2 DEF WriteOutcome, Generations, RefreshProgress, ListsTheLast
<1>5. ListsTheLast'
  BY Zenon, <1>1, <1>2 DEF WriteOutcome, ListsTheLast, Generations
<1>6. InOnePlace'
  BY <1>1, <1>2 DEF WriteOutcome, InOnePlace, Generations, RefreshProgress, QuarantineProgress, Somewhere
<1>7. IsSomewhere'
  BY <1>1, <1>2 DEF WriteOutcome, IsSomewhere, Generations, RefreshProgress, QuarantineProgress, Somewhere
<1>8. RefreshProgress'
  BY Zenon, <1>1, <1>2 DEF WriteOutcome, RefreshProgress, Generations, Somewhere, QuarantineProgress
<1>9. QuarantineProgress'
  BY Zenon, <1>1, <1>2 DEF WriteOutcome, QuarantineProgress, RefreshProgress
<1>10. (smooth => RecordIsSound)'
  BY <1>1, <1>2 DEF WriteOutcome, RecordIsSound, Generations, ListsTheLast, RefreshProgress, QuarantineProgress, JournalIsSound
<1>11. (smooth => JournalIsSound)'
  BY <1>1, <1>2 DEF WriteOutcome, JournalIsSound, ListsTheLast, QuarantineProgress, RecordIsSound
<1> QED BY Zenon, <1>3, <1>4, <1>5, <1>6, <1>7, <1>8, <1>9, <1>10, <1>11

\* The journal says what is left to move.
LEMMA RecoverIInv ==
  ASSUME IInv, Recover
  PROVE  IInv'
<1> USE BoundAssumption DEF IInv, TypeOK, Gen, Records, Refreshing, Quarantining, disk, past, written,
        Recover, Unlisted, Goto
<1>1. TypeOK'
  BY DEF TypeOK, Generations
<1>2. Generations'
  BY Zenon DEF Generations, RefreshProgress, ListsTheLast
<1>3. ListsTheLast'
  BY Zenon DEF ListsTheLast, Generations
<1>4. InOnePlace'
  BY ZenonT(40) DEF InOnePlace, Generations, RefreshProgress, QuarantineProgress, Somewhere
<1>5. IsSomewhere'
  BY Zenon DEF IsSomewhere, Generations, RefreshProgress, QuarantineProgress, Somewhere
<1>6. RefreshProgress'
  BY Zenon DEF RefreshProgress, Generations, Somewhere, QuarantineProgress
<1>7. QuarantineProgress'
  BY Zenon DEF QuarantineProgress, RefreshProgress, None
<1>8. (smooth => RecordIsSound)'
  BY DEF RecordIsSound, Generations, ListsTheLast, RefreshProgress, QuarantineProgress, JournalIsSound
<1>9. (smooth => JournalIsSound)'
  BY ZenonT(40) DEF JournalIsSound, ListsTheLast, QuarantineProgress, RecordIsSound, None
<1> QED BY Zenon, <1>1, <1>2, <1>3, <1>4, <1>5, <1>6, <1>7, <1>8, <1>9

\* A path is in the quarantine alone, whether or not it was before.
LEMMA RecoverMoveIInv ==
  ASSUME IInv, NEW t \in Target, RecoverMove(t)
  PROVE  IInv'
<1> USE BoundAssumption DEF IInv, TypeOK, Gen, Records, Refreshing, Quarantining, disk, past, written,
        RecoverMove, Move, Goto
<1>1. TypeOK'
  <2>1. at' \in [Target -> Gen] /\ dest' \in [Target -> Gen]
    OBVIOUS
  <2>2. pc' \in {"finish", "recover"} /\ todo' \in SUBSET work /\ work' = work
    BY Zenon
  <2> QED
    BY Zenon, <2>1, <2>2
<1>2. Generations'
  BY ZenonT(40) DEF Generations, RefreshProgress, ListsTheLast
<1>3. ListsTheLast'
  BY Zenon DEF ListsTheLast, Generations
<1>4. InOnePlace'
  BY DEF InOnePlace, Generations, RefreshProgress, QuarantineProgress, Somewhere
<1>5. IsSomewhere'
  <2>1. ASSUME NEW u \in Target, NEW g \in Gen, g # 0, Somewhere(u, g) PROVE Somewhere(u, g)'
    BY <2>1 DEF Somewhere, QuarantineProgress
  <2> QED BY Zenon, <2>1 DEF IsSomewhere, Generations
<1>6. RefreshProgress'
  BY Zenon DEF RefreshProgress, Generations, Somewhere, QuarantineProgress
<1>7. QuarantineProgress'
  BY Zenon DEF QuarantineProgress, RefreshProgress, None
<1>8. (smooth => RecordIsSound)'
  BY DEF RecordIsSound, Generations, ListsTheLast, RefreshProgress, QuarantineProgress, JournalIsSound
<1>9. (smooth => JournalIsSound)'
  BY DEF JournalIsSound, ListsTheLast, QuarantineProgress, RecordIsSound, None
<1> QED BY Zenon, <1>1, <1>2, <1>3, <1>4, <1>5, <1>6, <1>7, <1>8, <1>9

\* A killed operation leaves the disk as it is, and its copy is gone.
LEMMA StopIInv ==
  ASSUME IInv, Stop
  PROVE  IInv'
<1> USE BoundAssumption DEF IInv, TypeOK, Gen, Records, Refreshing, Quarantining, disk, past, written,
        Stop, End, NoRecord, None
<1>1. TypeOK'
  BY DEF TypeOK, Generations
<1>2. Generations'
  BY Zenon DEF Generations, RefreshProgress, ListsTheLast
<1>3. ListsTheLast'
  BY Zenon DEF ListsTheLast, Generations
<1>4. InOnePlace'
  BY ZenonT(40) DEF InOnePlace, Generations, RefreshProgress, QuarantineProgress, Somewhere
<1>5. IsSomewhere'
  BY Zenon DEF IsSomewhere, Generations, RefreshProgress, QuarantineProgress, Somewhere
<1>6. RefreshProgress'
  BY Zenon DEF RefreshProgress, Generations, Somewhere, QuarantineProgress
<1>7. QuarantineProgress'
  BY Zenon DEF QuarantineProgress, RefreshProgress
<1>8. (smooth => RecordIsSound)'
  BY SMTT(30) DEF RecordIsSound, Generations, ListsTheLast, RefreshProgress, QuarantineProgress, JournalIsSound
<1>9. (smooth => JournalIsSound)'
  BY Zenon DEF JournalIsSound, ListsTheLast, QuarantineProgress, RecordIsSound
<1> QED BY Zenon, <1>1, <1>2, <1>3, <1>4, <1>5, <1>6, <1>7, <1>8, <1>9

-----------------------------------------------------------------------------
\* A run without packages.
LEMMA InitIInv == Init => IInv
BY SMTT(30), BoundAssumption
   DEF Init, IInv, TypeOK, Generations, ListsTheLast, InOnePlace, IsSomewhere, Somewhere,
       RefreshProgress, QuarantineProgress, RecordIsSound, JournalIsSound, Refreshing,
       Quarantining, Records, Gen, None, NoRecord, NoJournal

\* Every step of every operation preserves the invariant.
LEMMA NextIInv == IInv /\ [Next]_vars => IInv'
<1> SUFFICES ASSUME IInv, [Next]_vars PROVE IInv'
  BY Zenon
<1>1. CASE UNCHANGED vars
  <2>1. UNCHANGED <<at, staging, aside, dest, kept, journal, record, mem, pc, work, todo,
                    gen, last, failed, listed, smooth>>
    BY Zenon, <1>1 DEF vars
  <2>2. TypeOK' /\ Generations' /\ ListsTheLast' /\ InOnePlace'
    BY Zenon, <2>1 DEF IInv, TypeOK, Generations, ListsTheLast, InOnePlace
  <2>3. IsSomewhere' /\ RefreshProgress' /\ QuarantineProgress'
    BY Zenon, <2>1 DEF IInv, IsSomewhere, Somewhere, RefreshProgress, QuarantineProgress
  <2>4. (smooth => RecordIsSound /\ JournalIsSound)'
    BY Zenon, <2>1 DEF IInv, RecordIsSound, JournalIsSound
  <2> QED
    BY Zenon, <2>2, <2>3, <2>4 DEF IInv
<1>2. CASE \E paths \in SUBSET Target : Refresh(paths)
  BY Zenon, <1>2, RefreshIInv
<1>3. CASE Build \/ Seal \/ Commit \/ RefreshFails \/ Unstage \/ Clear
  BY Zenon, <1>3, BuildIInv, SealIInv, CommitIInv, RefreshFailsIInv, UnstageIInv, ClearIInv
<1>4. CASE Quarantine \/ Unlist \/ MoveFails \/ RolledBack \/ Recover \/ Stop
  BY Zenon, <1>4, QuarantineIInv, UnlistIInv, MoveFailsIInv, RolledBackIInv, RecoverIInv, StopIInv
<1>5. CASE \E t \in Target : MoveAside(t) \/ Place(t) \/ Invalidate(t) \/ MoveOut(t)
                             \/ PutBack(t) \/ RecoverMove(t)
  BY Zenon, <1>5, MoveAsideIInv, PlaceIInv, InvalidateIInv, MoveOutIInv, PutBackIInv, RecoverMoveIInv
<1>6. CASE \E how \in {"ok"} \cup Faults : FinishQuarantine(how)
  BY Zenon, <1>6, FinishQuarantineIInv
<1> QED BY Zenon, <1>1, <1>2, <1>3, <1>4, <1>5, <1>6 DEF Next, Step

\* The inductive invariant holds in every reachable state, for every set of
\* package paths and every number of refreshes.
THEOREM Invariance == Spec => []IInv
BY InitIInv, NextIInv, PTL DEF Spec

\* What verify reports current is always the outcome of the last refresh
\* begun on that path: no kill, failed write, failed move or half-done
\* quarantine brings an older package back to be signed.
THEOREM OnlyTheLastBuildVerifies == Spec => []CurrentIsTheLastBuild
<1>1. IInv => CurrentIsTheLastBuild
  BY DEF IInv, ListsTheLast, CurrentIsTheLastBuild, Verifies
<1> QED BY <1>1, Invariance, PTL

\* A package that was ever listed is at all times in exactly one of its
\* path, superseded/ and quarantine/: no order of refreshes, quarantines,
\* failures and kills deletes or duplicates one.
THEOREM PackagesAreKept == Spec => []NothingIsDeleted
<1>1. IInv => NothingIsDeleted
  <2> SUFFICES ASSUME IInv, NEW p \in listed PROVE Places(p[1], p[2]) = 1
    BY Zenon DEF NothingIsDeleted
  <2>1. PICK t \in Target, g \in Gen : p = <<t, g>>
    BY DEF IInv, TypeOK
  <2>2. g # 0 /\ Somewhere(t, g)
    BY Zenon, <2>1 DEF IInv, Generations, IsSomewhere
  <2>3. /\ ~ (at[t] = g /\ dest[t] = g)
        /\ <<t, g>> \in aside => at[t] # g /\ dest[t] # g /\ <<t, g>> \notin kept
        /\ <<t, g>> \in kept => at[t] # g /\ dest[t] # g
    BY Zenon, <2>2 DEF IInv, InOnePlace
  <2>4. Places(t, g) = 1
    BY <2>2, <2>3 DEF Places, Somewhere
  <2> QED BY Zenon, <2>1, <2>4
<1> QED BY <1>1, Invariance, PTL

\* While every write behaves as the handlers expect, the packages of one
\* refresh are listed together or not at all, none of a failed refresh is
\* listed, and with nothing pending everything listed is in place.
THEOREM RefreshesListAsAWhole == Spec => []ListedAsAWhole
<1>1. IInv => ListedAsAWhole
  BY DEF IInv, QuarantineProgress, RecordIsSound, ListedAsAWhole, FailureUnlists
<1> QED BY <1>1, Invariance, PTL

\* While every write behaves as the handlers expect, --recover finds the
\* journal of an interrupted quarantine, and every path of it in the run
\* alone or in the quarantine alone.
THEOREM QuarantineIsRecoverable == Spec => []RecoverCanFinish
<1>1. IInv => RecoverCanFinish
  BY DEF IInv, JournalIsSound, RecoverCanFinish, RecoverFindsTheJournal
<1> QED BY <1>1, Invariance, PTL
=============================================================================
