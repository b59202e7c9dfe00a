---------------------------- MODULE RunPackages ----------------------------
(***************************************************************************)
(* The signable packages of a claims run on disk: the refresh and the      *)
(* verification of bridge-claims/tools/package.py and the quarantine and   *)
(* its recovery of bridge-claims/tools/quarantine.py.                      *)
(*                                                                         *)
(* Every operation holds the run's lock, so one runs at a time; what can   *)
(* go wrong is that it stops: any of its steps may raise an error, which   *)
(* its own handlers see, and the process may be killed between any two     *)
(* steps, which releases the lock and leaves the disk as it is.  A package *)
(* is the generation it was sealed with; 0 stands for no package.          *)
(***************************************************************************)
EXTENDS Naturals, FiniteSets

CONSTANTS
    Target,        \* the package paths of the run
    MaxGen         \* bound: refreshes that pass their first write

ASSUME BoundAssumption == MaxGen \in Nat

Gen == 0..MaxGen

\* How a write of the record may fail: before its rename, when the old record
\* is still there, or after it, when the new one already is.
Faults == {"early", "late"}

VARIABLES
    at,       \* target -> the package at its path
    staging,  \* target -> "none", "open", "sealed": a staging directory beside it
    aside,    \* superseded/: the <<target, generation>> moved there
    dest,     \* target -> the package in the directory of the open quarantine
    kept,     \* quarantine/: packages of quarantines that ended
    journal,  \* QUARANTINE.json of the open quarantine: [there, moves]
    record,   \* PACKAGES.json: [pending, targets, packages]
    mem,      \* the running operation's copy of the record
    pc,       \* where the running operation is; "idle": the lock is free
    work,     \* its targets
    todo,     \* those its present loop still has to do
    gen,      \* the generation of the running or the last refresh
    last,     \* target -> generation of the last refresh that unlisted it
    failed,   \* generations whose refresh ended in fail_closed
    listed,   \* <<target, generation>> the record has ever listed
    smooth    \* no write failed after its rename, and none that lists packages

vars == <<at, staging, aside, dest, kept, journal, record, mem, pc, work, todo,
          gen, last, failed, listed, smooth>>
disk == <<at, staging, aside, dest, kept, journal>>
past == <<gen, last, failed>>
written == <<listed, smooth>>

None == [t \in Target |-> 0]
NoRecord == [pending |-> "none", targets |-> {}, packages |-> None]
NoJournal == [there |-> FALSE, moves |-> {}]
Unlisted(packages, paths) == [t \in Target |-> IF t \in paths THEN 0 ELSE packages[t]]

Init ==
    /\ at = None /\ dest = None
    /\ staging = [t \in Target |-> "none"]
    /\ aside = {} /\ kept = {} /\ listed = {}
    /\ journal = NoJournal
    /\ record = NoRecord /\ mem = NoRecord
    /\ pc = "idle" /\ work = {} /\ todo = {}
    /\ gen = 0 /\ last = None /\ failed = {} /\ smooth = TRUE

-----------------------------------------------------------------------------
(***************************************************************************)
(* write_record: the new record replaces the old one in one rename; an     *)
(* error before the rename leaves the old one, an error after it (of the   *)
(* directory's fsync, or an interrupt) the new one.                        *)
(***************************************************************************)
Wrote(how, r) ==
    /\ record' = IF how = "early" THEN record ELSE r
    /\ smooth' = (smooth /\ (how = "ok" \/ (how = "early" /\ pc # "commit")))
    /\ listed' = listed \cup {<<t, record'.packages[t]>> : t \in {u \in Target : record'.packages[u] # 0}}

\* The running operation goes on at l with s to do, or ends.
Goto(l, s) == pc' = l /\ todo' = s
End == pc' = "idle" /\ todo' = {} /\ work' = {} /\ mem' = NoRecord

-----------------------------------------------------------------------------
(***************************************************************************)
(* A refresh (package.staged) of the packages at paths.                    *)
(***************************************************************************)
\* Bug: the targets stay listed while the refresh is pending.
OpenedListed(paths) == [record EXCEPT !.pending = "refresh", !.targets = paths]

Opened(paths) ==
    [pending |-> "refresh", targets |-> paths, packages |-> Unlisted(record.packages, paths)]

\* Under the lock, up to and with the first write: what an interrupted refresh
\* left in staging goes, the targets leave the record, and it is pending.  An
\* existing package stops a refresh without --replace; with it, any paths do.
Refresh(paths) ==
    /\ pc = "idle" /\ paths # {} /\ gen < MaxGen
    /\ record.pending # "quarantine"
    /\ staging' = IF record.pending = "none" THEN staging
                  ELSE [t \in Target |-> IF t \in record.targets THEN "none" ELSE staging[t]]
    /\ \E how \in {"ok"} \cup Faults :
         /\ Wrote(how, Opened(paths))
         /\ IF how = "ok"
            THEN mem' = Opened(paths) /\ work' = paths /\ Goto("build", {})
            ELSE End
         /\ IF how = "early" THEN UNCHANGED <<gen, last>>
            ELSE /\ gen' = gen + 1
                 /\ last' = [t \in Target |-> IF t \in paths THEN gen + 1 ELSE last[t]]
    /\ UNCHANGED <<at, aside, dest, kept, journal, failed>>

\* Bug: the new packages enter the operation's copy before they are in place.
BuildListing ==
    /\ pc = "build"
    /\ staging' = [t \in Target |-> IF t \in work THEN "open" ELSE staging[t]]
    /\ mem' = [mem EXCEPT !.packages = [t \in Target |-> IF t \in work THEN gen ELSE mem.packages[t]]]
    /\ Goto("seal", {})
    /\ UNCHANGED <<at, aside, dest, kept, journal, record, work, past, written>>

\* Staging directories are made and the caller writes into them.
Build ==
    /\ pc = "build"
    /\ staging' = [t \in Target |-> IF t \in work THEN "open" ELSE staging[t]]
    /\ Goto("seal", {})
    /\ UNCHANGED <<at, aside, dest, kept, journal, record, mem, work, past, written>>

\* GENERATION and PACKAGE.sha256 are written into each.
Seal ==
    /\ pc = "seal"
    /\ staging' = [t \in Target |-> IF t \in work THEN "sealed" ELSE staging[t]]
    /\ Goto("aside", work)
    /\ UNCHANGED <<at, aside, dest, kept, journal, record, mem, work, past, written>>

\* Bug: the earlier package is removed.
Removed(t) == at' = [at EXCEPT ![t] = 0] /\ UNCHANGED aside

\* set_aside: the package at t, if there is one, moves to superseded/.
SetAside(t) ==
    /\ at' = [at EXCEPT ![t] = 0]
    /\ aside' = IF at[t] = 0 THEN aside ELSE aside \cup {<<t, at[t]>>}

MoveAside(t) ==
    /\ pc = "aside" /\ t \in todo
    /\ SetAside(t)
    /\ IF todo = {t} THEN Goto("place", work) ELSE Goto("aside", todo \ {t})
    /\ UNCHANGED <<staging, dest, kept, journal, record, mem, work, past, written>>

\* os.replace: the staged package takes its place.
Place(t) ==
    /\ pc = "place" /\ t \in todo
    /\ at' = [at EXCEPT ![t] = gen]
    /\ staging' = [staging EXCEPT ![t] = "none"]
    /\ IF todo = {t} THEN Goto("commit", {}) ELSE Goto("place", todo \ {t})
    /\ UNCHANGED <<aside, dest, kept, journal, record, mem, work, past, written>>

\* The new packages are listed in the operation's copy, and the copy written.
Commit ==
    /\ pc = "commit"
    /\ LET r == [pending |-> "none", targets |-> {},
                 packages |-> [t \in Target |-> IF t \in work THEN gen ELSE mem.packages[t]]] IN
       \E how \in {"ok"} \cup Faults :
         /\ Wrote(how, r)
         /\ IF how = "ok" THEN End
            ELSE mem' = r /\ Goto("unstage", {}) /\ UNCHANGED work
    /\ UNCHANGED <<disk, past>>

\* An error in any step after the first write, Commit's own apart.
RefreshFails ==
    /\ pc \in {"build", "seal", "aside", "place"}
    /\ Goto("unstage", {})
    /\ UNCHANGED <<disk, record, mem, work, past, written>>

\* fail_closed: the staged directories are removed ...
Unstage ==
    /\ pc = "unstage"
    /\ staging' = [t \in Target |-> IF t \in work THEN "none" ELSE staging[t]]
    /\ failed' = failed \cup {gen}
    /\ Goto("invalidate", work)
    /\ UNCHANGED <<at, aside, dest, kept, journal, record, mem, work, gen, last, written>>

\* ... whatever is at the targets is set aside, unless the move fails ...
Invalidate(t) ==
    /\ pc = "invalidate" /\ t \in todo
    /\ SetAside(t) \/ UNCHANGED <<at, aside>>
    /\ IF todo = {t} THEN Goto("clear", {}) ELSE Goto("invalidate", todo \ {t})
    /\ UNCHANGED <<staging, dest, kept, journal, record, mem, work, past, written>>

\* ... and the copy is written with nothing pending.
Clear ==
    /\ pc = "clear"
    /\ \E how \in {"ok"} \cup Faults : Wrote(how, [mem EXCEPT !.pending = "none", !.targets = {}])
    /\ End
    /\ UNCHANGED <<disk, past>>

-----------------------------------------------------------------------------
(***************************************************************************)
(* A quarantine of every package in place, and its recovery.               *)
(***************************************************************************)
Present == {t \in Target : at[t] # 0}

Withdrawn ==
    [pending |-> "quarantine", targets |-> {}, packages |-> Unlisted(record.packages, Present)]

\* Bug: the record is marked before the journal is written.
QuarantineRecordFirst ==
    /\ pc = "idle" /\ record.pending # "quarantine" /\ Present # {}
    /\ mem' = Withdrawn /\ Wrote("ok", Withdrawn)
    /\ work' = Present
    /\ dest' = None /\ journal' = NoJournal
    /\ Goto("journalled", {})
    /\ UNCHANGED <<at, staging, aside, kept, past>>

\* The journal, in a directory of its own, is written first ...
Quarantine ==
    /\ pc = "idle" /\ record.pending # "quarantine" /\ Present # {}
    /\ dest' = None
    /\ journal' = [there |-> TRUE, moves |-> Present]
    /\ mem' = Withdrawn
    /\ work' = Present
    /\ Goto("journalled", {})
    /\ UNCHANGED <<at, staging, aside, kept, record, past, written>>

\* ... then the record; an error takes the new directory away again.
Unlist ==
    /\ pc = "journalled"
    /\ \E how \in {"ok"} \cup Faults :
         /\ Wrote(how, mem)
         /\ IF how = "ok"
            THEN Goto("moving", work) /\ UNCHANGED <<journal, work, mem>>
            ELSE journal' = NoJournal /\ End
    /\ UNCHANGED <<at, staging, aside, dest, kept, past>>

Move(t) ==
    /\ dest' = [dest EXCEPT ![t] = at[t]]
    /\ at' = [at EXCEPT ![t] = 0]

MoveOut(t) ==
    /\ pc = "moving" /\ t \in todo
    /\ Move(t)
    /\ IF todo = {t} THEN Goto("finish", {}) ELSE Goto("moving", todo \ {t})
    /\ UNCHANGED <<staging, aside, kept, journal, record, mem, work, past, written>>

\* A move fails: what was moved goes back.
MoveFails ==
    /\ pc = "moving"
    /\ Goto("rollback", work \ todo)
    /\ UNCHANGED <<disk, record, mem, work, past, written>>

PutBack(t) ==
    /\ pc = "rollback" /\ t \in todo
    /\ at' = [at EXCEPT ![t] = dest[t]]
    /\ dest' = [dest EXCEPT ![t] = 0]
    /\ Goto("rollback", todo \ {t})
    /\ UNCHANGED <<staging, aside, kept, journal, record, mem, work, past, written>>

RolledBack ==
    /\ pc = "rollback" /\ todo = {}
    /\ \E how \in {"ok"} \cup Faults : Wrote(how, [mem EXCEPT !.pending = "none"])
    /\ End
    /\ UNCHANGED <<disk, past>>

\* finish: note and journal, then the record with nothing pending.
FinishQuarantine(how) ==
    /\ pc = "finish"
    /\ Wrote(how, [mem EXCEPT !.pending = "none"])
    /\ IF how = "early" THEN UNCHANGED <<dest, kept>>
       ELSE /\ kept' = kept \cup {<<t, dest[t]>> : t \in {u \in Target : dest[u] # 0}}
            /\ dest' = None
    /\ End
    /\ UNCHANGED <<at, staging, aside, journal, past>>

\* --recover reads the journal the record names.
Recover ==
    /\ pc = "idle" /\ record.pending = "quarantine" /\ journal.there
    /\ mem' = [record EXCEPT !.packages = Unlisted(record.packages, journal.moves)]
    /\ work' = journal.moves
    /\ Goto("recover", journal.moves)
    /\ UNCHANGED <<disk, record, past, written>>

\* Bug: a path that was already moved is not passed over.
RecoverMoveOnce(t) ==
    /\ pc = "recover" /\ t \in todo
    /\ at[t] # 0 /\ dest[t] = 0 /\ Move(t)
    /\ IF todo = {t} THEN Goto("finish", {}) ELSE Goto("recover", todo \ {t})
    /\ UNCHANGED <<staging, aside, kept, journal, record, mem, work, past, written>>

\* Each path of the journal is moved if it is still in the run, and passed
\* over if it is only in the quarantine.
RecoverMove(t) ==
    /\ pc = "recover" /\ t \in todo
    /\ \/ at[t] # 0 /\ dest[t] = 0 /\ Move(t)
       \/ at[t] = 0 /\ dest[t] # 0 /\ UNCHANGED <<at, dest>>
    /\ IF todo = {t} THEN Goto("finish", {}) ELSE Goto("recover", todo \ {t})
    /\ UNCHANGED <<staging, aside, kept, journal, record, mem, work, past, written>>

\* An error no handler puts right, or a kill: the operation is gone.
Stop ==
    /\ pc # "idle"
    /\ End
    /\ UNCHANGED <<disk, record, past, written>>

Step ==
    \/ \E paths \in SUBSET Target : Refresh(paths)
    \/ Build \/ Seal \/ Commit \/ RefreshFails \/ Unstage \/ Clear
    \/ Quarantine \/ Unlist \/ MoveFails \/ RolledBack \/ Recover
    \/ \E t \in Target : MoveAside(t) \/ Place(t) \/ Invalidate(t) \/ MoveOut(t)
                         \/ PutBack(t) \/ RecoverMove(t)
    \/ \E how \in {"ok"} \cup Faults : FinishQuarantine(how)

Next == Step \/ Stop

Spec == Init /\ [][Next]_vars

\* Someone runs --recover until it is through, a running operation runs on,
\* and neither kills nor errors go on for ever.
Fairness ==
    /\ WF_vars(Recover)
    /\ WF_vars(pc # "idle" /\ Step)
    /\ SF_vars(FinishQuarantine("ok"))
    /\ <>[][~Stop]_vars
FairSpec == Spec /\ Fairness

-----------------------------------------------------------------------------
(***************************************************************************)
(* Properties.                                                             *)
(***************************************************************************)
\* verify: what package.py reports current.
Verifies(t) ==
    /\ record.pending = "none"
    /\ record.packages[t] # 0
    /\ at[t] = record.packages[t]

\* What verify reports current is the outcome of the last refresh begun on
\* that path: through kills, failed writes, failed moves and half-done
\* quarantines, no older package comes back to be signed.
CurrentIsTheLastBuild ==
    \A t \in Target : Verifies(t) => at[t] = last[t]

\* "A refresh that fails ... leaves none of its targets listed": once its
\* handler is through, or was itself stopped, the record names no package of
\* the failed generation.
FailureUnlists == pc = "idle" => \A t \in Target : record.packages[t] \notin failed

\* Unless a write went wrong where the handlers do not expect it, the packages of one refresh are
\* listed together or not at all, none of a refresh that failed is listed, and with nothing pending
\* everything listed is in place as listed.
ListedAsAWhole ==
    smooth =>
        /\ \A t, u \in Target : last[t] = last[u] => record.packages[t] = record.packages[u]
        /\ FailureUnlists
        /\ pc = "idle" /\ record.pending = "none" =>
             \A t \in Target : record.packages[t] # 0 => at[t] = record.packages[t]

\* "Nothing is deleted": a package that was ever listed is in exactly one of
\* its path, superseded/ and quarantine/.
Places(t, g) ==
    (IF at[t] = g THEN 1 ELSE 0) + (IF dest[t] = g THEN 1 ELSE 0)
    + (IF <<t, g>> \in aside THEN 1 ELSE 0) + (IF <<t, g>> \in kept THEN 1 ELSE 0)
NothingIsDeleted == \A p \in listed : Places(p[1], p[2]) = 1

\* While a quarantine is pending and not running, --recover has its journal
\* and finds each path of it in the run alone or in the quarantine alone.
RecoverFindsTheJournal ==
    pc = "idle" /\ record.pending = "quarantine" =>
        /\ journal.there
        /\ \A t \in journal.moves : (at[t] = 0) # (dest[t] = 0)

\* That holds unless a write failed after its rename.
RecoverCanFinish == smooth => RecoverFindsTheJournal

\* An interrupted quarantine gets done, unless a write went wrong where the
\* handlers do not expect it.
QuarantineEnds ==
    record.pending = "quarantine" ~> (record.pending # "quarantine" \/ ~smooth)
=============================================================================
