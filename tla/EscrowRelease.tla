---------------------------- MODULE EscrowRelease ----------------------------
(***************************************************************************)
(* bridge-claims/tools/release_plan.py and send_calldata.py: the owners of *)
(* the bridge escrows release what is locked there to the custody Safe.    *)
(* An owner makes itself the verifier and the executor of one path,        *)
(* attests and delivers a message on it, and writes the settings back that *)
(* the plan had read.  A Safe does this in one transaction; a key holder   *)
(* sends a file of transactions one by one, can be interrupted anywhere    *)
(* and resumes from the file's log.                                        *)
(*                                                                         *)
(* A plan reads the chain at one block and is listed later.  Only a listed *)
(* file is started (package.py verify), by one process at a time.          *)
(***************************************************************************)
EXTENDS Integers, SequencesExt

CONSTANTS
    Escrow,      \* escrow -> [owner, settings, locked], as they are found
    SafeOwner,   \* the owners that are Safes
    Library,     \* the receive library version in effect
    NoPlan,
    MaxPlans,    \* bound on the plans
    MaxSetbacks  \* bound on the interruptions and on what owners send besides

ASSUME EscrowAssumption ==
    /\ MaxPlans \in Nat /\ MaxSetbacks \in Nat
    /\ \A e \in DOMAIN Escrow :
         /\ Escrow[e].locked \in Nat \ {0}
         /\ Escrow[e].settings.uln # "owner" /\ Escrow[e].settings.executor # "owner"
         /\ Escrow[e].settings.trusted # "local"

VARIABLES
    lz,       \* escrow -> [settings, inbound, attested, locked, released]
    reading,  \* what an unfinished plan has read, or NoPlan
    files,    \* the files of calls: [owner, calls, nonce, escrows, saved, log, last]
    current,  \* those of the listed package
    sending,  \* the file a key holder is sending, or 0
    nonces,   \* transactions sent by each owner
    plans,    \* plans so far
    setbacks  \* interruptions and other transactions so far

evars == <<lz, reading, files, current, sending, nonces, plans, setbacks>>

Owner == {Escrow[e].owner : e \in DOMAIN Escrow}

AsFound == [e \in DOMAIN Escrow |-> [settings |-> Escrow[e].settings, inbound |-> 0, attested |-> 0,
                                     locked |-> Escrow[e].locked, released |-> 0]]

InitEscrow ==
    /\ lz = AsFound
    /\ reading = NoPlan /\ files = <<>> /\ current = {} /\ sending = 0
    /\ nonces = [o \in Owner |-> 0]
    /\ plans = 0 /\ setbacks = 0

-----------------------------------------------------------------------------
(* The calls. *)

Put(e, field, value) == [escrow |-> e, do |-> "put", field |-> field, value |-> value]

\* The attestation and the delivery of packet n, for the amount the plan read.
Packet(e, do, n, amount) == [escrow |-> e, do |-> do, field |-> n, value |-> amount]

\* Mistaken variant of release_calls: the receive version is written back last.
release_calls_version_last(e, x) ==
    LET pin == x.settings.version # Library
        Version(v) == IF pin THEN <<Put(e, "version", v)>> ELSE <<>>
    IN  <<Put(e, "uln", "owner"), Put(e, "executor", "owner")>> \o Version(Library)
        \o <<Put(e, "trusted", "local"), Packet(e, "verify", x.inbound + 1, x.locked),
             Packet(e, "commit", x.inbound + 1, x.locked), Put(e, "trusted", x.settings.trusted),
             Put(e, "executor", x.settings.executor), Put(e, "uln", x.settings.uln)>>
        \o Version(x.settings.version)

\* The verifier is set first and written back last.
release_calls(e, x) ==
    LET pin == x.settings.version # Library
        Version(v) == IF pin THEN <<Put(e, "version", v)>> ELSE <<>>
    IN  <<Put(e, "uln", "owner"), Put(e, "executor", "owner")>> \o Version(Library)
        \o <<Put(e, "trusted", "local"), Packet(e, "verify", x.inbound + 1, x.locked),
             Packet(e, "commit", x.inbound + 1, x.locked), Put(e, "trusted", x.settings.trusted)>>
        \o Version(x.settings.version)
        \o <<Put(e, "executor", x.settings.executor), Put(e, "uln", x.settings.uln)>>

\* Does a call go through?  A message is delivered once, in order, on the path its receiver
\* trusts, by the executor, when the verifier has attested it.
Runs(x, c) ==
    c.do = "commit" =>
        /\ x.settings.uln = "owner" /\ x.settings.executor = "owner" /\ x.settings.trusted = "local"
        /\ x.settings.version = Library
        /\ x.attested = c.field /\ x.inbound + 1 = c.field
        /\ c.value <= x.locked

Called(x, c) ==
    CASE c.do = "put" -> [x EXCEPT !.settings[c.field] = c.value]
      [] c.do = "verify" -> [x EXCEPT !.attested = c.field]
      [] c.do = "commit" -> [x EXCEPT !.inbound = @ + 1, !.locked = @ - c.value, !.released = @ + c.value]

Call(chain, c) == [chain EXCEPT ![c.escrow] = Called(@, c)]

-----------------------------------------------------------------------------
(* The plan. *)

\* receive_state refuses an escrow whose settings are those of a started release.
Startable(x) ==
    x.settings.trusted # "local" /\ x.settings.executor # "owner" /\ x.settings.uln # "owner"

\* The chain is read at one block; escrows may be left out (--skip).
PlanRead ==
    /\ reading = NoPlan /\ plans < MaxPlans
    /\ \E skip \in SUBSET DOMAIN Escrow :
         reading' = [lz |-> lz, nonces |-> nonces, escrows |-> DOMAIN Escrow \ skip]
    /\ plans' = plans + 1
    /\ UNCHANGED <<lz, files, current, sending, nonces, setbacks>>

\* One file per owner, over its escrows that have something to release.
FileOf(o) ==
    LET mine == {e \in reading.escrows : Escrow[e].owner = o /\ reading.lz[e].locked > 0}
        order == SetToSeq(mine)
    IN  [owner |-> o, nonce |-> reading.nonces[o], escrows |-> mine,
         saved |-> [e \in mine |-> reading.lz[e].settings],
         calls |-> FlattenSeq([i \in DOMAIN order |-> release_calls(order[i], reading.lz[order[i]])]),
         log |-> 0, last |-> 0]

\* The package is listed in place of the one before; a refusal only takes that one away.
PlanEnd ==
    /\ reading # NoPlan
    /\ reading' = NoPlan
    /\ LET new == SelectSeq([i \in 1 .. Cardinality(Owner) |-> FileOf(SetToSeq(Owner)[i])],
                            LAMBDA f : f.escrows # {})
       IN  IF \A e \in reading.escrows : Startable(reading.lz[e])
           THEN /\ files' = files \o new
                /\ current' = Len(files) + 1 .. Len(files) + Len(new)
           ELSE UNCHANGED files /\ current' = {}
    /\ UNCHANGED <<lz, sending, nonces, plans, setbacks>>

-----------------------------------------------------------------------------
(* A Safe executes its file at the nonce the plan names. *)

RunAll(calls) ==
    FoldLeft(LAMBDA r, c : IF r.ok /\ Runs(r.lz[c.escrow], c) THEN [ok |-> TRUE, lz |-> Call(r.lz, c)]
                           ELSE [ok |-> FALSE, lz |-> r.lz],
             [ok |-> TRUE, lz |-> lz], calls)

Finished(f) == f.log = Len(f.calls)

ExecuteBatch(i) ==
    /\ i \in current /\ files[i].owner \in SafeOwner
    /\ nonces[files[i].owner] = files[i].nonce
    /\ RunAll(files[i].calls).ok
    /\ lz' = RunAll(files[i].calls).lz
    /\ nonces' = [nonces EXCEPT ![files[i].owner] = @ + 1]
    /\ files' = [files EXCEPT ![i].log = Len(files[i].calls)]
    /\ UNCHANGED <<reading, current, sending, plans, setbacks>>

-----------------------------------------------------------------------------
(* send_calldata. *)

\* The log of an earlier run is resumed only if the sender has sent nothing since.
SendStart(i) ==
    /\ sending = 0
    /\ files[i].owner \notin SafeOwner /\ ~Finished(files[i])
    /\ i \in current \/ files[i].log > 0
    /\ files[i].log > 0 => nonces[files[i].owner] = files[i].last + 1
    /\ sending' = i
    /\ UNCHANGED <<lz, reading, files, current, nonces, plans, setbacks>>

\* Simulate the next call, send it and wait for it.
Sent ==
    LET f == files[sending]
        c == f.calls[f.log + 1]
    IN  /\ sending # 0
        /\ Runs(lz[c.escrow], c)
        /\ lz' = Call(lz, c)
        /\ nonces' = [nonces EXCEPT ![f.owner] = @ + 1]
        /\ UNCHANGED <<reading, current, plans>>

SendNext ==
    LET f == files[sending] IN
    /\ Sent
    /\ files' = [files EXCEPT ![sending].log = @ + 1, ![sending].last = nonces[f.owner]]
    /\ sending' = IF f.log + 1 = Len(f.calls) THEN 0 ELSE sending
    /\ UNCHANGED setbacks

\* The process dies before the log is saved: the call is on the chain and not in the log.
SendKilled ==
    /\ Sent
    /\ setbacks < MaxSetbacks
    /\ setbacks' = setbacks + 1 /\ sending' = 0
    /\ UNCHANGED files

\* The simulation fails, or the process is stopped before it sends.
SendStop ==
    LET f == files[sending]
        c == f.calls[f.log + 1]
    IN  /\ sending # 0
        /\ IF Runs(lz[c.escrow], c) THEN setbacks < MaxSetbacks /\ setbacks' = setbacks + 1
           ELSE UNCHANGED setbacks
        /\ sending' = 0
        /\ UNCHANGED <<lz, reading, files, current, nonces, plans>>

\* The owner sends something else.
WalletAction(o) ==
    /\ setbacks < MaxSetbacks
    /\ setbacks' = setbacks + 1
    /\ nonces' = [nonces EXCEPT ![o] = @ + 1]
    /\ UNCHANGED <<lz, reading, files, current, sending, plans>>

EscrowNext ==
    \/ PlanRead \/ PlanEnd
    \/ \E i \in DOMAIN files : ExecuteBatch(i) \/ SendStart(i)
    \/ SendNext \/ SendKilled \/ SendStop
    \/ \E o \in Owner : WalletAction(o)

-----------------------------------------------------------------------------
\* Wherever a release stops, the settings it leaves are the ones it found or ones that the planner
\* refuses to plan over; so every plan, however old what it read, writes the original settings
\* back; and a file whose last call went through has released all that was locked, once.
ReleaseRestores ==
    /\ \A e \in DOMAIN lz :
         /\ lz[e].settings = Escrow[e].settings \/ ~Startable(lz[e])
         /\ lz[e].released \in {0, Escrow[e].locked}
    /\ \A i \in DOMAIN files : \A e \in files[i].escrows :
         /\ files[i].saved[e] = Escrow[e].settings
         /\ Finished(files[i]) => lz[e].released = Escrow[e].locked
==============================================================================
