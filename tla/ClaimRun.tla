------------------------------ MODULE ClaimRun ------------------------------
(***************************************************************************)
(* A claim run: the directory that bridge-claims/tools/build_claims.py     *)
(* fills from an allocation, and what claims_run.py asks of it before      *)
(* anything is signed on its strength.  An allocation is                   *)
(*   [rows        set of [account, token, amount], the claim list          *)
(*    claimable   token -> what its pools pay                              *)
(*    custody, oneCustody   the funders, or NoFile                         *)
(*    funders     label -> funder, from --funder                           *)
(*    bytecode]   the compiled contract, or NoFile                         *)
(* There is one chain.  A file's hash is its content, a tree the list it   *)
(* is made from, a CREATE2 address what determines it.                     *)
(***************************************************************************)
EXTENDS BridgeClaims, SequencesExt

CONSTANTS
    OneToken,  \* the token of the ONE claims
    NoFile

Amount(rows) == MapThenSumSet(LAMBDA r : r.amount, rows)

Of(rows, t) == {r \in rows : r.token = t}

-----------------------------------------------------------------------------
(* build_claims. *)

read_claims(a) ==
    \A r \in a.rows :
        /\ r.token \in DOMAIN a.claimable
        /\ r.amount > 0
        /\ \A q \in a.rows : q.account = r.account /\ q.token = r.token => q = r

TotalsMatch(a) == \A t \in DOMAIN a.claimable : Amount(Of(a.rows, t)) = a.claimable[t]

Group(label, funder, rows) == [label |-> label, funder |-> funder, rows |-> rows]

\* One contract per funding multisig.
contract_groups(a) ==
    LET oneRows == Of(a.rows, OneToken)
        rest == a.rows \ oneRows
        split == <<Group("chain", a.custody, rest), Group("one", a.oneCustody, oneRows)>>
        Funded(g) == IF g.label \in DOMAIN a.funders THEN [g EXCEPT !.funder = a.funders[g.label]] ELSE g
        groups == IF a.oneCustody # a.custody THEN SelectSeq(split, LAMBDA g : g.rows # {})
                  ELSE <<Group("chain", a.custody, a.rows)>>
    IN  [i \in DOMAIN groups |-> Funded(groups[i])]

\* What a row of token t is pulled in, and what each such token adds up to.
approve_token(t) == IF t = NATIVE THEN wrappedNative ELSE t

approvals_of(rows) ==
    [t \in {approve_token(r.token) : r \in rows} |-> Amount({r \in rows : approve_token(r.token) = t})]

Address(bytecode, funder, list) == <<bytecode, funder, list>>

\* build_group.
build_group(g, bytecode) ==
    LET status == IF g.funder = NoFile THEN "no_funder" ELSE IF bytecode = NoFile THEN "no_bytecode" ELSE "ready"
    IN  [label |-> g.label, funder |-> g.funder, list |-> g.rows, tree |-> g.rows,
         approvals |-> approvals_of(g.rows), native |-> Amount(Of(g.rows, NATIVE)),
         status |-> status, bytecode |-> bytecode,
         address |-> IF status = "ready" THEN Address(bytecode, g.funder, g.rows) ELSE NoFile]

\* claims_run.committed_fields: what the summary repeats of a manifest.
committed_fields(m) ==
    [label |-> m.label, funder |-> m.funder, list |-> m.list, address |-> m.address, status |-> m.status]

Slot(label, kind) == <<label, kind>>

Summary == Slot("run", "summary")

Files == {Slot(l, k) : l \in {"chain", "one"}, k \in {"list", "tree", "manifest"}} \cup {Summary}

\* The files of a build, in the order they are written: group by group, and the summary last.
\* A --funder that names no contract is noticed when the groups are written.
build_claims(a) ==
    LET groups == contract_groups(a)
        manifests == [i \in DOMAIN groups |-> build_group(groups[i], a.bytecode)]
        Three(m) == <<[file |-> Slot(m.label, "list"), content |-> m.list],
                      [file |-> Slot(m.label, "tree"), content |-> m.tree],
                      [file |-> Slot(m.label, "manifest"), content |-> m]>>
        labels == {groups[i].label : i \in DOMAIN groups}
        summary == [l \in labels |-> committed_fields(CHOOSE m \in Range(manifests) : m.label = l)]
    IN  IF ~ (read_claims(a) /\ TotalsMatch(a)) THEN <<>>
        ELSE FlattenSeq([i \in DOMAIN manifests |-> Three(manifests[i])])
             \o (IF DOMAIN a.funders \subseteq labels THEN <<[file |-> Summary, content |-> summary]>> ELSE <<>>)

Written(dir, writes, n) ==
    FoldLeft(LAMBDA d, w : [d EXCEPT ![w.file] = w.content], dir, SubSeq(writes, 1, n))

-----------------------------------------------------------------------------
(* claims_run.bind. *)

Manifest(dir, l) == dir[Slot(l, "manifest")]

Ready(dir) == {l \in DOMAIN dir[Summary] : dir[Summary][l].status = "ready"}

\* Mistaken variant of Bound: what the summary says of a contract is not compared.
BoundByHashes(dir) ==
    /\ dir[Summary] # NoFile
    /\ \A l \in DOMAIN dir[Summary] :
         /\ Manifest(dir, l) # NoFile
         /\ Manifest(dir, l).status = "ready" =>
              dir[Slot(l, "list")] = Manifest(dir, l).list /\ dir[Slot(l, "tree")] = Manifest(dir, l).tree

\* Every manifest is in the summary as it is, and the files are the ones it names.
Bound(dir) ==
    /\ dir[Summary] # NoFile
    /\ \A l \in {"chain", "one"} : Manifest(dir, l) # NoFile => l \in DOMAIN dir[Summary]
    /\ \A l \in DOMAIN dir[Summary] :
         /\ Manifest(dir, l) # NoFile
         /\ committed_fields(Manifest(dir, l)) = dir[Summary][l]
         /\ l \in Ready(dir) =>
              dir[Slot(l, "list")] = Manifest(dir, l).list /\ dir[Slot(l, "tree")] = Manifest(dir, l).tree

\* The published index lists what is signed for, and everything it lists is here unchanged.
Indexed(dir, index, labels) ==
    /\ \A f \in {Summary} \cup {Slot(l, k) : l \in labels, k \in {"list", "tree", "manifest"}} : index[f] # NoFile
    /\ \A f \in Files : index[f] # NoFile => dir[f] = index[f]

bind(dir, index, labels) ==
    /\ Bound(dir)
    /\ labels \subseteq Ready(dir)
    /\ Indexed(dir, index, labels)
=============================================================================
