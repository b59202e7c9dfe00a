---------------------------- MODULE RunDirectory ----------------------------
(***************************************************************************)
(* Before the contract is used: build.py writes a run directory, one file  *)
(* after the other, and with --force over an earlier one; Deploy.s.sol     *)
(* fixes the root of what it finds there; anybody downloads the directory, *)
(* file by file and while it may be replaced, and checks the copy with     *)
(* verify.py or VerifyRoot.s.sol against the contract.  Then the contract  *)
(* is used, and CommittedBatchAirdrop takes over.                          *)
(*                                                                         *)
(* A directory maps the names of the files it has to what is in them.  The *)
(* hash of a file is its contents: SHA-256 has no collisions.              *)
(***************************************************************************)
EXTENDS CommittedBatchAirdrop, RecipientList

CONSTANTS
  MaxBatches,     \* lists of up to this many batches are checked
  Content,        \* the recipients and amounts of a batch
  Builds,         \* the command lines of build.py: [input, order, merge, size, force]
  MaxBatchSize,   \* MAX_BATCH_SIZE
  MaxRuns,        \* bound on the runs of build.py over a finished directory
  NoFiles         \* no build under way; no contract deployed yet

ASSUME TreeAssumption == MaxBatches \in Nat \ {0}

VARIABLES
  dir,            \* the run directory
  job,            \* the build under way: [todo: the files to write, in order; remove: still to delete]
  builds,         \* how many builds were started
  copy,           \* the copy somebody downloads
  deployed,       \* the immutable values of the contract
  inUse           \* the contract is used

fileVars == <<dir, job, builds, copy, deployed, inUse>>

Distribution == <<"distribution.csv", 0>>
Manifest == <<"manifest.json", 0>>
batch_file(index) == <<"batch", index>>

Without(files, name) == [f \in DOMAIN files \ {name} |-> files[f]]
With(files, name, contents) == [f \in DOMAIN files \cup {name} |-> IF f = name THEN contents ELSE files[f]]

-----------------------------------------------------------------------------
(***************************************************************************)
(* The tree under which a list of batches is published: BatchTree.sol, the *)
(* same construction as tools/common.py and as the claim tree of the       *)
(* bridge claims.  keccak256 is taken to have no collisions, so a hash is  *)
(* the term that was hashed: a leaf is hashed twice and a pair once, which *)
(* keeps the two apart, and smaller-first makes a pair a set.              *)
(***************************************************************************)
\* Mistaken variant of leaf: the index is not hashed.
leafOfContent(batchIndex, content) == <<"leaf", 0, content>>

leaf(batchIndex, content) == <<"leaf", batchIndex, content>>

hashPair(a, b) == <<"pair", 0, {a, b}>>

\* The number of levels over n leaves.
depth[n \in Nat] == IF n <= 1 THEN 1 ELSE depth[(n + 1) \div 2] + 1

\* The level above `prev`: an unpaired last node is carried up unchanged.
above(prev) ==
  [i \in 1 .. (Len(prev) + 1) \div 2 |->
    IF 2 * i <= Len(prev) THEN hashPair(prev[2 * i - 1], prev[2 * i]) ELSE prev[2 * i - 1]]

\* Every level, leaves first, root last.
levels(leaves) ==
  LET level[d \in 1 .. depth[Len(leaves)]] == IF d = 1 THEN leaves ELSE above(level[d - 1])
  IN level

root(lv) == lv[Len(lv)][1]

\* The siblings of leaf `index`, from the bottom, where it has one (idx ^ 1).
proof(lv, index) ==
  LET sibling(d) ==
        LET idx == index \div 2 ^ (d - 1)
        IN (IF idx % 2 = 0 THEN idx + 1 ELSE idx - 1) + 1
      has == SelectSeq([d \in 1 .. Len(lv) - 1 |-> d], LAMBDA d : sibling(d) <= Len(lv[d]))
  IN [k \in 1 .. Len(has) |-> lv[has[k]][sibling(has[k])]]

verify(proof_, root_, leaf_) == FoldLeft(hashPair, leaf_, proof_) = root_

List == UNION {[1 .. n -> Content] : n \in 1 .. MaxBatches}

Tree(list) == levels([i \in 1 .. Len(list) |-> leaf(i - 1, list[i])])

\* Every node of the tree and every leaf somebody may hash.
Node(lv) ==
  UNION {{lv[d][i] : i \in 1 .. Len(lv[d])} : d \in 1 .. Len(lv)}
    \cup {leaf(i, c) : i \in 0 .. MaxBatches, c \in Content}

-----------------------------------------------------------------------------
(* common.py *)

chunk(rows, size) ==
  [k \in 1 .. (Len(rows) + size - 1) \div size |->
     SubSeq(rows, (k - 1) * size + 1, IF k * size < Len(rows) THEN k * size ELSE Len(rows))]

\* The files of a build, in the order in which they are written.  Each is written as a whole: one
\* that an interruption cuts off is the last, and no manifest follows it.
write_run(rows, batch_size) ==
  LET batches == chunk(rows, batch_size)
      lv == Tree(batches)
  IN  <<<<Distribution, rows>>>>
        \o [k \in DOMAIN batches |->
              <<batch_file(k - 1), [batch_index |-> k - 1, rows |-> batches[k],
                                    leaf |-> leaf(k - 1, batches[k]), proof |-> proof(lv, k - 1)]>>]
        \o <<<<Manifest, [root |-> root(lv), batch_size |-> batch_size, batch_count |-> Len(batches),
                          recipient_count |-> Len(rows), total_amount |-> TotalOf(rows),
                          list_sha256 |-> rows]>>>>

\* read_manifest, read_distribution, read_batch: a missing file is an error, and so is a batch
\* file with another index than its name's.
Reads(files, names) ==
  names \subseteq {f \in DOMAIN files : f[1] = "batch" => files[f].batch_index = f[2]}

-----------------------------------------------------------------------------
(* verify.py *)

\* Mistaken variant of verify_run: a batch file that cannot be read is passed over.
verify_run_of_readable(files) ==
  LET m == files[Manifest]
      rows == files[Distribution]
      batches == chunk(rows, m.batch_size)
      lv == Tree(batches)
  IN  /\ Reads(files, {Manifest, Distribution})
      /\ NoDuplicates(rows) /\ \A row \in ToSet(rows) : row.amount > 0
      /\ m.batch_count = Len(batches) /\ m.recipient_count = Len(rows)
      /\ m.total_amount = TotalOf(rows) /\ m.root = root(lv) /\ m.list_sha256 = rows
      /\ \A k \in DOMAIN batches :
           batch_file(k - 1) \in DOMAIN files =>
             LET b == files[batch_file(k - 1)] IN
             b.rows = batches[k] /\ b.leaf = leaf(k - 1, batches[k]) /\ b.proof = proof(lv, k - 1)

\* Everything is computed again from distribution.csv and the batch size.
verify_run(files) ==
  LET m == files[Manifest]
      rows == files[Distribution]
      batches == chunk(rows, m.batch_size)
      lv == Tree(batches)
  IN  /\ Reads(files, {Manifest, Distribution})
      /\ NoDuplicates(rows) /\ \A row \in ToSet(rows) : row.amount > 0
      /\ m.batch_count = Len(batches) /\ m.recipient_count = Len(rows)
      /\ m.total_amount = TotalOf(rows) /\ m.root = root(lv) /\ m.list_sha256 = rows
      /\ \A k \in DOMAIN batches :
           /\ Reads(files, {batch_file(k - 1)})
           /\ LET b == files[batch_file(k - 1)] IN
              /\ b.rows = batches[k] /\ b.leaf = leaf(k - 1, batches[k]) /\ b.proof = proof(lv, k - 1)
              /\ verify(b.proof, root(lv), b.leaf)

verify_contract(files, onchain) ==
  LET m == files[Manifest] IN
  onchain = [root |-> m.root, batchCount |-> m.batch_count,
             totalAmount |-> m.total_amount, listHash |-> m.list_sha256]

\* VerifyRoot.s.sol starts from the batch files and takes from distribution.csv the hash only.
VerifyRoot(files, onchain) ==
  LET m == files[Manifest]
      b == [k \in 1 .. m.batch_count |-> files[batch_file(k - 1)]]
      rows == FlattenSeq([k \in DOMAIN b |-> b[k].rows])
  IN  /\ Reads(files, {Manifest, Distribution})
      /\ m.batch_count > 0 /\ Reads(files, {batch_file(k - 1) : k \in 1 .. m.batch_count})
      /\ \A k \in DOMAIN b : /\ b[k].leaf = leaf(k - 1, b[k].rows)
                             /\ verify(b[k].proof, m.root, b[k].leaf)
      /\ \A row \in ToSet(rows) : row.address # 0 /\ row.amount # 0
      /\ root(levels([k \in DOMAIN b |-> b[k].leaf])) = m.root
      /\ m.total_amount = TotalOf(rows) /\ m.recipient_count = Len(rows)
      /\ files[Distribution] = m.list_sha256
      /\ verify_contract(files, onchain)

-----------------------------------------------------------------------------
InitFiles ==
  /\ dir = <<>> /\ copy = <<>>
  /\ job = NoFiles /\ builds = 0
  /\ deployed = NoFiles /\ inUse = FALSE

\* build.py reads its input, refuses a directory that exists unless forced, and goes to work.  A
\* batch size out of range is refused only after the directory was deleted.
StartBuild(b) ==
  /\ job = NoFiles
  /\ builds < MaxRuns \/ Manifest \notin DOMAIN dir
  /\ builds' = IF builds < MaxRuns THEN builds + 1 ELSE builds
  /\ LET read == read_rows(b.input, TRUE)
         made == IF read.ok THEN consolidate(read.out, b.order, b.merge) ELSE Refused
     IN  /\ made.ok
         /\ DOMAIN dir # {} => b.force
         /\ job' = [remove |-> DOMAIN dir,
                    todo |-> IF b.size \in 1 .. MaxBatchSize THEN write_run(made.out, b.size) ELSE <<>>]
  /\ UNCHANGED <<dir, copy, deployed, inUse>>

\* shutil.rmtree takes the files in the order of the file system.
RemoveFile(name) ==
  /\ job # NoFiles /\ name \in job.remove
  /\ dir' = Without(dir, name)
  /\ job' = [job EXCEPT !.remove = @ \ {name}]
  /\ UNCHANGED <<builds, copy, deployed, inUse>>

WriteFile ==
  /\ job # NoFiles /\ job.remove = {} /\ job.todo # <<>>
  /\ dir' = With(dir, job.todo[1][1], job.todo[1][2])
  /\ job' = [job EXCEPT !.todo = Tail(@)]
  /\ UNCHANGED <<builds, copy, deployed, inUse>>

\* It is done, or was interrupted.
EndBuild ==
  /\ job # NoFiles /\ job' = NoFiles
  /\ UNCHANGED <<dir, builds, copy, deployed, inUse>>

Download(name) ==
  /\ name \in DOMAIN dir \ DOMAIN copy
  /\ copy' = With(copy, name, dir[name])
  /\ UNCHANGED <<dir, job, builds, deployed, inUse>>

DropCopy ==
  /\ copy # <<>> /\ copy' = <<>>
  /\ UNCHANGED <<dir, job, builds, deployed, inUse>>

\* Deploy.s.sol takes the manifest as it is, if the list hashes to what it says.
Deploy ==
  /\ deployed = NoFiles
  /\ Reads(dir, {Manifest, Distribution})
  /\ LET m == dir[Manifest] IN
     /\ dir[Distribution] = m.list_sha256
     /\ m.batch_count # 0 /\ m.total_amount # 0
     /\ deployed' = [root |-> m.root, batchCount |-> m.batch_count,
                     totalAmount |-> m.total_amount, listHash |-> m.list_sha256]
  /\ UNCHANGED <<dir, job, builds, copy, inUse>>

\* The reserve approves after a check that passed.  What was on the way there is forgotten.
Use ==
  /\ deployed # NoFiles
  /\ verify_run(copy) /\ verify_contract(copy, deployed)
  /\ dir' = <<>> /\ copy' = <<>> /\ job' = NoFiles /\ builds' = MaxRuns
  /\ deployed' = NoFiles /\ inUse' = TRUE

Prepare ==
  \/ \E b \in Builds : StartBuild(b)
  \/ \E name \in DOMAIN dir : RemoveFile(name)
  \/ WriteFile
  \/ EndBuild
  \/ \E name \in DOMAIN dir : Download(name)
  \/ DropCopy
  \/ Deploy
  \/ Use

DeployedInit == Init /\ executor = Reserve /\ InitFiles

DeployedSpec ==
  /\ DeployedInit
  /\ [][\/ ~inUse /\ Prepare /\ UNCHANGED vars
        \/ inUse /\ Next /\ UNCHANGED fileVars]_<<vars, fileVars>>

-----------------------------------------------------------------------------
(* Properties. *)

\* What execute() relies on when it accepts a proof: the proof that the tools write for a batch of
\* the list is accepted, and for another index or another content no proof of any length the tree
\* has is, made of its nodes and of any leaves, though lists of different lengths have unpaired
\* nodes at different levels and equal batches may be in one list.  The tree depends on nothing
\* that happens later, so the first state stands for all.
ProofsAdmitExactlyTheList ==
  Init /\ InitFiles => \A list \in List :
    LET lv == Tree(list)
        top == root(lv)
        Proof == SeqOf(Node(lv), Len(lv) - 1)
    IN /\ \A i \in 1 .. Len(list) : verify(proof(lv, i - 1), top, leaf(i - 1, list[i]))
       /\ \A p \in Proof, i \in 0 .. MaxBatches, c \in Content :
            verify(p, top, leaf(i, c)) => i < Len(list) /\ c = list[i + 1]

\* A copy that either check accepts is the list the contract pays: each batch file carries a proof
\* with which execute() takes that batch, together they are distribution.csv, nobody is in it twice
\* and it adds up to the contract's total.  And the two checks, which share no code and start from
\* different files, agree.  So it is however the copy mixes files of builds with other lists or
\* batch sizes, and whenever the contract was deployed in between.
VerifiedCopyIsWhatIsPaid ==
  ~inUse /\ deployed # NoFiles =>
    LET python == verify_run(copy) /\ verify_contract(copy, deployed)
        rows == copy[Distribution]
        Batch_(i) == copy[batch_file(i)]
        index == 0 .. deployed.batchCount - 1
    IN  /\ python = VerifyRoot(copy, deployed)
        /\ python =>
             /\ \A i \in index : batch_file(i) \in DOMAIN copy
             /\ \A i \in index : verify(Batch_(i).proof, deployed.root, leaf(i, Batch_(i).rows))
             /\ FlattenSeq([k \in 1 .. deployed.batchCount |-> Batch_(k - 1).rows]) = rows
             /\ NoDuplicates(rows) /\ TotalOf(rows) = deployed.totalAmount
=============================================================================
