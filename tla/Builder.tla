--------------------------------- MODULE Builder ---------------------------------
(***************************************************************************)
(* The builder loop (builder/loop.go): it reads the next rows of           *)
(* entry_index behind its cursor, computes the new SMT root over an        *)
(* overlay, commits leaves, root and cursor in one Postgres transaction,   *)
(* and only then hands the batch's nodes to the in-memory tail that the    *)
(* checkpoint loop tiles (Checkpoint).                                     *)
(*                                                                         *)
(* The rows come from the sequencer, which projects them gap-free (see     *)
(* Sequencer!GapFree); a row is the key an entry writes, a commentary      *)
(* entry that writes none, or a tombstone or ghost row.                    *)
(***************************************************************************)
EXTENDS SMT, Sequences, FiniteSets, FiniteSetsExt

CONSTANTS
    BatchSize,        \* LoopConfig.BatchSize
    MaxTileLag,       \* smtMaxTileLag; 0 turns the gate off
    CommitTimesOut,   \* may the commit's answer be lost to its timeout?
    MaxEntries,       \* bound: rows the sequencer projects
    MaxFaults,        \* bound: failing Postgres, object store and witness calls
    MaxRestarts       \* bound: crashes of the process

ASSUME BuilderAssumption ==
    /\ BatchSize \in Nat \ {0}
    /\ {MaxTileLag, MaxEntries, MaxFaults, MaxRestarts} \subseteq Nat
    /\ CommitTimesOut \in BOOLEAN

VARIABLES
    rows,         \* entry_index: row s is rows[s + 1]
    cursor,       \* builder_cursor.last_processed_sequence
    rootState,    \* smt_root_state: [root, seq]
    smtLeaves,    \* smt_leaves
    frontier,     \* tile_frontier: [root, seq]
    tiles,        \* nodes whose tile is durable in the object store
    tail,         \* TailedNodeStore.tail
    tailRoot,     \* TailedNodeStore.committedRoot
    builderPc,    \* where the builder is in processBatch
    batch,        \* the batch being processed
    late,         \* a commit whose answer was lost, still open in Postgres
    budget        \* [faults, lost, restarts] used; lost: of the faults, lost answers

pgVars == <<cursor, rootState, smtLeaves>>
tailVars == <<tail, tailRoot>>
builderVars == <<builderPc, batch>>

Commentary == "commentary"
Tombstone == "tombstone"
RowKind == Key \union {Commentary, Tombstone}

Row(s) == rows[s + 1]

NoBatch == [live |-> {}]

CanFail == budget.faults < MaxFaults

Fault == budget' = [budget EXCEPT !.faults = @ + 1]
--------------------------------------------------------------------------------
(* SequenceCursor.Next and BeginBatch's contiguity test: the rows behind   *)
(* the cursor, at most BatchSize, as far as they are contiguous.           *)
ContiguousPrefix ==
    {s \in cursor + 1..cursor + BatchSize : s < Len(rows)}

(* Mutant: the cursor moves by the batch size, not by the rows read.       *)
AdvanceToBatchEnd == cursor + BatchSize

(* BeginBatch's advanceTo: the last contiguous row, tombstones included.   *)
AdvanceTo == Max(ContiguousPrefix)

(* TailedNodeStore.Get: the tail first, then the tiles.                    *)
Servable(n) == n \in tail \union tiles

(* sdkbuilder.ProcessBatch over the overlay: each live entry sets its key  *)
(* to its own seq.  An entry whose path cannot be read is demoted to PathD *)
(* and the root is computed without it.                                    *)
ProcessBatch(root, live) ==
    [k \in Key |->
        LET writers == {s \in live : Row(s) = k}
        IN IF writers # {} /\ \A n \in Path(root, k) : Servable(n)
           THEN Max(writers) ELSE root[k]]

TileLagExceeded ==
    MaxTileLag > 0 /\ rootState.seq - frontier.seq > MaxTileLag

(* processBatch up to the commit.  A prefix without a live row only moves  *)
(* the cursor; the rest of the batch is read and computed from the root    *)
(* state read first.  When the frontier cannot be read the gate is open.   *)
BeginBatch ==
    /\ builderPc = "idle"
    /\ ContiguousPrefix # {}
    /\ \/ ~TileLagExceeded /\ UNCHANGED budget
       \/ TileLagExceeded /\ CanFail /\ Fault
    /\ LET live == {s \in ContiguousPrefix : Row(s) # Tombstone}
       IN IF live = {}
          THEN /\ cursor' = AdvanceTo
               /\ UNCHANGED builderVars
          ELSE /\ batch' = [prior |-> rootState, live |-> live, advanceTo |-> AdvanceTo,
                            newRoot |-> ProcessBatch(rootState.root, live)]
               /\ builderPc' = "commit"
               /\ UNCHANGED cursor
    /\ UNCHANGED <<rows, rootState, smtLeaves, frontier, tiles, tailVars, late>>

(* Mutant: coalesceLeafMutations keeps a leaf's first write in the batch.  *)
ApplyFirstWrite(b) ==
    /\ smtLeaves' = [k \in Key |-> IF b.newRoot[k] # b.prior.root[k]
                                   THEN Min({s \in b.live : Row(s) = k})
                                   ELSE smtLeaves[k]]
    /\ rootState' = [root |-> b.newRoot, seq |-> Max(b.live)]
    /\ cursor' = b.advanceTo

(* The transaction: leaves, root and cursor together.                      *)
Apply(b) ==
    /\ smtLeaves' = [k \in Key |-> IF b.newRoot[k] # b.prior.root[k]
                                   THEN b.newRoot[k] ELSE smtLeaves[k]]
    /\ rootState' = [root |-> b.newRoot, seq |-> Max(b.live)]
    /\ cursor' = b.advanceTo

(* SetTxCAS's WHERE clause.                                                *)
CAS(b) == b.prior = rootState

(* WithSerializableTx returns nil.  An open earlier transaction holds the  *)
(* lock on the smt_root_state row.                                         *)
Commit ==
    /\ builderPc = "commit"
    /\ late = NoBatch
    /\ CAS(batch)
    /\ Apply(batch)
    /\ builderPc' = "handoff"
    /\ UNCHANGED <<rows, frontier, tiles, tailVars, batch, late, budget>>

(* ErrRootCASMismatch: the batch is dropped and read again.                *)
CommitRefused ==
    /\ builderPc = "commit"
    /\ late = NoBatch
    /\ ~CAS(batch)
    /\ builderPc' = "idle"
    /\ batch' = NoBatch
    /\ UNCHANGED <<rows, pgVars, frontier, tiles, tailVars, late, budget>>

(* Fetching, appending or the transaction fails, and nothing was written.  *)
BatchFails ==
    /\ builderPc = "commit"
    /\ CanFail /\ Fault
    /\ builderPc' = "idle"
    /\ batch' = NoBatch
    /\ UNCHANGED <<rows, pgVars, frontier, tiles, tailVars, late>>

(* WithTransaction bounds the call by DefaultQueryTimeout: tx.Commit may   *)
(* return an error while the server still commits.                         *)
CommitUnknown ==
    /\ CommitTimesOut
    /\ builderPc = "commit"
    /\ late = NoBatch
    /\ CAS(batch)
    /\ CanFail
    /\ budget' = [budget EXCEPT !.faults = @ + 1, !.lost = @ + 1]
    /\ late' = batch
    /\ builderPc' = "idle"
    /\ batch' = NoBatch
    /\ UNCHANGED <<rows, pgVars, frontier, tiles, tailVars>>

(* The server commits it after all, or rolls it back with the connection.  *)
LateCommit ==
    /\ late # NoBatch
    /\ Apply(late) \/ UNCHANGED pgVars
    /\ late' = NoBatch
    /\ UNCHANGED <<rows, frontier, tiles, tailVars, builderVars, budget>>

(* PutBatchCommitted with ReachableMutations(newRoot).                     *)
Handoff ==
    /\ builderPc = "handoff"
    /\ tail' = tail \union (Nodes(batch.newRoot) \ Nodes(batch.prior.root))
    /\ tailRoot' = batch.newRoot
    /\ builderPc' = "idle"
    /\ batch' = NoBatch
    /\ UNCHANGED <<rows, pgVars, frontier, tiles, late, budget>>

(* Mutant: recovery compares positions, which a lagging frontier may pass. *)
RecoveredTailBySeq ==
    IF rootState.seq <= frontier.seq + 1 THEN {} ELSE Nodes(smtLeaves)

(* recoverTailOnBoot: unless the frontier is the committed root, replaying *)
(* smt_leaves rebuilds every node of the tree in the tail.                 *)
RecoveredTail ==
    IF rootState.root = frontier.root THEN {} ELSE Nodes(smtLeaves)

(* RecoverTail's integrity check: the rebuilt root is the committed one.   *)
(* It is passed over when there is nothing to rebuild.                     *)
BootAccepts ==
    \/ rootState.root \in {frontier.root, EmptyRoot, smtLeaves}
    \/ smtLeaves = EmptyRoot

(* The sequencer's committer projects the next row.                        *)
Project(e) ==
    /\ Len(rows) < MaxEntries
    /\ rows' = Append(rows, e)
    /\ UNCHANGED <<pgVars, frontier, tiles, tailVars, builderVars, late, budget>>

BuilderInit ==
    /\ rows = <<>>
    /\ cursor = -1
    /\ rootState = [root |-> EmptyRoot, seq |-> 0]
    /\ smtLeaves = EmptyRoot
    /\ frontier = [root |-> EmptyRoot, seq |-> 0]
    /\ tiles = {}
    /\ tail = {}
    /\ tailRoot = EmptyRoot
    /\ builderPc = "idle"
    /\ batch = NoBatch
    /\ late = NoBatch
    /\ budget = [faults |-> 0, lost |-> 0, restarts |-> 0]

BuilderStep == BeginBatch \/ Commit \/ CommitRefused \/ Handoff

BuilderNext ==
    \/ BuilderStep \/ BatchFails \/ CommitUnknown \/ LateCommit
    \/ \E e \in RowKind : Project(e)
--------------------------------------------------------------------------------
(* The tree after the first n rows: every key at the last row that wrote   *)
(* it.                                                                     *)
TreeAt(n) ==
    [k \in Key |->
        LET writers == {s \in 0..n - 1 : Row(s) = k}
        IN IF writers = {} THEN NoTip ELSE Max(writers)]

(* No leaf is lost: the committed root is the tree of every row up to the  *)
(* cursor.  The handoff to the tail is said to be "never data loss".       *)
CommittedTreeIsPrefix == rootState.root = TreeAt(cursor + 1)

(* No leaf is lost, whatever batches failed, were repeated or cut short by *)
(* a crash, as long as no commit's answer was lost.                        *)
NoLeafLost == budget.lost = 0 => CommittedTreeIsPrefix

(* "root = f(smt_leaves)", at every moment and with a commit's answer lost *)
(* too: the leaves that recovery replays give the committed root, so a     *)
(* boot is never refused.                                                  *)
RootIsLeaves == rootState.root = smtLeaves

(* The tail's retention invariant: once the batch is handed over, every    *)
(* node of the committed root is in the tail or durable in tiles, so the   *)
(* next batch and the next checkpoint can read it.                         *)
CommittedRootServable ==
    budget.lost = 0 /\ builderPc # "handoff" =>
        \A n \in Nodes(rootState.root) : Servable(n)
================================================================================
