------------------------------- MODULE Checkpoint -------------------------------
(***************************************************************************)
(* The checkpoint loop (builder/checkpoint_loop.go) composed with the      *)
(* builder: one cycle reads the committed root, makes its SMT tiles        *)
(* durable, advances tile_frontier, prunes the node tail, has the          *)
(* witnesses cosign a head over the root, archives the receipt commitments *)
(* and publishes the horizon.  Every call of a cycle can fail; the cycle   *)
(* then ends (a hold or an error) and the next tick starts over.           *)
(*                                                                         *)
(* A head is [size, smt, from]: the Merkle root is a function of the size  *)
(* and the receipt root one of the range from..size-1, so those stand for  *)
(* them.  The deployment is the object-store one (S3 publisher, receipt    *)
(* archiver and tile shipper wired).                                       *)
(***************************************************************************)
EXTENDS Builder, TileShipping

CONSTANT PruneOrphans      \* LEDGER_TAIL_GC_PRUNE

ASSUME CheckpointAssumption == PruneOrphans \in BOOLEAN

VARIABLES
    integrated,     \* IntegratedSize: leaves in Tessera's integrated tree
    checkpointPc,   \* the step of CheckpointOnce
    cycle,          \* its locals: [seq, root, dirty, todo]
    lastPublished,  \* CheckpointLoop.lastPublishedSize
    treeHeads,      \* tree_heads: size -> head, with a quorum of signatures
    signed,         \* history: every head K witnesses cosigned
    objects,        \* tlog-tiles objects in the object store
    shipCursor,     \* TileShipper.cursor, persisted
    receipts,       \* receipts/<size>: first seq of the archived range
    archive,        \* checkpoints/<size> and the size index
    horizon         \* the published checkpoint

ladderVars == <<treeHeads, signed>>
storeVars == <<objects, shipCursor, receipts, archive, horizon>>
loopVars == <<checkpointPc, cycle, lastPublished>>
builderState == <<rows, pgVars, frontier, tiles, tailVars, builderVars, late>>
vars == <<builderState, budget, integrated, loopVars, ladderVars, storeVars>>

NoCycle == [seq |-> 0, root |-> EmptyRoot, dirty |-> {}, todo |-> {}]

NoHead == [size |-> 0, smt |-> EmptyRoot, from |-> 0]

TreeSizeForCommittedSeq(s) == s + 1

treeSize == TreeSizeForCommittedSeq(cycle.seq)

(* f with n mapped to v.                                                   *)
Put(f, n, v) == [m \in DOMAIN f \union {n} |-> IF m = n THEN v ELSE f[m]]

(* Mutant: the size is read from the commit cursor again.                  *)
PublishableHeadRereads ==
    [size |-> TreeSizeForCommittedSeq(rootState.seq), smt |-> cycle.root,
     from |-> lastPublished]

(* buildPublishableHead.  lastPublished does not change within a cycle.    *)
PublishableHead == [size |-> treeSize, smt |-> cycle.root, from |-> lastPublished]

(* The cycle ends without publishing.                                      *)
Hold == /\ checkpointPc' = "idle"
        /\ cycle' = NoCycle
        /\ UNCHANGED lastPublished
--------------------------------------------------------------------------------
(* Mutant: the cycle is skipped while the root is the published one.       *)
ReadCommitByRoot ==
    /\ checkpointPc = "idle"
    /\ rootState.root # horizon.smt
    /\ TreeSizeForCommittedSeq(rootState.seq) <= integrated
    /\ cycle' = [seq |-> rootState.seq, root |-> rootState.root,
                 dirty |-> {}, todo |-> {}]
    /\ checkpointPc' = "emit"
    /\ UNCHANGED <<builderState, budget, integrated, lastPublished, ladderVars, storeVars>>

(* Steps 1-3: the committed position, skipped when published, held until   *)
(* Tessera has integrated it.                                              *)
ReadCommit ==
    /\ checkpointPc = "idle"
    /\ TreeSizeForCommittedSeq(rootState.seq) > lastPublished
    /\ TreeSizeForCommittedSeq(rootState.seq) <= integrated
    /\ cycle' = [seq |-> rootState.seq, root |-> rootState.root,
                 dirty |-> {}, todo |-> {}]
    /\ checkpointPc' = "emit"
    /\ UNCHANGED <<builderState, budget, integrated, lastPublished, ladderVars, storeVars>>

(* Step 4, BuildDirtyTiles over a snapshot of the tail: the tiles of the   *)
(* root that do not exist yet.  A node it cannot read fails the emission.  *)
BuildTiles ==
    /\ checkpointPc = "emit"
    /\ LET dirty == Nodes(cycle.root) \ tiles
       IN IF dirty \subseteq tail
          THEN /\ cycle' = [cycle EXCEPT !.dirty = dirty, !.todo = dirty]
               /\ checkpointPc' = "put"
               /\ UNCHANGED lastPublished
          ELSE Hold
    /\ UNCHANGED <<builderState, budget, integrated, ladderVars, storeVars>>

(* EmitDurable writes the tiles in map order, one PUT at a time.           *)
PutTile ==
    /\ checkpointPc = "put"
    /\ \E n \in cycle.todo :
          /\ tiles' = tiles \union {n}
          /\ cycle' = [cycle EXCEPT !.todo = @ \ {n}]
    /\ UNCHANGED <<rows, pgVars, frontier, tailVars, builderVars, late, budget, integrated,
                   checkpointPc, lastPublished, ladderVars, storeVars>>

(* Mutant: the frontier advances with the first PUT.                       *)
AdvanceFrontierEarly ==
    /\ checkpointPc = "put"
    /\ IF frontier.seq <= cycle.seq
       THEN frontier' = [root |-> cycle.root, seq |-> cycle.seq]
       ELSE UNCHANGED frontier
    /\ checkpointPc' = "prune"
    /\ UNCHANGED <<rows, pgVars, tiles, tailVars, builderVars, late, budget, integrated,
                   cycle, lastPublished, ladderVars, storeVars>>

(* Step 5, once every PUT is acknowledged.                                 *)
AdvanceFrontier ==
    /\ checkpointPc = "put"
    /\ cycle.todo = {}
    /\ IF frontier.seq <= cycle.seq
       THEN frontier' = [root |-> cycle.root, seq |-> cycle.seq]
       ELSE UNCHANGED frontier
    /\ checkpointPc' = "prune"
    /\ UNCHANGED <<rows, pgVars, tiles, tailVars, builderVars, late, budget, integrated,
                   cycle, lastPublished, ladderVars, storeVars>>

(* Mutant: the orphan prune walks from the root of the running cycle, a    *)
(* root the builder may have left behind.                                  *)
PruneTailFromCycle ==
    LET kept == tail \ cycle.dirty
    IN IF PruneOrphans /\ cycle.root # EmptyRoot
       THEN kept \intersect Nodes(cycle.root)
       ELSE kept

(* Steps 5a and 5b: PruneTiled drops what was just made durable, the       *)
(* orphan prune what the tail's committed root does not reach.             *)
PruneTail ==
    LET kept == tail \ cycle.dirty
        reachable == IF tailRoot \in kept THEN Nodes(tailRoot) \intersect kept ELSE {}
    IN IF PruneOrphans /\ tailRoot # EmptyRoot THEN reachable ELSE kept

Prune ==
    /\ checkpointPc = "prune"
    /\ tail' = PruneTail
    /\ checkpointPc' = "cosign"
    /\ UNCHANGED <<rows, pgVars, frontier, tiles, tailRoot, builderVars, late, budget,
                   integrated, cycle, lastPublished, ladderVars, storeVars>>

(* Steps 6-8: the witnesses cosign, the head is inserted into tree_heads   *)
(* unless a row of its size exists.                                        *)
RequestCosignatures ==
    /\ checkpointPc = "cosign"
    /\ signed' = signed \union {PublishableHead}
    /\ treeHeads' = IF treeSize \in DOMAIN treeHeads THEN treeHeads
                    ELSE Put(treeHeads, treeSize, PublishableHead)
    /\ checkpointPc' = "archive"
    /\ UNCHANGED <<builderState, budget, integrated, cycle, lastPublished, storeVars>>

(* The signatures are collected but not persisted.                         *)
PersistFails ==
    /\ checkpointPc = "cosign"
    /\ CanFail /\ Fault
    /\ signed' = signed \union {PublishableHead}
    /\ Hold
    /\ UNCHANGED <<builderState, integrated, treeHeads, storeVars>>

(* Mutant: the range starts at the last cosigned size, published or not.   *)
ArchiveReceiptsFromLadder ==
    /\ checkpointPc = "archive"
    /\ receipts' = Put(receipts, treeSize,
                       Max({m \in DOMAIN treeHeads : m < treeSize} \union {0}))
    /\ checkpointPc' = "ship"
    /\ UNCHANGED <<builderState, budget, integrated, cycle, lastPublished, ladderVars,
                   objects, shipCursor, archive, horizon>>

(* Step 9a: the commitments of lastPublished..cSeq, under the new size.    *)
ArchiveReceiptCommits ==
    /\ checkpointPc = "archive"
    /\ receipts' = Put(receipts, treeSize, lastPublished)
    /\ checkpointPc' = "ship"
    /\ UNCHANGED <<builderState, budget, integrated, cycle, lastPublished, ladderVars,
                   objects, shipCursor, archive, horizon>>

(* Step 9b, ShippingPublisher: the log tiles up to the head's size first.  *)
ShipUpTo ==
    /\ checkpointPc = "ship"
    /\ objects' = objects \union TilesToShip(shipCursor, treeSize)
    /\ shipCursor' = IF treeSize <= shipCursor THEN shipCursor ELSE treeSize
    /\ checkpointPc' = "publish"
    /\ UNCHANGED <<builderState, budget, integrated, cycle, lastPublished, ladderVars,
                   receipts, archive, horizon>>

(* The tiles are put, the cursor is not.                                   *)
ShipCursorFails ==
    /\ checkpointPc = "ship"
    /\ CanFail /\ Fault
    /\ objects' = objects \union TilesToShip(shipCursor, treeSize)
    /\ Hold
    /\ UNCHANGED <<builderState, integrated, ladderVars, shipCursor, receipts, archive,
                   horizon>>

(* PublishCosignedCheckpoint: the per-size archive and the index ...       *)
ArchiveCheckpoint ==
    /\ checkpointPc = "publish"
    /\ archive' = Put(archive, treeSize, PublishableHead)
    /\ checkpointPc' = "horizon"
    /\ UNCHANGED <<builderState, budget, integrated, cycle, lastPublished, ladderVars,
                   objects, shipCursor, receipts, horizon>>

(* ... and the horizon last.                                               *)
PublishHorizon ==
    /\ checkpointPc = "horizon"
    /\ horizon' = PublishableHead
    /\ lastPublished' = treeSize
    /\ checkpointPc' = "idle"
    /\ cycle' = NoCycle
    /\ UNCHANGED <<builderState, budget, integrated, ladderVars, objects, shipCursor,
                   receipts, archive>>

(* A call of the running step fails: the PUT of a tile, AdvanceFrontier,   *)
(* the quorum, an archive, the shipping, the horizon.                      *)
CycleFails ==
    /\ checkpointPc \notin {"idle", "emit", "prune"}
    /\ CanFail /\ Fault
    /\ Hold
    /\ UNCHANGED <<builderState, integrated, ladderVars, storeVars>>

(* Tessera integrates the next leaf, which the sequencer appended before   *)
(* its row is projected.                                                   *)
Integrate ==
    /\ integrated < MaxEntries
    /\ integrated' = integrated + 1
    /\ UNCHANGED <<builderState, budget, loopVars, ladderVars, storeVars>>

(* The process dies and boots: Postgres and the object store survive, the  *)
(* tail, the batch, the cycle and lastPublished do not.                    *)
Crash ==
    /\ budget.restarts < MaxRestarts
    /\ BootAccepts
    /\ tail' = RecoveredTail
    /\ tailRoot' = EmptyRoot
    /\ builderPc' = "idle"
    /\ batch' = NoBatch
    /\ checkpointPc' = "idle"
    /\ cycle' = NoCycle
    /\ lastPublished' = 0
    /\ budget' = [budget EXCEPT !.restarts = @ + 1]
    /\ UNCHANGED <<rows, pgVars, frontier, tiles, late, integrated, ladderVars, storeVars>>
--------------------------------------------------------------------------------
Init ==
    /\ BuilderInit
    /\ integrated = 0
    /\ checkpointPc = "idle"
    /\ cycle = NoCycle
    /\ lastPublished = 0
    /\ treeHeads = [n \in {} |-> NoHead]
    /\ signed = {}
    /\ objects = {}
    /\ shipCursor = 0
    /\ receipts = [n \in {} |-> 0]
    /\ archive = [n \in {} |-> NoHead]
    /\ horizon = NoHead

CheckpointOnce ==
    \/ ReadCommit \/ BuildTiles \/ PutTile \/ AdvanceFrontier \/ Prune
    \/ RequestCosignatures \/ ArchiveReceiptCommits \/ ShipUpTo
    \/ ArchiveCheckpoint \/ PublishHorizon

Next ==
    \/ BuilderNext /\ UNCHANGED <<integrated, loopVars, ladderVars, storeVars>>
    \/ CheckpointOnce \/ CycleFails \/ PersistFails \/ ShipCursorFails
    \/ Integrate \/ Crash

Spec == Init /\ [][Next]_vars

(* Both loops tick for ever, every call they make returns, Tessera         *)
(* integrates what it was given and an open transaction ends.  Rows,       *)
(* faults and crashes owe nothing.                                         *)
Fairness ==
    /\ WF_vars((BuilderStep \/ LateCommit)
                  /\ UNCHANGED <<integrated, loopVars, ladderVars, storeVars>>)
    /\ WF_vars(CheckpointOnce)
    /\ WF_vars(Integrate)

FairSpec == Spec /\ Fairness
--------------------------------------------------------------------------------
(* The cursor, the committed position and every head stay within the rows  *)
(* and leaves that exist; the program counters within their steps.         *)
TypeOK ==
    /\ rows \in Seq(RowKind)
    /\ cursor \in -1..Len(rows) - 1
    /\ {rootState.root, smtLeaves, frontier.root, tailRoot} \subseteq Tree
    /\ rootState.seq \in 0..Max({cursor, 0})
    /\ frontier.seq \in 0..rootState.seq
    /\ \A n \in tail \union tiles : DOMAIN n \subseteq Key
    /\ builderPc \in {"idle", "commit", "handoff"}
    /\ checkpointPc \in {"idle", "emit", "put", "prune", "cosign", "archive", "ship",
                         "publish", "horizon"}
    /\ integrated \in 0..MaxEntries
    /\ \A h \in signed \union {horizon} : h.size <= integrated /\ h.smt \in Tree
    /\ {shipCursor, lastPublished} \subseteq 0..integrated
    /\ budget \in [faults : 0..MaxFaults, lost : 0..MaxFaults, restarts : 0..MaxRestarts]

(* Published means durable: the SMT tiles of every root the witnesses have *)
(* cosigned, and of the frontier that recovery trusts, are in the object   *)
(* store.                                                                  *)
PublishedIsDurable ==
    \A t \in {h.smt : h \in signed} \union {frontier.root} : Nodes(t) \subseteq tiles

(* A reader that has only the object store can use the horizon it fetched: *)
(* the log tiles and entry bundles of that size are there at the widths it *)
(* will ask for, and so is the checkpoint's own archive copy.              *)
HorizonIsReadable ==
    horizon # NoHead => /\ Required(horizon.size) \subseteq objects
                        /\ horizon.size \in DOMAIN archive

(* No receipt is orphaned: the first archived checkpoint that covers an    *)
(* entry below the horizon holds that entry's receipt commitment, across   *)
(* holds, failed publications and restarts.                                *)
ReceiptsCoverHorizon ==
    \A s \in 0..horizon.size - 1 :
        receipts[Min({n \in DOMAIN archive : n > s})] <= s

(* A cosigned head of size n binds the SMT of exactly the first n rows, if *)
(* no commit's answer was lost.  Size 1 is left out: GenesisHeadMatches.   *)
HeadsMatchPrefix ==
    \A h \in signed : h.size > 1 /\ budget.lost = 0 => h.smt = TreeAt(h.size)

(* The witnesses never cosign two SMT roots at one size above 1, not even  *)
(* when a restarted loop publishes the same size again.                    *)
NoEquivocation ==
    \A g, h \in signed : g.size = h.size /\ g.size > 1 => g.smt = h.smt

(* Every live row comes under the published horizon.                       *)
RowsGetPublished ==
    \A s \in 0..MaxEntries - 1 :
        (s < Len(rows) /\ Row(s) # Tombstone) ~> horizon.size > s

(* "This single comparison ALSO resolves genesis": a head of size 1 binds  *)
(* the SMT after row 0, not the empty tree of a log whose first row is not *)
(* committed yet.                                                          *)
GenesisHeadMatches ==
    \A h \in signed : h.size = 1 /\ Len(rows) > 0 => h.smt = TreeAt(1)

(* "exactly the handler's reconstruction range": the receipt root of the   *)
(* checkpoint of size n covers [CosignedSizeBelow(n), n-1].                *)
ReceiptRangeIsLadderStep ==
    \A n \in DOMAIN treeHeads :
        treeHeads[n].from = Max({m \in DOMAIN treeHeads : m < n} \union {0})
================================================================================
