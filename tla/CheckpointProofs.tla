---------------------------- MODULE CheckpointProofs ----------------------------
(***************************************************************************)
(* Two properties of builder and checkpoint loop, for every set of keys,   *)
(* every configuration and any number of rows, faults and crashes:         *)
(* smt_leaves always derives the committed root, and a cosigned root's     *)
(* tiles are always durable.                                               *)
(***************************************************************************)
EXTENDS Checkpoint, TLAPS

IsLeafMap(t) == t = [k \in Key |-> t[k]]

(* What RootIsLeaves rests on: a transaction that is still open after its  *)
(* answer was lost was computed from the root that is committed now, since *)
(* its row lock keeps every other commit out.                              *)
LeavesInv ==
    /\ IsLeafMap(rootState.root)
    /\ smtLeaves = rootState.root
    /\ builderPc = "commit" => IsLeafMap(batch.newRoot)
    /\ late # NoBatch => IsLeafMap(late.newRoot) /\ late.prior = rootState

(* What PublishedIsDurable rests on: the running cycle's root is durable   *)
(* but for the PUTs still to do, and entirely once the frontier moved.     *)
DurableInv ==
    /\ PublishedIsDurable
    /\ cycle = [seq |-> cycle.seq, root |-> cycle.root, dirty |-> cycle.dirty,
                todo |-> cycle.todo]
    /\ checkpointPc = "put" => Nodes(cycle.root) \subseteq tiles \union cycle.todo
    /\ checkpointPc \in {"prune", "cosign", "archive", "ship", "publish", "horizon"} =>
           Nodes(cycle.root) \subseteq tiles
--------------------------------------------------------------------------------
(* A transaction computed from the committed root leaves smt_leaves and    *)
(* the new root equal, though it only writes the leaves that changed.      *)
LEMMA ApplyKeepsLeaves ==
    ASSUME NEW b, Apply(b), b.prior = rootState, IsLeafMap(b.newRoot),
           IsLeafMap(rootState.root), smtLeaves = rootState.root
    PROVE  /\ smtLeaves' = b.newRoot
           /\ rootState'.root = b.newRoot
<1>1. rootState'.root = b.newRoot
  BY DEF Apply
<1>2. smtLeaves' = [k \in Key |-> b.newRoot[k]]
  BY DEF Apply
<1> QED BY <1>1, <1>2 DEF IsLeafMap

(* The empty log has equal leaves and root.                                *)
LEMMA LeavesInit == Init => LeavesInv
  BY DEF Init, BuilderInit, LeavesInv, IsLeafMap, EmptyRoot

(* A builder step keeps leaves and root equal.                             *)
LEMMA LeavesBuilder == LeavesInv /\ BuilderNext => LeavesInv'
<1> SUFFICES ASSUME LeavesInv, BuilderNext PROVE LeavesInv'
  OBVIOUS
<1> USE DEF LeavesInv
<1>1. CASE BeginBatch
  <2>1. UNCHANGED <<rootState, smtLeaves, late>>
    BY <1>1 DEF BeginBatch
  <2>2. builderPc' = "commit" => IsLeafMap(batch'.newRoot)
    BY <1>1 DEF BeginBatch, ProcessBatch, IsLeafMap, builderVars
  <2> QED BY <2>1, <2>2 DEF IsLeafMap
<1>2. CASE Commit
  <2>1. /\ smtLeaves' = batch.newRoot
        /\ rootState'.root = batch.newRoot
    BY <1>2, ApplyKeepsLeaves DEF Commit, CAS
  <2> QED BY <1>2, <2>1 DEF Commit, IsLeafMap
<1>3. CASE CommitRefused
  BY <1>3 DEF CommitRefused, IsLeafMap, pgVars
<1>4. CASE BatchFails
  BY <1>4 DEF BatchFails, IsLeafMap, pgVars
<1>5. CASE CommitUnknown
  BY <1>5 DEF CommitUnknown, CAS, IsLeafMap, pgVars
<1>6. CASE LateCommit
  <2>1. CASE Apply(late)
    <3>1. /\ smtLeaves' = late.newRoot
          /\ rootState'.root = late.newRoot
      BY <1>6, <2>1, ApplyKeepsLeaves DEF LateCommit
    <3> QED BY <1>6, <3>1 DEF LateCommit, IsLeafMap, builderVars
  <2>2. CASE UNCHANGED pgVars
    BY <1>6, <2>2 DEF LateCommit, IsLeafMap, builderVars, pgVars
  <2> QED BY <1>6, <2>1, <2>2 DEF LateCommit
<1>7. CASE Handoff
  BY <1>7 DEF Handoff, IsLeafMap, pgVars
<1>8. CASE \E e \in RowKind : Project(e)
  BY <1>8 DEF Project, IsLeafMap, pgVars, builderVars
<1> QED BY <1>1, <1>2, <1>3, <1>4, <1>5, <1>6, <1>7, <1>8 DEF BuilderNext, BuilderStep

(* The checkpoint loop writes neither; a crash only drops the batch.       *)
LEMMA LeavesStep == LeavesInv /\ [Next]_vars => LeavesInv'
<1> SUFFICES ASSUME LeavesInv, [Next]_vars PROVE LeavesInv'
  OBVIOUS
<1>1. CASE BuilderNext
  BY <1>1, LeavesBuilder
<1>2. CASE UNCHANGED <<rootState, smtLeaves, builderPc, batch, late>>
  BY <1>2 DEF LeavesInv, IsLeafMap
<1>3. CASE CheckpointOnce \/ CycleFails \/ PersistFails \/ ShipCursorFails \/ Integrate
  BY <1>2, <1>3, Zenon DEF CheckpointOnce, CycleFails, PersistFails, ShipCursorFails, Integrate,
     ReadCommit, BuildTiles, PutTile, AdvanceFrontier, Prune, RequestCosignatures,
     ArchiveReceiptCommits, ShipUpTo, ArchiveCheckpoint, PublishHorizon,
     builderState, pgVars, builderVars
<1>4. CASE Crash
  BY <1>4 DEF Crash, LeavesInv, IsLeafMap, pgVars
<1>5. CASE UNCHANGED vars
  BY <1>2, <1>5 DEF vars, builderState, pgVars, builderVars
<1> QED BY <1>1, <1>3, <1>4, <1>5 DEF Next

(* "root = f(smt_leaves)": in every reachable state the leaves replayed by *)
(* recovery give the committed root, lost commit answers included.         *)
THEOREM CheckpointRootIsLeaves == Spec => []RootIsLeaves
<1>1. LeavesInv => RootIsLeaves
  BY DEF LeavesInv, RootIsLeaves
<1> QED BY <1>1, LeavesInit, LeavesStep, PTL DEF Spec
--------------------------------------------------------------------------------
(* The empty tree has no nodes.                                            *)
LEMMA EmptyRootHasNoNodes == Nodes(EmptyRoot) = {}
<1>1. ASSUME NEW k \in Key PROVE Path(EmptyRoot, k) = {}
  <2>1. IsEmptyNode(EmptyRoot)
    BY DEF IsEmptyNode, EmptyRoot
  <2>2. IsEmptyNode(LeafNode(EmptyRoot, k))
    BY DEF IsEmptyNode, LeafNode, EmptyRoot
  <2> QED BY <2>1, <2>2 DEF Path
<1> QED BY <1>1 DEF Nodes

(* Before the first cycle only the empty root counts as durable.           *)
LEMMA DurableInit == Init => DurableInv
<1> SUFFICES ASSUME Init PROVE DurableInv
  OBVIOUS
<1>1. frontier.root = EmptyRoot /\ signed = {}
  BY DEF Init, BuilderInit
<1>2. PublishedIsDurable
  BY <1>1, EmptyRootHasNoNodes DEF PublishedIsDurable
<1>3. checkpointPc = "idle" /\ cycle = NoCycle
  BY DEF Init
<1> QED BY <1>2, <1>3 DEF DurableInv, NoCycle

(* A step that leaves the loop's cycle alone, and loses no tile, frontier  *)
(* or cosigned head, keeps the invariant.                                  *)
LEMMA DurableUnchanged ==
    ASSUME DurableInv, UNCHANGED <<frontier, tiles, signed, checkpointPc, cycle>>
    PROVE  DurableInv'
  BY DEF DurableInv, PublishedIsDurable

(* Ending the cycle keeps it, whatever was cosigned over a durable root.   *)
LEMMA DurableHold ==
    ASSUME DurableInv, Hold, UNCHANGED <<frontier, tiles>>, PublishedIsDurable'
    PROVE  DurableInv'
  BY DEF DurableInv, Hold, NoCycle

(* The cosigned head binds the root of the cycle.                          *)
LEMMA CosignDurable ==
    ASSUME DurableInv, checkpointPc = "cosign", UNCHANGED <<frontier, tiles>>,
           signed' = signed \union {PublishableHead}
    PROVE  PublishedIsDurable'
<1>1. Nodes(cycle.root) \subseteq tiles
  BY DEF DurableInv
<1>2. PublishableHead.smt = cycle.root
  BY DEF PublishableHead
<1> QED BY <1>1, <1>2 DEF DurableInv, PublishedIsDurable

(* One cycle step after another keeps the invariant.                       *)
LEMMA DurableCycle == DurableInv /\ CheckpointOnce => DurableInv'
<1> SUFFICES ASSUME DurableInv, CheckpointOnce PROVE DurableInv'
  OBVIOUS
<1>1. CASE ReadCommit
  <2>1. UNCHANGED <<frontier, tiles, signed>> /\ checkpointPc' = "emit"
    BY <1>1 DEF ReadCommit, builderState, ladderVars
  <2>2. cycle' = [seq |-> rootState.seq, root |-> rootState.root, dirty |-> {},
                  todo |-> {}]
    BY <1>1 DEF ReadCommit
  <2> QED BY <2>1, <2>2 DEF DurableInv, PublishedIsDurable
<1>2. CASE BuildTiles
  <2>1. UNCHANGED <<frontier, tiles, signed>>
    BY <1>2 DEF BuildTiles, builderState, ladderVars
  <2>2. PublishedIsDurable'
    BY <2>1 DEF DurableInv, PublishedIsDurable
  <2>3. CASE Hold
    BY <2>1, <2>2, <2>3, DurableHold
  <2>4. CASE /\ cycle' = [cycle EXCEPT !.dirty = Nodes(cycle.root) \ tiles,
                                      !.todo = Nodes(cycle.root) \ tiles]
             /\ checkpointPc' = "put"
    <3>1. cycle' = [seq |-> cycle.seq, root |-> cycle.root,
                    dirty |-> Nodes(cycle.root) \ tiles,
                    todo |-> Nodes(cycle.root) \ tiles]
      BY <2>4, Zenon DEF DurableInv
    <3> QED BY <2>1, <2>2, <2>4, <3>1, Zenon DEF DurableInv
  <2> QED BY <1>2, <2>3, <2>4 DEF BuildTiles
<1>3. CASE PutTile
  <2>1. PICK n \in cycle.todo : /\ tiles' = tiles \union {n}
                                /\ cycle' = [cycle EXCEPT !.todo = @ \ {n}]
    BY <1>3 DEF PutTile
  <2>2. cycle' = [seq |-> cycle.seq, root |-> cycle.root, dirty |-> cycle.dirty,
                  todo |-> cycle.todo \ {n}]
    BY <2>1 DEF DurableInv
  <2>3. UNCHANGED <<frontier, signed, checkpointPc>> /\ checkpointPc = "put"
    BY <1>3 DEF PutTile, ladderVars
  <2>4. PublishedIsDurable'
    BY <2>1, <2>3 DEF DurableInv, PublishedIsDurable
  <2> QED BY <2>1, <2>2, <2>3, <2>4 DEF DurableInv
<1>4. CASE AdvanceFrontier
  <2>1. /\ UNCHANGED <<tiles, signed, cycle>>
        /\ checkpointPc = "put" /\ checkpointPc' = "prune" /\ cycle.todo = {}
    BY <1>4 DEF AdvanceFrontier, ladderVars
  <2>2. Nodes(cycle.root) \subseteq tiles
    BY <2>1 DEF DurableInv
  <2>3. frontier'.root \in {frontier.root, cycle.root}
    BY <1>4 DEF AdvanceFrontier
  <2>4. PublishedIsDurable'
    BY <2>1, <2>2, <2>3 DEF DurableInv, PublishedIsDurable
  <2> QED BY <2>1, <2>2, <2>4 DEF DurableInv
<1>5. CASE RequestCosignatures
  <2>1. /\ UNCHANGED <<frontier, tiles, cycle>>
        /\ checkpointPc = "cosign" /\ checkpointPc' = "archive"
    BY <1>5 DEF RequestCosignatures, builderState
  <2>2. PublishedIsDurable'
    BY <1>5, <2>1, CosignDurable DEF RequestCosignatures
  <2> QED BY <2>1, <2>2 DEF DurableInv
<1>6. CASE Prune \/ ArchiveReceiptCommits \/ ShipUpTo \/ ArchiveCheckpoint
  <2>1. /\ UNCHANGED <<frontier, tiles, signed, cycle>>
        /\ checkpointPc \in {"prune", "archive", "ship", "publish"}
        /\ checkpointPc' \in {"cosign", "ship", "publish", "horizon"}
    BY <1>6 DEF Prune, ArchiveReceiptCommits, ShipUpTo, ArchiveCheckpoint, builderState,
       ladderVars
  <2> QED BY <2>1 DEF DurableInv, PublishedIsDurable
<1>7. CASE PublishHorizon
  BY <1>7 DEF PublishHorizon, builderState, ladderVars, DurableInv, PublishedIsDurable,
     NoCycle
<1> QED BY <1>1, <1>2, <1>3, <1>4, <1>5, <1>6, <1>7 DEF CheckpointOnce

(* Builder, failures and crashes lose no tile and move no frontier.        *)
LEMMA DurableStep == DurableInv /\ [Next]_vars => DurableInv'
<1> SUFFICES ASSUME DurableInv, [Next]_vars PROVE DurableInv'
  OBVIOUS
<1>1. CASE CheckpointOnce
  BY <1>1, DurableCycle
<1>2. CASE BuilderNext /\ UNCHANGED <<integrated, loopVars, ladderVars, storeVars>>
  <2>1. UNCHANGED <<frontier, tiles>>
    BY <1>2 DEF BuilderNext, BuilderStep, BeginBatch, Commit, CommitRefused, Handoff,
       BatchFails, CommitUnknown, LateCommit, Project
  <2> QED BY <1>2, <2>1, DurableUnchanged DEF loopVars, ladderVars
<1>3. CASE CycleFails \/ ShipCursorFails
  <2>1. Hold /\ UNCHANGED <<frontier, tiles, signed>>
    BY <1>3 DEF CycleFails, ShipCursorFails, builderState, ladderVars
  <2>2. PublishedIsDurable'
    BY <2>1 DEF DurableInv, PublishedIsDurable
  <2> QED BY <2>1, <2>2, DurableHold
<1>4. CASE PersistFails
  <2>1. Hold /\ UNCHANGED <<frontier, tiles>> /\ checkpointPc = "cosign"
    BY <1>4 DEF PersistFails, builderState
  <2>2. PublishedIsDurable'
    BY <1>4, <2>1, CosignDurable DEF PersistFails
  <2> QED BY <2>1, <2>2, DurableHold
<1>5. CASE Integrate
  BY <1>5, DurableUnchanged DEF Integrate, builderState, loopVars, ladderVars
<1>6. CASE Crash
  <2>1. /\ UNCHANGED <<frontier, tiles, signed>>
        /\ checkpointPc' = "idle" /\ cycle' = NoCycle
    BY <1>6 DEF Crash, ladderVars
  <2> QED BY <2>1 DEF DurableInv, PublishedIsDurable, NoCycle
<1>7. CASE UNCHANGED vars
  BY <1>7, DurableUnchanged DEF vars, builderState, loopVars, ladderVars
<1> QED BY <1>1, <1>2, <1>3, <1>4, <1>5, <1>6, <1>7 DEF Next

(* Published means durable: in every reachable state the SMT tiles of each *)
(* cosigned root, and of the frontier that recovery trusts, are in the     *)
(* object store.                                                           *)
THEOREM CheckpointPublishedIsDurable == Spec => []PublishedIsDurable
<1>1. DurableInv => PublishedIsDurable
  BY DEF DurableInv
<1> QED BY <1>1, DurableInit, DurableStep, PTL DEF Spec
================================================================================
