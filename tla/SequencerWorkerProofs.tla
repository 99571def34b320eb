------------------------ MODULE SequencerWorkerProofs ------------------------
(***************************************************************************)
(* The steps of submissions, drain cycles and workers keep the sequencer's *)
(* inductive invariant.                                                    *)
(***************************************************************************)
EXTENDS Sequencer, EntryIndexProofs

(* The WAL transactions the sequencer runs keep the keyspace well-formed.  *)
LEMMA KeyspaceOps ==
    ASSUME NEW w, IsKeyspace(w), NEW h \in Hash, NEW s \in Nat
    PROVE  /\ IsKeyspace(FlushBatch(w, {h}))
           /\ IsKeyspace(Sequence(w, h, s))
           /\ IsKeyspace(MarkRetry(w, h))
           /\ IsKeyspace(MarkManual(w, h))
<1>1. IsKeyspace(FlushBatch(w, {h}))
  BY DEF IsKeyspace, FlushBatch, EntryState
<1>2. IsKeyspace(Sequence(w, h, s))
  BY DEF IsKeyspace, Sequence, EntryState
<1>3. IsKeyspace(MarkRetry(w, h))
  BY DEF IsKeyspace, MarkRetry, EntryState
<1>4. IsKeyspace(MarkManual(w, h))
  BY DEF IsKeyspace, MarkManual, EntryState
<1> QED
  BY <1>1, <1>2, <1>3, <1>4

(* The WAL starts well-formed.                                             *)
LEMMA EmptyKeyspaceOK == IsKeyspace(EmptyKeyspace)
  BY DEF IsKeyspace, EmptyKeyspace, EntryState

(* A step that touches neither the tree, nor the table, nor the committer  *)
(* keeps IInv when it keeps the types and puts no worker in "emit".        *)
LEMMA FrameOutside ==
    ASSUME IInv, TypeOK',
           UNCHANGED <<tesseraVars, entryIndex, commitCh, heap, pending, nextExpectedSeq, pc>>,
           \A h \in Hash : worker'[h] = "emit" => worker[h] = "emit"
    PROVE  IInv'
<1>1. AntispamPoints' /\ BatchContiguous' /\ TableCovers'
  BY DEF IInv, AntispamPoints, BatchContiguous, TableCovers, Expected, tesseraVars
<1>2. StagedPoint'
  BY DEF IInv, StagedPoint, tesseraVars
<1>3. RowsMatchTree' /\ OnePrimary' /\ GhostsResolve'
  BY DEF IInv, RowsMatchTree, OnePrimary, GhostsResolve, tesseraVars
<1> QED
  BY <1>1, <1>2, <1>3 DEF IInv

(* Drawing on a budget keeps it a count.                                   *)
LEMMA SpendType ==
    ASSUME TypeOK, NEW kind \in {"submits", "faults", "restarts"}, NEW max, Spend(kind, max)
    PROVE  budget' \in [submits : Nat, faults : Nat, restarts : Nat]
<1>1. budget \in [submits : Nat, faults : Nat, restarts : Nat]
  BY DEF TypeOK
<1>2. budget' = [budget EXCEPT ![kind] = @ + 1]
  BY DEF Spend
<1>3. CASE kind = "submits"
  BY <1>1, <1>2, <1>3
<1>4. CASE kind = "faults"
  BY <1>1, <1>2, <1>4
<1>5. CASE kind = "restarts"
  BY <1>1, <1>2, <1>5
<1> QED
  BY <1>3, <1>4, <1>5

(* A WAL call that may fail leaves the keyspace well-formed.               *)
LEMMA WalCallType ==
    ASSUME TypeOK, NEW w, IsKeyspace(w), WalCall(w)
    PROVE  /\ IsKeyspace(wal')
           /\ budget' \in [submits : Nat, faults : Nat, restarts : Nat]
<1>1. CASE wal' = w /\ UNCHANGED budget
  BY <1>1 DEF TypeOK
<1>2. CASE UNCHANGED wal /\ Spend("faults", MaxFaults)
  BY <1>2, SpendType, Zenon DEF TypeOK
<1> QED
  BY <1>1, <1>2 DEF WalCall

(* A submission only touches the WAL.                                      *)
LEMMA SubmitStep == ASSUME IInv, NEW h \in Hash, Submit(h) PROVE IInv'
<1>1. IsKeyspace(wal') /\ IsKeyspace(walDisk')
  BY KeyspaceOps, Zenon DEF IInv, TypeOK, Submit
<1>2. budget' \in [submits : Nat, faults : Nat, restarts : Nat]
  BY SpendType DEF IInv, Submit
<1>3. TypeOK'
  BY <1>1, <1>2, Zenon DEF IInv, TypeOK, Submit, tesseraVars, workerVars, committerVars
<1> QED
  BY <1>3, FrameOutside DEF Submit, workerVars, committerVars

(* A background flush only touches the WAL on disk.                        *)
LEMMA BackgroundSyncStep == ASSUME IInv, BackgroundSync PROVE IInv'
<1>1. TypeOK'
  BY Zenon DEF IInv, TypeOK, BackgroundSync, tesseraVars, workerVars, committerVars
<1> QED
  BY <1>1, FrameOutside DEF BackgroundSync, workerVars, committerVars

(* A drain cycle only queues idle hashes.                                  *)
LEMMA DrainOnceStep == ASSUME IInv, DrainOnce PROVE IInv'
<1>1. worker' \in [Hash -> {"idle", "queued"}]
  BY DEF DrainOnce
<1>2. TypeOK'
  BY <1>1, Zenon DEF IInv, TypeOK, DrainOnce, walVars, tesseraVars, committerVars
<1> QED
  BY <1>1, <1>2, FrameOutside DEF DrainOnce, committerVars

(* A worker that takes up a hash appends nothing yet.                      *)
LEMMA DispatchStep == ASSUME IInv, NEW h \in Hash, Dispatch(h) PROVE IInv'
<1>1. /\ worker' \in [Hash -> {"idle", "queued", "append", "exhausted", "emit"}]
      /\ \A g \in Hash : worker'[g] = "emit" => worker[g] = "emit"
      /\ attempts' \in [Hash -> Nat]
  <2>1. /\ worker \in [Hash -> {"idle", "queued", "append", "exhausted", "emit"}]
        /\ attempts \in [Hash -> Nat]
    BY DEF IInv, TypeOK
  <2>2. /\ \/ worker' = [worker EXCEPT ![h] = "idle"]
           \/ worker' = [worker EXCEPT ![h] = "append"]
        /\ attempts' = [attempts EXCEPT ![h] = 0] \/ attempts' = attempts
    BY DEF Dispatch
  <2> QED
    BY <2>1, <2>2
<1>2. IsKeyspace(wal') /\ budget' \in [submits : Nat, faults : Nat, restarts : Nat]
  <2>1. CASE WalCall(MarkManual(wal, h))
    BY <2>1, KeyspaceOps, WalCallType, Zenon DEF IInv, TypeOK
  <2>2. CASE UNCHANGED <<wal, budget>>
    BY <2>2 DEF IInv, TypeOK
  <2>3. CASE UNCHANGED wal /\ Spend("faults", MaxFaults)
    BY <2>3, SpendType, Zenon DEF IInv, TypeOK
  <2> QED
    BY <2>1, <2>2, <2>3 DEF Dispatch
<1>3. TypeOK'
  BY <1>1, <1>2, Zenon DEF IInv, TypeOK, Dispatch, tesseraVars, committerVars
<1> QED
  BY <1>1, <1>3, FrameOutside DEF Dispatch, committerVars

(* A failed attempt is counted; its hash leaves no tuple.                  *)
LEMMA HandleEntryErrorStep == ASSUME IInv, NEW h \in Hash, HandleEntryError(h) PROVE IInv'
<1>1. /\ worker' \in [Hash -> {"idle", "queued", "append", "exhausted", "emit"}]
      /\ \A g \in Hash : worker'[g] = "emit" => worker[g] = "emit"
      /\ attempts' \in [Hash -> Nat]
  <2>1. /\ worker \in [Hash -> {"idle", "queued", "append", "exhausted", "emit"}]
        /\ attempts \in [Hash -> Nat]
    BY DEF IInv, TypeOK
  <2>2. /\ \/ worker' = [worker EXCEPT ![h] = "idle"]
           \/ worker' = [worker EXCEPT ![h] = "exhausted"]
        /\ attempts' = [attempts EXCEPT ![h] = @ + 1]
    BY DEF HandleEntryError
  <2> QED
    BY <2>1, <2>2
<1>2. IsKeyspace(wal')
  <2>1. wal' = wal \/ wal' = MarkRetry(wal, h)
    BY DEF HandleEntryError
  <2>2. IsKeyspace(wal)
    BY DEF IInv, TypeOK
  <2>3. IsKeyspace(MarkRetry(wal, h))
    BY <2>2, KeyspaceOps, 0 \in Nat, Zenon
  <2> QED
    BY <2>1, <2>2, <2>3, Zenon
<1>3. budget' \in [submits : Nat, faults : Nat, restarts : Nat]
  BY SpendType DEF IInv, HandleEntryError
<1>4. TypeOK'
  BY <1>1, <1>2, <1>3, Zenon DEF IInv, TypeOK, HandleEntryError, tesseraVars, committerVars
<1> QED
  BY <1>1, <1>4, FrameOutside DEF HandleEntryError, committerVars

(* An exhausted entry is marked manual.                                    *)
LEMMA GiveUpStep == ASSUME IInv, NEW h \in Hash, GiveUp(h) PROVE IInv'
<1>1. /\ worker' \in [Hash -> {"idle", "queued", "append", "exhausted", "emit"}]
      /\ \A g \in Hash : worker'[g] = "emit" => worker[g] = "emit"
      /\ attempts' \in [Hash -> Nat]
  BY DEF IInv, TypeOK, GiveUp
<1>2. IsKeyspace(wal') /\ budget' \in [submits : Nat, faults : Nat, restarts : Nat]
  BY KeyspaceOps, WalCallType, Zenon DEF IInv, TypeOK, GiveUp
<1>3. TypeOK'
  BY <1>1, <1>2, Zenon DEF IInv, TypeOK, GiveUp, tesseraVars, committerVars
<1> QED
  BY <1>1, <1>3, FrameOutside DEF GiveUp, committerVars

(* Shutdown only raises the flag.                                          *)
LEMMA ShutdownStep == ASSUME IInv, Shutdown PROVE IInv'
<1>1. budget' \in [submits : Nat, faults : Nat, restarts : Nat]
  BY SpendType DEF IInv, Shutdown
<1>2. TypeOK'
  BY <1>1, Zenon DEF IInv, TypeOK, Shutdown, walVars, tesseraVars, workerVars, committerVars
<1> QED
  BY <1>2, FrameOutside DEF Shutdown, workerVars, committerVars

(* Tessera: a hash antispam knows keeps its seq; a new one gets the next.  *)
LEMMA AssignEffect ==
    ASSUME IInv, NEW h \in Hash, Assign(h)
    PROVE  /\ leaves' \in Seq(Hash)
           /\ antispam' \in [Hash -> Nat \union {NoSeq}]
           /\ antispam'[h] # NoSeq
           /\ \A g \in Hash : antispam[g] # NoSeq => antispam'[g] = antispam[g]
           /\ Len(leaves) <= Len(leaves')
           /\ \A i \in 1..Len(leaves) : leaves'[i] = leaves[i]
           /\ AntispamPoints'
<1>1. /\ leaves \in Seq(Hash) /\ antispam \in [Hash -> Nat \union {NoSeq}]
      /\ Len(leaves) \in Nat
  BY DEF IInv, TypeOK
<1>2. CASE antispam[h] # NoSeq
  <2>1. leaves' = leaves /\ antispam' = antispam
    BY <1>2 DEF Assign, tesseraVars
  <2> QED
    BY <1>1, <1>2, <2>1 DEF IInv, AntispamPoints
<1>3. CASE antispam[h] = NoSeq
  <2>1. leaves' = Append(leaves, h) /\ antispam' = [antispam EXCEPT ![h] = Len(leaves)]
    BY <1>3 DEF Assign
  <2>2. /\ leaves' \in Seq(Hash) /\ Len(leaves') = Len(leaves) + 1
        /\ \A i \in 1..Len(leaves) : leaves'[i] = leaves[i]
        /\ leaves'[Len(leaves) + 1] = h
    BY <1>1, <2>1
  <2>3. /\ antispam' \in [Hash -> Nat \union {NoSeq}]
        /\ antispam'[h] = Len(leaves)
        /\ \A g \in Hash \ {h} : antispam'[g] = antispam[g]
    BY <1>1, <2>1
  <2>4. antispam'[h] # NoSeq
    BY <1>1, <2>3 DEF NoSeq
  <2>5. AntispamPoints'
    <3>1. SUFFICES ASSUME NEW g \in Hash, antispam'[g] # NoSeq
                   PROVE  antispam'[g] < Len(leaves') /\ leaves'[antispam'[g] + 1] = g
      BY DEF AntispamPoints
    <3>2. CASE g = h
      BY <1>1, <2>2, <2>3, <3>2
    <3>3. CASE g # h
      <4>1. antispam'[g] = antispam[g] /\ antispam[g] \in Nat
        BY <1>1, <2>3, <3>1, <3>3
      <4>2. antispam[g] < Len(leaves) /\ leaves[antispam[g] + 1] = g
        BY <3>1, <4>1 DEF IInv, AntispamPoints
      <4> QED
        <5>1. antispam[g] + 1 \in 1..Len(leaves) /\ antispam[g] < Len(leaves')
          BY <1>1, <2>2, <4>1, <4>2
        <5>2. leaves'[antispam[g] + 1] = g
          BY <2>2, <4>2, <5>1, Zenon
        <5> QED
          BY <4>1, <5>1, <5>2, Zenon
    <3> QED
      BY <3>2, <3>3
  <2> QED
    BY <1>1, <1>3, <2>2, <2>3, <2>4, <2>5
<1> QED
  BY <1>2, <1>3

(* A seq a tuple carries is one antispam knows.                            *)
LEMMA StagedKnown ==
    ASSUME IInv
    PROVE  /\ \A i \in DOMAIN commitCh : commitCh[i].hash \in Hash /\ commitCh[i].seq \in Nat
           /\ \A t \in DOMAIN heap : t.hash \in Hash /\ t.seq \in Nat
           /\ \A i \in DOMAIN pending : pending[i].hash \in Hash /\ pending[i].seq \in Nat
<1>1. \A t \in StagedEntry : t.hash \in Hash /\ t.seq \in Nat
  BY DEF StagedEntry
<1>2. \A q \in Seq(StagedEntry) : \A i \in DOMAIN q : q[i] \in StagedEntry
  BY LenProperties, ElementOfSeq
<1> QED
  BY <1>1, <1>2 DEF IInv, TypeOK

(* A step that lets Tessera assign a seq and otherwise only moves workers. *)
LEMMA AssignKeeps ==
    ASSUME IInv, NEW h \in Hash, Assign(h),
           UNCHANGED <<walVars, entryIndex, stopping, attempts, committerVars, budget>>,
           worker' \in [Hash -> {"idle", "queued", "append", "exhausted", "emit"}],
           \A g \in Hash : worker'[g] = "emit" => g = h \/ worker[g] = "emit"
    PROVE  IInv'
<1>1. TypeOK'
  BY AssignEffect, Zenon DEF IInv, TypeOK, walVars, committerVars
<1>2. StagedPoint'
  <2>1. \A g \in Hash : worker'[g] = "emit" => antispam'[g] # NoSeq
    BY AssignEffect, Zenon DEF IInv, StagedPoint
  <2>2. ASSUME NEW g \in Hash, NEW s \in Nat, antispam[g] = s
        PROVE  antispam'[g] = s
    <3>1. antispam[g] # NoSeq
      BY <2>2 DEF NoSeq
    <3> QED
      BY <2>2, <3>1, AssignEffect, Zenon
  <2> QED
    BY <2>1, <2>2, StagedKnown, Zenon DEF IInv, StagedPoint, committerVars
<1>3. BatchContiguous' /\ TableCovers'
  BY DEF IInv, BatchContiguous, TableCovers, Expected, committerVars
<1>4. RowsMatchTree'
  <2>1. ASSUME NEW s \in DOMAIN entryIndex
        PROVE  s < Len(leaves') /\ entryIndex[s].hash = leaves'[s + 1]
    <3>1. s \in Nat /\ s < Len(leaves) /\ entryIndex[s].hash = leaves[s + 1]
      BY <2>1 DEF IInv, TypeOK, RowsMatchTree
    <3>2. Len(leaves) \in Nat /\ Len(leaves') \in Nat /\ Len(leaves) <= Len(leaves')
      <4>1. leaves \in Seq(Hash) /\ leaves' \in Seq(Hash)
        BY AssignEffect, Zenon DEF IInv, TypeOK
      <4> QED
        BY <4>1, AssignEffect, LenProperties
    <3>3. s + 1 \in 1..Len(leaves)
      BY <3>1, <3>2
    <3> QED
      BY <3>1, <3>2, <3>3, AssignEffect
  <2> QED
    BY <2>1 DEF RowsMatchTree
<1>5. OnePrimary' /\ GhostsResolve'
  BY DEF IInv, OnePrimary, GhostsResolve
<1> QED
  BY <1>1, <1>2, <1>3, <1>4, <1>5, AssignEffect DEF IInv

(* A worker gets a seq from Tessera.                                       *)
LEMMA AppendLeafStep == ASSUME IInv, NEW h \in Hash, AppendLeaf(h) PROVE IInv'
<1>1. /\ worker' \in [Hash -> {"idle", "queued", "append", "exhausted", "emit"}]
      /\ \A g \in Hash : worker'[g] = "emit" => g = h \/ worker[g] = "emit"
  BY DEF IInv, TypeOK, AppendLeaf
<1> QED
  BY <1>1, AssignKeeps DEF AppendLeaf

(* A cancelled worker may have got its seq or not.                         *)
LEMMA AbortStep == ASSUME IInv, NEW h \in Hash, Abort(h) PROVE IInv'
<1>1. /\ worker' \in [Hash -> {"idle", "queued", "append", "exhausted", "emit"}]
      /\ \A g \in Hash : worker'[g] = "emit" => worker[g] = "emit"
  BY DEF IInv, TypeOK, Abort
<1>2. CASE UNCHANGED tesseraVars
  <2>1. TypeOK'
    BY <1>1, <1>2, Zenon DEF IInv, TypeOK, Abort, walVars, tesseraVars, committerVars
  <2> QED
    BY <1>1, <1>2, <2>1, FrameOutside DEF Abort, committerVars
<1>3. CASE Assign(h)
  BY <1>1, <1>3, AssignKeeps DEF Abort
<1> QED
  BY <1>2, <1>3 DEF Abort

(* A worker hands over the tuple antispam knows.                           *)
LEMMA EmitStep == ASSUME IInv, NEW h \in Hash, Emit(h) PROVE IInv'
<1> DEFINE t == Staged(antispam[h], h)
<1>1. /\ commitCh \in Seq(StagedEntry)
      /\ antispam[h] \in Nat
      /\ worker \in [Hash -> {"idle", "queued", "append", "exhausted", "emit"}]
  BY Zenon DEF IInv, TypeOK, StagedPoint, Emit
<1>2. t \in StagedEntry /\ t.seq = antispam[h] /\ t.hash = h
  BY <1>1 DEF Staged, StagedEntry
<1>3. commitCh' = Append(commitCh, t)
  BY DEF Emit
<1> HIDE DEF t
<1>4. /\ commitCh' \in Seq(StagedEntry)
      /\ \A i \in DOMAIN commitCh' : commitCh'[i] = t \/ (i \in DOMAIN commitCh /\ commitCh'[i] = commitCh[i])
  BY <1>1, <1>2, <1>3
<1>5. /\ worker' \in [Hash -> {"idle", "queued", "append", "exhausted", "emit"}]
      /\ \A g \in Hash : worker'[g] = "emit" => worker[g] = "emit"
  BY <1>1 DEF Emit
<1>6. TypeOK'
  BY <1>4, <1>5, Zenon DEF IInv, TypeOK, Emit, walVars, tesseraVars
<1>7. StagedPoint'
  <2>1. \A i \in DOMAIN commitCh' : antispam[commitCh'[i].hash] = commitCh'[i].seq
    BY <1>2, <1>4, Zenon DEF IInv, StagedPoint
  <2> QED
    BY <1>5, <2>1, Zenon DEF IInv, StagedPoint, Emit, tesseraVars
<1>8. AntispamPoints' /\ BatchContiguous' /\ TableCovers'
  BY Zenon DEF IInv, AntispamPoints, BatchContiguous, TableCovers, Expected, Emit, tesseraVars
<1>9. RowsMatchTree' /\ OnePrimary' /\ GhostsResolve'
  BY Zenon DEF IInv, RowsMatchTree, OnePrimary, GhostsResolve, Emit, tesseraVars
<1> QED
  BY <1>6, <1>7, <1>8, <1>9 DEF IInv
================================================================================
