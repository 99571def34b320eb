--------------------------- MODULE SequencerProofs ---------------------------
(***************************************************************************)
(* The sequencer keeps entry_index gap-free, in agreement with Tessera's   *)
(* tree and with one primary row per hash, for every set of hashes and     *)
(* every configuration, whatever fails, crashes or is submitted twice and  *)
(* whatever antispam forgets across a restart.                             *)
(***************************************************************************)
EXTENDS SequencerBatchProofs, SequencerWorkerProofs

(* The invariant holds before the first submission.                        *)
LEMMA InitIInv == Init => IInv
<1> SUFFICES ASSUME Init PROVE IInv
  OBVIOUS
<1>1. DOMAIN entryIndex = 0..(0 - 1)
  BY DEF Init
<1>2. ReadNextExpectedSeq(entryIndex) = 0
  BY <1>1, ReadNextExpectedSeqValue
<1>3. TypeOK
  <2>1. IsHeap(heap) /\ DOMAIN heap \subseteq StagedEntry
    BY DEF Init, EmptyHeap, IsHeap
  <2>2. IsKeyspace(wal) /\ IsKeyspace(walDisk)
    BY EmptyKeyspaceOK DEF Init
  <2>3. /\ leaves \in Seq(Hash) /\ commitCh \in Seq(StagedEntry)
        /\ pending \in Seq(StagedEntry)
    BY DEF Init
  <2>4. antispam \in [Hash -> Nat \union {NoSeq}] /\ attempts \in [Hash -> Nat]
    BY DEF Init
  <2>5. worker \in [Hash -> {"idle", "queued", "append", "exhausted", "emit"}]
    BY DEF Init
  <2>6. /\ DOMAIN entryIndex = {}
        /\ jobs \subseteq [seq : Nat, hash : Hash, stale : BOOLEAN]
        /\ nextExpectedSeq \in Nat
        /\ breaker \in [seq : Nat, streak : Nat]
        /\ budget \in [submits : Nat, faults : Nat, restarts : Nat]
    BY DEF Init
  <2>7. stopping \in BOOLEAN /\ pc = "recv"
    BY Zenon DEF Init
  <2> QED
    BY <2>1, <2>2, <2>3, <2>4, <2>5, <2>6, <2>7, Zenon DEF TypeOK
<1>4. AntispamPoints /\ StagedPoint /\ BatchContiguous
  BY DEF Init, AntispamPoints, StagedPoint, BatchContiguous, EmptyHeap
<1>5. TableCovers
  BY <1>1, <1>2 DEF Init, TableCovers, Expected
<1>6. RowsMatchTree /\ OnePrimary /\ GhostsResolve
  BY DEF Init, RowsMatchTree, OnePrimary, GhostsResolve
<1> QED
  BY <1>3, <1>4, <1>5, <1>6 DEF IInv

(* A step of the committer that leaves the tree, the table and the workers *)
(* alone.                                                                  *)
LEMMA FrameCommitter ==
    ASSUME IInv, TypeOK', UNCHANGED <<tesseraVars, entryIndex, worker>>,
           StagedPoint', BatchContiguous', TableCovers'
    PROVE  IInv'
<1>1. AntispamPoints'
  BY DEF IInv, AntispamPoints, tesseraVars
<1>2. RowsMatchTree' /\ OnePrimary' /\ GhostsResolve'
  BY DEF IInv, RowsMatchTree, OnePrimary, GhostsResolve, tesseraVars
<1> QED
  BY <1>1, <1>2 DEF IInv

(* A pop leaves a heap, of no other tuples.                                *)
LEMMA PopElements ==
    ASSUME NEW B, IsHeap(B), NEW x
    PROVE  /\ IsHeap(Pop(B, x))
           /\ DOMAIN Pop(B, x) \subseteq DOMAIN B
  BY DEF IsHeap, Pop

(* A push adds the tuples pushed.                                          *)
LEMMA PushElements ==
    ASSUME NEW B, IsHeap(B), NEW S
    PROVE  /\ IsHeap(Push(B, S))
           /\ DOMAIN Push(B, S) = DOMAIN B \union S
  BY DEF IsHeap, Push

(* The committer moves a tuple from the channel to the heap.               *)
LEMMA ReceiveStep == ASSUME IInv, Receive PROVE IInv'
<1>1. /\ commitCh \in Seq(StagedEntry) /\ commitCh # <<>>
      /\ IsHeap(heap) /\ DOMAIN heap \subseteq StagedEntry
  BY DEF IInv, TypeOK, Receive
<1>2. /\ Head(commitCh) \in StagedEntry
      /\ Tail(commitCh) \in Seq(StagedEntry)
      /\ 1 \in DOMAIN commitCh /\ Head(commitCh) = commitCh[1]
      /\ \A i \in DOMAIN Tail(commitCh) : i + 1 \in DOMAIN commitCh /\ Tail(commitCh)[i] = commitCh[i + 1]
  BY <1>1
<1>3. IsHeap(heap') /\ DOMAIN heap' = DOMAIN heap \union {Head(commitCh)}
  BY <1>1, PushElements, Zenon DEF Receive
<1>4. TypeOK'
  BY <1>1, <1>2, <1>3, Zenon DEF IInv, TypeOK, Receive, walVars, tesseraVars, workerVars
<1>5. StagedPoint'
  <2>1. \A t \in DOMAIN heap' : antispam[t.hash] = t.seq
    BY <1>2, <1>3 DEF IInv, StagedPoint
  <2>2. \A i \in DOMAIN commitCh' : antispam[commitCh'[i].hash] = commitCh'[i].seq
    BY <1>2 DEF IInv, StagedPoint, Receive
  <2> QED
    BY <2>1, <2>2, Zenon DEF IInv, StagedPoint, Receive, tesseraVars, workerVars
<1>6. BatchContiguous' /\ TableCovers'
  BY DEF IInv, BatchContiguous, TableCovers, Expected, Receive
<1> QED
  BY <1>4, <1>5, <1>6, FrameCommitter DEF Receive, workerVars

(* committerStaleRecover and applyPostCommitForOne keep the types.         *)
LEMMA SettleType ==
    ASSUME TypeOK, NEW h \in Hash, NEW n \in Nat
    PROVE  IsKeyspace(Settle(wal, h, n))
  BY KeyspaceOps, Zenon DEF TypeOK, Settle

(* Either of them, on behalf of a drained tuple or of a committed row.      *)
LEMMA RecoverType ==
    ASSUME TypeOK, NEW h \in Hash, NEW n \in Nat, NEW c,
           CommitterStaleRecover(h, n, c) \/ ApplyPostCommitForOne(h, n, c)
           \/ UNCHANGED <<wal, attempts, budget>>
    PROVE  /\ IsKeyspace(wal')
           /\ attempts' \in [Hash -> Nat]
           /\ budget' \in [submits : Nat, faults : Nat, restarts : Nat]
<1>1. /\ UNCHANGED <<wal, budget>> \/ WalCall(Settle(wal, h, n))
         \/ (UNCHANGED wal /\ Spend("faults", MaxFaults))
      /\ attempts' = attempts \/ attempts' = [attempts EXCEPT ![h] = 0]
  BY DEF CommitterStaleRecover, ApplyPostCommitForOne
<1>2. attempts' \in [Hash -> Nat]
  BY <1>1 DEF TypeOK
<1>3. CASE UNCHANGED <<wal, budget>>
  BY <1>2, <1>3 DEF TypeOK
<1>4. CASE WalCall(Settle(wal, h, n))
  BY <1>2, <1>4, SettleType, WalCallType
<1>5. CASE UNCHANGED wal /\ Spend("faults", MaxFaults)
  BY <1>2, <1>5, SpendType, Zenon DEF TypeOK
<1> QED
  BY <1>1, <1>3, <1>4, <1>5

(* A tuple below the cursor leaves the heap for stale recovery.            *)
LEMMA DrainStaleStep == ASSUME IInv, DrainStale PROVE IInv'
<1>1. PICK t \in DOMAIN heap :
         /\ heap' = Pop(heap, t)
         /\ \/ CommitterStaleRecover(t.hash, t.seq, stopping)
            \/ UNCHANGED <<wal, attempts, budget>>
  BY DEF DrainStale
<1>2. IsHeap(heap) /\ DOMAIN heap \subseteq StagedEntry
  BY DEF IInv, TypeOK
<1>3. IsHeap(heap') /\ DOMAIN heap' \subseteq DOMAIN heap
  BY <1>1, <1>2, PopElements
<1>4. /\ IsKeyspace(wal') /\ attempts' \in [Hash -> Nat]
      /\ budget' \in [submits : Nat, faults : Nat, restarts : Nat]
  BY <1>1, StagedKnown, RecoverType, Zenon DEF IInv
<1>5. TypeOK'
  BY <1>2, <1>3, <1>4, Zenon DEF IInv, TypeOK, DrainStale, tesseraVars
<1>6. StagedPoint'
  BY <1>3 DEF IInv, StagedPoint, DrainStale, tesseraVars
<1>7. BatchContiguous' /\ TableCovers'
  BY DEF IInv, BatchContiguous, TableCovers, Expected, DrainStale
<1> QED
  BY <1>5, <1>6, <1>7, FrameCommitter DEF DrainStale

(* The tuple at the cursor extends the contiguous batch.                   *)
LEMMA DrainTakeStep == ASSUME IInv, DrainTake PROVE IInv'
<1>1. PICK t \in DOMAIN heap :
         t.seq = Expected /\ heap' = Pop(heap, t) /\ pending' = Append(pending, t)
  BY DEF DrainTake
<1>2. /\ IsHeap(heap) /\ DOMAIN heap \subseteq StagedEntry
      /\ pending \in Seq(StagedEntry) /\ nextExpectedSeq \in Nat
  BY DEF IInv, TypeOK
<1>3. IsHeap(heap') /\ DOMAIN heap' \subseteq DOMAIN heap
  BY <1>1, <1>2, PopElements
<1>4. /\ t \in StagedEntry /\ antispam[t.hash] = t.seq
  BY <1>1, <1>2 DEF IInv, StagedPoint
<1>5. /\ pending' \in Seq(StagedEntry) /\ Len(pending') = Len(pending) + 1 /\ Len(pending) \in Nat
      /\ DOMAIN pending' = 1..(Len(pending) + 1) /\ DOMAIN pending = 1..Len(pending)
      /\ pending'[Len(pending) + 1] = t
      /\ \A i \in 1..Len(pending) : pending'[i] = pending[i]
  BY <1>1, <1>2, <1>4
<1>6. TypeOK'
  BY <1>2, <1>3, <1>5, Zenon DEF IInv, TypeOK, DrainTake, walVars, tesseraVars, workerVars
<1>7. \A i \in DOMAIN pending' : i = Len(pending) + 1 \/ i \in DOMAIN pending
  BY <1>5
<1>8. StagedPoint'
  <2>1. \A i \in DOMAIN pending' : antispam[pending'[i].hash] = pending'[i].seq
    BY <1>4, <1>5, <1>7, Zenon DEF IInv, StagedPoint
  <2> QED
    BY <1>3, <2>1 DEF IInv, StagedPoint, DrainTake, tesseraVars, workerVars
<1>9. BatchContiguous'
  <2>1. pending'[Len(pending) + 1].seq = nextExpectedSeq + (Len(pending) + 1) - 1
    <3>1. t.seq = nextExpectedSeq + Len(pending)
      BY <1>1 DEF Expected
    <3>2. pending'[Len(pending) + 1].seq = nextExpectedSeq + Len(pending)
      BY <1>5, <3>1, Zenon
    <3> QED
      BY <1>2, <1>5, <3>2
  <2>2. \A i \in DOMAIN pending' : pending'[i].seq = nextExpectedSeq + i - 1
    <3>1. \A i \in DOMAIN pending : pending[i].seq = nextExpectedSeq + i - 1
      BY DEF IInv, BatchContiguous
    <3>2. \A i \in DOMAIN pending : pending'[i] = pending[i]
      BY <1>5, Zenon
    <3> QED
      BY <1>7, <2>1, <3>1, <3>2, Zenon
  <2> QED
    BY <1>5, <2>2 DEF BatchContiguous, DrainTake
<1>10. TableCovers'
  BY DEF IInv, TableCovers, DrainTake
<1> QED
  BY <1>6, <1>8, <1>9, <1>10, FrameCommitter DEF DrainTake, workerVars

(* The drain ends at a gap or a full batch.                                *)
LEMMA DrainEndStep == ASSUME IInv, DrainEnd PROVE IInv'
<1>1. TypeOK'
  BY Zenon DEF IInv, TypeOK, DrainEnd, walVars, tesseraVars, workerVars
<1>2. StagedPoint'
  BY DEF IInv, StagedPoint, DrainEnd, tesseraVars, workerVars
<1>3. CommitMaxBatchSize \in Nat /\ CommitMaxBatchSize # 0
  BY SequencerAssumption
<1>4. pending = <<>> => Len(pending) = 0
  OBVIOUS
<1>5. /\ pending' = pending /\ nextExpectedSeq' = nextExpectedSeq /\ entryIndex' = entryIndex
      /\ pc' \in {"stopped", "lastflush", "flush", "recv"}
      /\ pc' \in {"flush", "lastflush"} => pending # <<>>
  BY <1>3, <1>4 DEF DrainEnd
<1>6. BatchContiguous' /\ TableCovers'
  BY <1>5 DEF IInv, BatchContiguous, TableCovers, Expected
<1> QED
  BY <1>1, <1>2, <1>6, FrameCommitter DEF DrainEnd, workerVars

(* The timer starts a flush of what is pending.                            *)
LEMMA FlushTimerStep == ASSUME IInv, FlushTimer PROVE IInv'
<1>1. TypeOK'
  BY Zenon DEF IInv, TypeOK, FlushTimer, walVars, tesseraVars, workerVars
<1>2. StagedPoint'
  BY DEF IInv, StagedPoint, FlushTimer, tesseraVars, workerVars
<1>3. BatchContiguous' /\ TableCovers'
  BY DEF IInv, BatchContiguous, TableCovers, Expected, FlushTimer
<1> QED
  BY <1>1, <1>2, <1>3, FrameCommitter DEF FlushTimer, workerVars

(* The committer leaves its loop.                                          *)
LEMMA StopCommitterStep == ASSUME IInv, StopCommitter PROVE IInv'
<1>1. TypeOK'
  BY Zenon DEF IInv, TypeOK, StopCommitter, walVars, tesseraVars, workerVars
<1>2. StagedPoint'
  BY Zenon DEF IInv, StagedPoint, StopCommitter, tesseraVars, workerVars
<1>3. BatchContiguous' /\ TableCovers'
  BY DEF IInv, BatchContiguous, TableCovers, Expected, StopCommitter
<1> QED
  BY <1>1, <1>2, <1>3, FrameCommitter DEF StopCommitter, workerVars

(* A committed batch extends the table (BatchKeeps).                       *)
LEMMA FlushBatchCommitsStep == ASSUME IInv, FlushBatchCommits PROVE IInv'
<1>1. entryIndex' = InsertBatch(entryIndex, Rows(pending)) /\ leaves' = leaves
  BY DEF FlushBatchCommits, tesseraVars
<1>2. DOMAIN entryIndex' \subseteq Nat
  BY <1>1, BatchKeeps
<1>3. jobs' \subseteq [seq : Nat, hash : Hash, stale : BOOLEAN]
  <2> DEFINE collisions == HashCollisions(entryIndex, Rows(pending))
             Job == [seq : Nat, hash : Hash, stale : BOOLEAN]
  <2>1. \A c \in collisions : c.existing \in Nat /\ c.hash \in Hash
    <3>1. \A c \in collisions : c.existing \in PrimarySeqs(entryIndex, c.hash)
      BY DEF HashCollisions
    <3>2. \A c \in collisions : c.existing \in DOMAIN entryIndex /\ entryIndex[c.existing].hash = c.hash
      BY <3>1 DEF PrimarySeqs
    <3> QED
      BY <3>2 DEF IInv, TypeOK
  <2>2. \A i \in DOMAIN pending : pending[i].seq \in Nat /\ pending[i].hash \in Hash
    BY StagedKnown
  <2>3. \A j \in jobs' :
           \/ \E c \in collisions : j = [seq |-> c.existing, hash |-> c.hash, stale |-> TRUE]
           \/ \E i \in DOMAIN pending : j = [seq |-> pending[i].seq, hash |-> pending[i].hash, stale |-> FALSE]
    BY DEF FlushBatchCommits
  <2> HIDE DEF collisions
  <2>4. SUFFICES ASSUME NEW j \in jobs' PROVE j \in Job
    OBVIOUS
  <2>5. CASE \E c \in collisions : j = [seq |-> c.existing, hash |-> c.hash, stale |-> TRUE]
    BY <2>1, <2>5
  <2>6. CASE \E i \in DOMAIN pending :
               j = [seq |-> pending[i].seq, hash |-> pending[i].hash, stale |-> FALSE]
    BY <2>2, <2>6
  <2> QED
    BY <2>3, <2>5, <2>6
<1>4. TypeOK'
  BY <1>1, <1>2, <1>3, BatchKeeps, Zenon DEF IInv, TypeOK, FlushBatchCommits, walVars, tesseraVars, workerVars
<1>5. AntispamPoints' /\ StagedPoint'
  BY Zenon DEF IInv, AntispamPoints, StagedPoint, FlushBatchCommits, tesseraVars, workerVars
<1>6. BatchContiguous'
  BY DEF IInv, BatchContiguous, FlushBatchCommits
<1>7. TableCovers'
  <2>1. /\ nextExpectedSeq' = nextExpectedSeq /\ pending' = pending
        /\ nextExpectedSeq \in Nat /\ nextExpectedSeq <= ReadNextExpectedSeq(entryIndex)
        /\ ReadNextExpectedSeq(entryIndex) \in Nat
    BY Zenon DEF FlushBatchCommits, IInv, TypeOK, TableCovers
  <2>2. Expected' = Expected
    BY <2>1 DEF Expected
  <2>3. LET m == ReadNextExpectedSeq(entryIndex')
        IN  /\ m \in Nat /\ DOMAIN entryIndex' = 0..(m - 1)
            /\ ReadNextExpectedSeq(entryIndex) <= m /\ Expected <= m
    BY <1>1, BatchKeeps, Zenon
  <2>4. nextExpectedSeq' <= ReadNextExpectedSeq(entryIndex')
    BY <2>1, <2>3
  <2> QED
    BY <2>2, <2>3, <2>4, Zenon DEF TableCovers
<1> QED
  BY <1>1, <1>4, <1>5, <1>6, <1>7, BatchKeeps DEF IInv

(* Settling a row in the WAL leaves table and tree alone.                  *)
LEMMA PostCommitStep == ASSUME IInv, PostCommit PROVE IInv'
<1>1. PICK j \in jobs :
         /\ jobs' = jobs \ {j}
         /\ \E c \in {TRUE, FALSE} : \/ CommitterStaleRecover(j.hash, j.seq, c)
                                     \/ ApplyPostCommitForOne(j.hash, j.seq, c)
  BY Zenon DEF PostCommit
<1>2. j.hash \in Hash /\ j.seq \in Nat
  BY <1>1 DEF IInv, TypeOK
<1>3. /\ IsKeyspace(wal') /\ attempts' \in [Hash -> Nat]
      /\ budget' \in [submits : Nat, faults : Nat, restarts : Nat]
  BY <1>1, <1>2, RecoverType DEF IInv
<1>4. jobs' \subseteq [seq : Nat, hash : Hash, stale : BOOLEAN]
  BY <1>1 DEF IInv, TypeOK
<1>5. TypeOK'
  BY <1>3, <1>4, Zenon DEF IInv, TypeOK, PostCommit, tesseraVars
<1>6. StagedPoint'
  BY Zenon DEF IInv, StagedPoint, PostCommit, tesseraVars
<1>7. BatchContiguous' /\ TableCovers'
  BY Zenon DEF IInv, BatchContiguous, TableCovers, Expected, PostCommit
<1> QED
  BY <1>5, <1>6, <1>7, FrameCommitter DEF PostCommit

(* The cursor moves behind the batch that is in the table.                 *)
LEMMA FlushDoneStep == ASSUME IInv, FlushDone PROVE IInv'
<1>1. nextExpectedSeq \in Nat /\ Len(pending) \in Nat
  BY DEF IInv, TypeOK
<1>2. TypeOK'
  <2>1. /\ nextExpectedSeq' \in Nat
        /\ pending' \in Seq(StagedEntry)
        /\ breaker' \in [seq : Nat, streak : Nat]
        /\ pc' \in {"recv", "drain", "flush", "post", "lastdrain", "lastflush", "lastpost", "stopped"}
    BY <1>1 DEF FlushDone
  <2>2. /\ UNCHANGED <<wal, walDisk, leaves, antispam, entryIndex, stopping, worker>>
        /\ UNCHANGED <<attempts, commitCh, heap, jobs, budget>>
    BY DEF FlushDone, walVars, tesseraVars, workerVars
  <2> QED
    BY <2>1, <2>2, Zenon DEF IInv, TypeOK
<1>3. StagedPoint'
  BY DEF IInv, StagedPoint, FlushDone, tesseraVars, workerVars
<1>4. BatchContiguous'
  BY DEF BatchContiguous, FlushDone
<1>5. TableCovers'
  BY DEF IInv, TableCovers, Expected, FlushDone
<1> QED
  BY <1>2, <1>3, <1>4, <1>5, FrameCommitter DEF FlushDone, workerVars

(* A failed flush returns its tuples; its rows may be in the table or not. *)
LEMMA FlushFailsStep == ASSUME IInv, FlushFails PROVE IInv'
<1>1. /\ pending \in Seq(StagedEntry) /\ pending # <<>>
      /\ IsHeap(heap) /\ DOMAIN heap \subseteq StagedEntry
  BY Zenon DEF IInv, TypeOK, BatchContiguous, FlushFails
<1>2. 1 \in DOMAIN pending /\ pending[1].seq \in Nat
  BY <1>1, StagedKnown
<1>3. /\ IsHeap(heap')
      /\ \A t \in DOMAIN heap' : t \in DOMAIN heap \/ \E i \in DOMAIN pending : t = pending[i]
  <2>1. heap' = heap \/ heap' = Push(heap, Range(pending))
    BY DEF FlushFails
  <2>2. CASE heap' = heap
    BY <1>1, <2>2
  <2>3. CASE heap' = Push(heap, Range(pending))
    <3>1. IsHeap(heap') /\ DOMAIN heap' = DOMAIN heap \union Range(pending)
      BY <1>1, <2>3, PushElements, Zenon
    <3>2. \A t \in Range(pending) : \E i \in DOMAIN pending : t = pending[i]
      BY DEF Range
    <3> QED
      BY <3>1, <3>2, Zenon
  <2> QED
    BY <2>1, <2>2, <2>3
<1>4. DOMAIN heap' \subseteq StagedEntry
  <2>1. \A i \in DOMAIN pending : pending[i] \in StagedEntry
    BY <1>1, ElementOfSeq, LenProperties
  <2> QED
    BY <1>1, <1>3, <2>1
<1>5. budget' \in [submits : Nat, faults : Nat, restarts : Nat]
  <2>1. CASE Spend("faults", MaxFaults)
    BY <2>1, SpendType DEF IInv
  <2>2. CASE UNCHANGED budget
    BY <2>2 DEF IInv, TypeOK
  <2> QED
    BY <2>1, <2>2 DEF FlushFails
<1>6. breaker' \in [seq : Nat, streak : Nat] /\ stopping' \in BOOLEAN
  <2>1. breaker \in [seq : Nat, streak : Nat] /\ stopping \in BOOLEAN
    BY DEF IInv, TypeOK
  <2>2. PICK sameError \in BOOLEAN :
           LET first  == pending[1].seq
               streak == IF sameError /\ breaker.streak > 0 /\ breaker.seq = first
                         THEN breaker.streak + 1 ELSE 1
           IN  breaker' = [seq |-> first, streak |-> streak]
    BY DEF FlushFails
  <2>3. stopping' = TRUE \/ stopping' = stopping
    BY DEF FlushFails
  <2>4. breaker' \in [seq : Nat, streak : Nat]
    BY <1>2, <2>1, <2>2
  <2> QED
    BY <2>1, <2>3, <2>4, Zenon
<1>7. /\ pending' = <<>> /\ leaves' = leaves /\ antispam' = antispam
      /\ nextExpectedSeq' = nextExpectedSeq /\ worker' = worker /\ commitCh' = commitCh
      /\ pc' \in {"recv", "stopped"}
  BY Zenon DEF FlushFails, tesseraVars, workerVars
<1>8. /\ DOMAIN entryIndex' \subseteq Nat
      /\ \A s \in DOMAIN entryIndex' : entryIndex'[s] \in [hash : Hash, status : EntryStatus]
      /\ RowsMatchTree' /\ OnePrimary' /\ GhostsResolve'
      /\ TableCovers'
  <2>1. CASE UNCHANGED entryIndex
    BY <1>7, <2>1, Zenon DEF IInv, TypeOK, RowsMatchTree, OnePrimary, GhostsResolve, TableCovers
  <2>2. CASE entryIndex' = InsertBatch(entryIndex, Rows(pending))
    <3>1. /\ nextExpectedSeq \in Nat /\ nextExpectedSeq <= ReadNextExpectedSeq(entryIndex)
          /\ ReadNextExpectedSeq(entryIndex) \in Nat
      BY DEF IInv, TypeOK, TableCovers
    <3>2. TableCovers'
      BY <1>7, <2>2, <3>1, BatchKeeps DEF TableCovers
    <3>3. DOMAIN entryIndex' \subseteq Nat
      BY <1>7, <2>2, BatchKeeps
    <3> QED
      BY <1>7, <2>2, <3>2, <3>3, BatchKeeps, Zenon
  <2> QED
    BY <2>1, <2>2, Zenon DEF FlushFails
<1>9. TypeOK'
  <2>1. pending' \in Seq(StagedEntry)
    BY <1>7
  <2>2. pc' \in {"recv", "drain", "flush", "post", "lastdrain", "lastflush", "lastpost", "stopped"}
    BY <1>7
  <2>3. UNCHANGED <<wal, walDisk, attempts, jobs>>
    BY Zenon DEF FlushFails, walVars, workerVars
  <2> QED
    BY <1>3, <1>4, <1>5, <1>6, <1>7, <1>8, <2>1, <2>2, <2>3, Zenon DEF IInv, TypeOK
<1>10. AntispamPoints'
  BY <1>7, Zenon DEF IInv, AntispamPoints
<1>11. StagedPoint'
  <2>1. \A t \in DOMAIN heap' : antispam[t.hash] = t.seq
    BY <1>3, Zenon DEF IInv, StagedPoint
  <2>2. \A i \in DOMAIN pending' : antispam[pending'[i].hash] = pending'[i].seq
    BY <1>7
  <2> QED
    BY <1>7, <2>1, <2>2, Zenon DEF IInv, StagedPoint
<1>12. BatchContiguous'
  BY <1>7 DEF BatchContiguous
<1> QED
  BY <1>8, <1>9, <1>10, <1>11, <1>12 DEF IInv

(* A restart: the cursor is read back from the table.                      *)
LEMMA BootStep ==
    ASSUME IInv, NEW w, IsKeyspace(w), Boot(w),
           budget' \in [submits : Nat, faults : Nat, restarts : Nat]
    PROVE  IInv'
<1>1. /\ antispam' \in [Hash -> Nat \union {NoSeq}]
      /\ \A h \in Hash : antispam'[h] # NoSeq => antispam'[h] = antispam[h]
  <2>1. antispam \in [Hash -> Nat \union {NoSeq}]
    BY Zenon DEF IInv, TypeOK
  <2>2. CASE UNCHANGED antispam
    BY <2>1, <2>2
  <2>3. CASE antispam' \in {a \in [Hash -> Range(antispam) \union {NoSeq}] :
                               \A h \in Hash : a[h] \in {antispam[h], NoSeq}}
    BY <2>1, <2>3
  <2> QED
    BY <2>2, <2>3 DEF Boot
<1>2. /\ leaves' = leaves /\ entryIndex' = entryIndex /\ commitCh' = <<>> /\ pending' = <<>>
      /\ nextExpectedSeq' = ReadNextExpectedSeq(entryIndex) /\ pc' = "recv"
      /\ worker' = [h \in Hash |-> "idle"] /\ heap' = EmptyHeap
  BY DEF Boot
<1>3. IsHeap(heap') /\ DOMAIN heap' = {}
  BY <1>2 DEF EmptyHeap, IsHeap
<1>4. ReadNextExpectedSeq(entryIndex) \in Nat
  BY DEF IInv, TableCovers
<1>5. TypeOK'
  <2>1. /\ leaves' \in Seq(Hash) /\ commitCh' \in Seq(StagedEntry) /\ pending' \in Seq(StagedEntry)
        /\ worker' \in [Hash -> {"idle", "queued", "append", "exhausted", "emit"}]
    BY <1>2 DEF IInv, TypeOK
  <2>2. /\ IsKeyspace(wal') /\ IsKeyspace(walDisk') /\ stopping' \in BOOLEAN
        /\ attempts' \in [Hash -> Nat] /\ jobs' = {} /\ breaker' \in [seq : Nat, streak : Nat]
    BY Zenon DEF Boot
  <2> QED
    BY <1>1, <1>2, <1>3, <1>4, <2>1, <2>2, Zenon DEF IInv, TypeOK
<1>6. AntispamPoints'
  BY <1>1, <1>2 DEF IInv, AntispamPoints
<1>7. StagedPoint' /\ BatchContiguous'
  BY <1>2, <1>3 DEF StagedPoint, BatchContiguous
<1>8. TableCovers'
  BY <1>2, <1>4 DEF IInv, TableCovers
<1>9. RowsMatchTree' /\ OnePrimary' /\ GhostsResolve'
  BY <1>2, Zenon DEF IInv, RowsMatchTree, OnePrimary, GhostsResolve
<1> QED
  BY <1>5, <1>6, <1>7, <1>8, <1>9 DEF IInv

(* A crash boots from memory or from disk.                                 *)
LEMMA CrashStep == ASSUME IInv, Crash PROVE IInv'
<1>1. budget' \in [submits : Nat, faults : Nat, restarts : Nat]
  BY SpendType DEF IInv, Crash
<1>2. PICK w \in {wal, walDisk} : Boot(w)
  BY DEF Crash
<1>3. IsKeyspace(w)
  BY <1>2, Zenon DEF IInv, TypeOK
<1> QED
  BY <1>1, <1>2, <1>3, BootStep

(* A graceful exit boots from memory.                                      *)
LEMMA ExitStep == ASSUME IInv, Exit PROVE IInv'
<1>1. IsKeyspace(wal) /\ Boot(wal) /\ budget' \in [submits : Nat, faults : Nat, restarts : Nat]
  BY Zenon DEF IInv, TypeOK, Exit
<1> QED
  BY <1>1, BootStep

(* A stuttering step changes nothing.                                      *)
LEMMA StutterStep == ASSUME IInv, UNCHANGED vars PROVE IInv'
<1>1. TypeOK'
  BY Zenon DEF IInv, TypeOK, vars, walVars, tesseraVars, workerVars, committerVars
<1> QED
  BY <1>1, FrameOutside DEF vars, workerVars, committerVars

(* Every step keeps the inductive invariant: one case per action.          *)
LEMMA NextIInv == IInv /\ [Next]_vars => IInv'
<1> SUFFICES ASSUME IInv, [Next]_vars PROVE IInv'
  OBVIOUS
<1>1. CASE \E h \in Hash : Submit(h) \/ HandleEntryError(h)
  BY <1>1, SubmitStep, HandleEntryErrorStep
<1>2. CASE DrainOnce \/ BackgroundSync \/ Shutdown
  BY <1>2, DrainOnceStep, BackgroundSyncStep, ShutdownStep
<1>3. CASE Stage1
  BY <1>3, DispatchStep, AppendLeafStep, GiveUpStep, EmitStep, AbortStep DEF Stage1
<1>4. CASE Receive \/ DrainStale \/ DrainTake \/ DrainEnd \/ FlushTimer
  BY <1>4, ReceiveStep, DrainStaleStep, DrainTakeStep, DrainEndStep, FlushTimerStep
<1>5. CASE FlushBatchCommits \/ PostCommit \/ FlushDone \/ StopCommitter
  BY <1>5, FlushBatchCommitsStep, PostCommitStep, FlushDoneStep, StopCommitterStep
<1>6. CASE FlushFails
  BY <1>6, FlushFailsStep
<1>7. CASE Crash \/ Exit
  BY <1>7, CrashStep, ExitStep
<1>8. CASE UNCHANGED vars
  BY <1>8, StutterStep
<1> QED
  BY <1>1, <1>2, <1>3, <1>4, <1>5, <1>6, <1>7, <1>8, Zenon DEF Next, Committer

(* The inductive invariant holds in every reachable state.                 *)
THEOREM SequencerInductive == Spec => []IInv
<1>1. Init => IInv
  BY InitIInv
<1>2. IInv /\ [Next]_vars => IInv'
  BY NextIInv
<1> QED
  BY <1>1, <1>2, PTL DEF Spec

(* Every variable keeps its type.                                          *)
THEOREM SequencerTypeOK == Spec => []TypeOK
<1>1. IInv => TypeOK
  BY DEF IInv
<1> QED
  BY <1>1, SequencerInductive, PTL

(* The committer's gap-free invariant: a visible row has every row below   *)
(* it, whatever crashes, failed flushes and replayed batches happened.     *)
THEOREM SequencerGapFree == Spec => []GapFree
<1>1. IInv => GapFree
  <2>1. SUFFICES ASSUME IInv, NEW s \in DOMAIN entryIndex, NEW t \in 0..s
                 PROVE  t \in DOMAIN entryIndex
    BY DEF GapFree
  <2> DEFINE n == ReadNextExpectedSeq(entryIndex)
  <2>2. n \in Nat /\ DOMAIN entryIndex = 0..(n - 1)
    BY <2>1 DEF IInv, TableCovers
  <2> HIDE DEF n
  <2> QED
    BY <2>1, <2>2
<1> QED
  BY <1>1, SequencerInductive, PTL

(* The row at seq N always carries the hash of Tessera's leaf N.           *)
THEOREM SequencerRowsMatchTree == Spec => []RowsMatchTree
<1>1. IInv => RowsMatchTree
  BY DEF IInv
<1> QED
  BY <1>1, SequencerInductive, PTL

(* However often antispam forgets a hash, the hash has one primary row and *)
(* each of its ghost rows resolves to it at a lower seq.                   *)
THEOREM SequencerOnePrimary == Spec => [](OnePrimary /\ GhostsResolve)
<1>1. IInv => OnePrimary /\ GhostsResolve
  BY DEF IInv
<1> QED
  BY <1>1, SequencerInductive, PTL

(* Only a committed batch changes the table.                               *)
LEMMA TableChanges ==
    ASSUME IInv, [Next]_vars
    PROVE  \/ entryIndex' = entryIndex
           \/ entryIndex' = InsertBatch(entryIndex, Rows(pending)) /\ leaves' = leaves
<1>1. CASE \E h \in Hash : Submit(h) \/ HandleEntryError(h)
  BY <1>1 DEF Submit, HandleEntryError
<1>2. CASE DrainOnce \/ BackgroundSync \/ Shutdown
  BY <1>2 DEF DrainOnce, BackgroundSync, Shutdown
<1>3. CASE Stage1
  BY <1>3, Zenon DEF Stage1, Dispatch, AppendLeaf, GiveUp, Emit, Abort
<1>4. CASE Receive \/ DrainStale \/ DrainTake \/ DrainEnd \/ FlushTimer
  BY <1>4, Zenon DEF Receive, DrainStale, DrainTake, DrainEnd, FlushTimer
<1>5. CASE FlushBatchCommits
  BY <1>5, Zenon DEF FlushBatchCommits, tesseraVars
<1>6. CASE PostCommit \/ FlushDone \/ StopCommitter
  BY <1>6 DEF PostCommit, FlushDone, StopCommitter
<1>7. CASE FlushFails
  BY <1>7, Zenon DEF FlushFails, tesseraVars
<1>8. CASE Crash \/ Exit
  BY <1>8 DEF Crash, Exit, Boot
<1>9. CASE UNCHANGED vars
  BY <1>9 DEF vars
<1> QED
  BY <1>1, <1>2, <1>3, <1>4, <1>5, <1>6, <1>7, <1>8, <1>9, Zenon DEF Next, Committer

(* The sequencer implements the append-only log of ProjectionLog.          *)
THEOREM SequencerRefinesLog == Spec => ImplementsProjectionLog
<1>1. Init => Log!Init
  <2>1. SUFFICES ASSUME Init PROVE ProjectedLog = <<>>
    BY DEF Log!Init
  <2>2. ReadNextExpectedSeq(entryIndex) = 0
    BY <2>1 DEF Init, ReadNextExpectedSeq
  <2> QED
    BY <2>2 DEF ProjectedLog
<1>2. IInv /\ IInv' /\ [Next]_vars => [Log!Extend]_ProjectedLog
  <2>1. SUFFICES ASSUME IInv, IInv', [Next]_vars PROVE [Log!Extend]_ProjectedLog
    OBVIOUS
  <2>2. CASE entryIndex' = entryIndex
    BY <2>2 DEF ProjectedLog
  <2>3. CASE entryIndex' = InsertBatch(entryIndex, Rows(pending)) /\ leaves' = leaves
    BY <2>1, <2>3, BatchExtendsLog
  <2> QED
    BY <2>1, <2>2, <2>3, TableChanges
<1> QED
  BY <1>1, <1>2, SequencerInductive, PTL DEF Spec, ImplementsProjectionLog, Log!Spec
================================================================================
