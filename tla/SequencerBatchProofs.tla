------------------------- MODULE SequencerBatchProofs -------------------------
(***************************************************************************)
(* What one committed batch does to entry_index: the batch is contiguous,  *)
(* the rows it adds carry the hashes of their leaves, each hash keeps one  *)
(* primary row, and the projected log is extended.                         *)
(***************************************************************************)
EXTENDS Sequencer, EntryIndexProofs

(* The committer's batch is contiguous, starts at or before the end of the *)
(* table, and holds each hash once.                                        *)
LEMMA PendingIsContiguous ==
    ASSUME IInv
    PROVE  ContiguousBatch(entryIndex, ReadNextExpectedSeq(entryIndex),
                           Rows(pending), nextExpectedSeq)
<1> DEFINE Row == [seq : Nat, hash : Hash, status : EntryStatus]
<1>1. /\ pending \in Seq(StagedEntry)
      /\ nextExpectedSeq \in Nat
  BY DEF IInv, TypeOK
<1>2. /\ Len(pending) \in Nat
      /\ DOMAIN pending = 1..Len(pending)
      /\ \A i \in 1..Len(pending) : pending[i].seq \in Nat /\ pending[i].hash \in Hash
  <2>1. Len(pending) \in Nat /\ DOMAIN pending = 1..Len(pending)
    BY <1>1, LenProperties
  <2>2. \A i \in 1..Len(pending) : pending[i] \in StagedEntry
    BY <1>1, ElementOfSeq
  <2> QED
    BY <2>1, <2>2 DEF StagedEntry
<1>3. Rows(pending) \in [1..Len(pending) -> Row]
  <2>1. \A h : Status(h) \in EntryStatus
    BY DEF Status, EntryStatus
  <2>2. \A i \in 1..Len(pending) :
           [seq |-> pending[i].seq, hash |-> pending[i].hash,
            status |-> Status(pending[i].hash)] \in Row
    BY <1>2, <2>1
  <2> QED
    BY <1>2, <2>2 DEF Rows
<1> HIDE DEF Row
<1>4. Rows(pending) \in Seq(Row)
  BY <1>2, <1>3, SeqDef
<1>5. /\ DOMAIN Rows(pending) = 1..Len(pending)
      /\ Len(Rows(pending)) = Len(pending)
  BY <1>2, <1>3, <1>4
<1>6. \A i \in 1..Len(pending) : /\ Rows(pending)[i].seq = pending[i].seq
                                 /\ Rows(pending)[i].hash = pending[i].hash
  BY <1>2 DEF Rows
<1>7. \A i \in 1..Len(pending) : /\ pending[i].seq = nextExpectedSeq + i - 1
                                 /\ antispam[pending[i].hash] = pending[i].seq
  BY <1>2, Zenon DEF IInv, BatchContiguous, StagedPoint
<1>8. \A i, j \in 1..Len(pending) : pending[i].hash = pending[j].hash => i = j
  <2>1. SUFFICES ASSUME NEW i \in 1..Len(pending), NEW j \in 1..Len(pending),
                        pending[i].hash = pending[j].hash
                 PROVE  i = j
    OBVIOUS
  <2>2. nextExpectedSeq + i - 1 = nextExpectedSeq + j - 1
    BY <1>7, <2>1, Zenon
  <2> QED
    BY <1>1, <1>2, <2>2
<1>9. LET n == ReadNextExpectedSeq(entryIndex)
      IN  n \in Nat /\ DOMAIN entryIndex = 0..(n - 1) /\ nextExpectedSeq <= n
  BY Zenon DEF IInv, TableCovers
<1>10. \A i \in 1..Len(pending) : Rows(pending)[i].seq = nextExpectedSeq + i - 1
  BY <1>6, <1>7, Zenon
<1>11. \A i, j \in 1..Len(pending) : Rows(pending)[i].hash = Rows(pending)[j].hash => i = j
  BY <1>6, <1>8, Zenon
<1> QED
  BY <1>1, <1>2, <1>5, <1>9, <1>10, <1>11, Zenon DEF ContiguousBatch

(* A row after the batch is an old row, or the row of a staged tuple: a    *)
(* ghost exactly when its hash had a primary row before the batch.         *)
LEMMA RowAfterBatch ==
    ASSUME IInv, NEW s \in DOMAIN InsertBatch(entryIndex, Rows(pending))
    PROVE  LET row == InsertBatch(entryIndex, Rows(pending))[s]
           IN  \/ s \in DOMAIN entryIndex /\ row = entryIndex[s]
               \/ /\ s \notin DOMAIN entryIndex
                  /\ \E i \in 1..Len(pending) :
                        /\ pending[i].seq = s
                        /\ row = [hash   |-> pending[i].hash,
                                  status |-> IF PrimarySeqs(entryIndex, pending[i].hash) = {}
                                             THEN Status(pending[i].hash) ELSE "ghost"]
<1> DEFINE row == InsertBatch(entryIndex, Rows(pending))[s]
<1>1. DOMAIN Rows(pending) = 1..Len(pending)
  BY DEF Rows, IInv, TypeOK
<1>2. \A i \in 1..Len(pending) : /\ Rows(pending)[i].seq = pending[i].seq
                                 /\ Rows(pending)[i].hash = pending[i].hash
                                 /\ Rows(pending)[i].status = Status(pending[i].hash)
  <2>1. Rows(pending) = [i \in DOMAIN pending |-> [seq    |-> pending[i].seq,
                                                   hash   |-> pending[i].hash,
                                                   status |-> Status(pending[i].hash)]]
    BY DEF Rows
  <2>2. DOMAIN pending = 1..Len(pending)
    BY <1>1, <2>1
  <2> QED
    BY <2>1, <2>2
<1>3. CASE s \in DOMAIN entryIndex
  BY <1>3, PendingIsContiguous, InsertBatchRow
<1>4. CASE s \notin DOMAIN entryIndex
  <2>1. PICK i \in DOMAIN Rows(pending) :
           /\ Rows(pending)[i].seq = s
           /\ row = [hash   |-> Rows(pending)[i].hash,
                     status |-> IF PrimarySeqs(entryIndex, Rows(pending)[i].hash) = {}
                                THEN Rows(pending)[i].status ELSE "ghost"]
    BY <1>4, PendingIsContiguous, InsertBatchRow
  <2>2. i \in 1..Len(pending)
    BY <1>1, <2>1
  <2>3. /\ pending[i].seq = s
        /\ row = [hash   |-> pending[i].hash,
                  status |-> IF PrimarySeqs(entryIndex, pending[i].hash) = {}
                             THEN Status(pending[i].hash) ELSE "ghost"]
    BY <1>2, <2>1, <2>2, Zenon
  <2> QED
    BY <1>4, <2>2, <2>3, Zenon
<1> QED
  BY <1>3, <1>4, Zenon

(* What the rest of IInv says of a staged tuple of the batch.              *)
LEMMA PendingTuple ==
    ASSUME IInv, NEW i \in 1..Len(pending)
    PROVE  /\ pending[i].seq \in Nat
           /\ pending[i].hash \in Hash
           /\ antispam[pending[i].hash] = pending[i].seq
           /\ pending[i].seq < Len(leaves)
           /\ leaves[pending[i].seq + 1] = pending[i].hash
<1>1. pending \in Seq(StagedEntry)
  BY DEF IInv, TypeOK
<1>2. pending[i] \in StagedEntry /\ i \in DOMAIN pending
  BY <1>1, ElementOfSeq, LenProperties
<1>3. pending[i].seq \in Nat /\ pending[i].hash \in Hash
  BY <1>2 DEF StagedEntry
<1>4. antispam[pending[i].hash] = pending[i].seq
  BY <1>2 DEF IInv, StagedPoint
<1> QED
  BY <1>3, <1>4 DEF IInv, AntispamPoints, NoSeq

(* A committed batch keeps the table well-typed, gap-free, in agreement    *)
(* with the tree and with one primary row per hash, and extends it to the  *)
(* end of the batch.                                                       *)
LEMMA BatchKeeps ==
    ASSUME IInv, entryIndex' = InsertBatch(entryIndex, Rows(pending)), leaves' = leaves
    PROVE  /\ \A s \in DOMAIN entryIndex' : entryIndex'[s] \in [hash : Hash, status : EntryStatus]
           /\ ReadNextExpectedSeq(entryIndex') \in Nat
           /\ DOMAIN entryIndex' = 0..(ReadNextExpectedSeq(entryIndex') - 1)
           /\ ReadNextExpectedSeq(entryIndex) <= ReadNextExpectedSeq(entryIndex')
           /\ Expected <= ReadNextExpectedSeq(entryIndex')
           /\ RowsMatchTree'
           /\ OnePrimary'
           /\ GhostsResolve'
<1> DEFINE n == ReadNextExpectedSeq(entryIndex)
           m == IF n < Expected THEN Expected ELSE n
           IsNew(s, i) == /\ pending[i].seq = s
                          /\ entryIndex'[s] =
                               [hash   |-> pending[i].hash,
                                status |-> IF PrimarySeqs(entryIndex, pending[i].hash) = {}
                                           THEN Status(pending[i].hash) ELSE "ghost"]
<1>1. /\ n \in Nat /\ DOMAIN entryIndex = 0..(n - 1) /\ nextExpectedSeq <= n
      /\ nextExpectedSeq \in Nat /\ Len(pending) \in Nat
  BY DEF IInv, TypeOK, TableCovers
<1>2. Len(Rows(pending)) = Len(pending)
  <2>1. DOMAIN Rows(pending) = DOMAIN pending
    BY DEF Rows
  <2>2. DOMAIN pending = 1..Len(pending)
    BY DEF IInv, TypeOK
  <2>3. Len(Rows(pending)) \in Nat /\ DOMAIN Rows(pending) = 1..Len(Rows(pending))
    BY PendingIsContiguous DEF ContiguousBatch
  <2> QED
    BY <1>1, <2>1, <2>2, <2>3
<1>3. m \in Nat /\ DOMAIN entryIndex' = 0..(m - 1)
  <2>1. DOMAIN entryIndex' =
           0..((IF n < nextExpectedSeq + Len(Rows(pending))
                THEN nextExpectedSeq + Len(Rows(pending)) ELSE n) - 1)
    BY PendingIsContiguous, InsertBatchDomain
  <2> QED
    BY <1>1, <1>2, <2>1 DEF Expected
<1>4. ReadNextExpectedSeq(entryIndex') = m
  BY <1>3, ReadNextExpectedSeqValue
<1>5. \A s \in DOMAIN entryIndex' :
         \/ s \in DOMAIN entryIndex /\ entryIndex'[s] = entryIndex[s]
         \/ s \notin DOMAIN entryIndex /\ \E i \in 1..Len(pending) : IsNew(s, i)
  BY RowAfterBatch, Zenon
<1>6. \A s \in DOMAIN entryIndex : s \in DOMAIN entryIndex' /\ entryIndex'[s] = entryIndex[s]
  <2>1. \A s \in DOMAIN entryIndex : s \in DOMAIN entryIndex'
    BY <1>1, <1>3
  <2> QED
    BY <1>5, <2>1
<1>7. \A h : Status(h) \in {"live", "tombstone"}
  BY DEF Status
<1> HIDE DEF n, m
<1>8. ASSUME NEW s \in DOMAIN entryIndex'
      PROVE  entryIndex'[s] \in [hash : Hash, status : EntryStatus]
  <2>1. CASE s \in DOMAIN entryIndex
    BY <1>6, <2>1 DEF IInv, TypeOK
  <2>2. CASE s \notin DOMAIN entryIndex
    <3>1. PICK i \in 1..Len(pending) : IsNew(s, i)
      BY <1>5, <1>8, <2>2, Zenon
    <3>2. pending[i].hash \in Hash
      BY PendingTuple
    <3> QED
      BY <1>7, <3>1, <3>2 DEF EntryStatus
  <2> QED
    BY <2>1, <2>2
<1>9. RowsMatchTree'
  <2>1. SUFFICES ASSUME NEW s \in DOMAIN entryIndex'
                 PROVE  s < Len(leaves) /\ entryIndex'[s].hash = leaves[s + 1]
    BY DEF RowsMatchTree
  <2>2. CASE s \in DOMAIN entryIndex
    BY <1>6, <2>2 DEF IInv, RowsMatchTree
  <2>3. CASE s \notin DOMAIN entryIndex
    <3>1. PICK i \in 1..Len(pending) : IsNew(s, i)
      BY <1>5, <2>1, <2>3, Zenon
    <3> QED
      BY <3>1, PendingTuple
  <2> QED
    BY <2>2, <2>3
<1>10. OnePrimary'
  <2>1. SUFFICES ASSUME NEW s \in DOMAIN entryIndex', NEW t \in DOMAIN entryIndex',
                        entryIndex'[s].hash = entryIndex'[t].hash,
                        entryIndex'[s].status # "ghost",
                        entryIndex'[t].status # "ghost"
                 PROVE  s = t
    BY DEF OnePrimary
  <2>2. ASSUME NEW u \in DOMAIN entryIndex, NEW v \in DOMAIN entryIndex',
               v \notin DOMAIN entryIndex,
               entryIndex'[u].hash = entryIndex'[v].hash,
               entryIndex'[u].status # "ghost"
        PROVE  entryIndex'[v].status = "ghost"
    <3>1. PICK i \in 1..Len(pending) : IsNew(v, i)
      BY <1>5, <2>2, Zenon
    <3>2. u \in PrimarySeqs(entryIndex, pending[i].hash)
      BY <1>6, <2>2, <3>1 DEF PrimarySeqs
    <3> QED
      BY <3>1, <3>2
  <2>3. CASE s \in DOMAIN entryIndex /\ t \in DOMAIN entryIndex
    BY <1>6, <2>1, <2>3 DEF IInv, OnePrimary
  <2>4. CASE s \notin DOMAIN entryIndex /\ t \notin DOMAIN entryIndex
    <3>1. PICK i \in 1..Len(pending) : IsNew(s, i)
      BY <1>5, <2>4, Zenon
    <3>2. PICK j \in 1..Len(pending) : IsNew(t, j)
      BY <1>5, <2>4, Zenon
    <3>3. pending[i].hash = pending[j].hash
      BY <2>1, <3>1, <3>2
    <3> QED
      BY <3>1, <3>2, <3>3, PendingTuple, Zenon
  <2> QED
    BY <2>1, <2>2, <2>3, <2>4
<1>11. GhostsResolve'
  <2>1. SUFFICES ASSUME NEW s \in DOMAIN entryIndex', entryIndex'[s].status = "ghost"
                 PROVE  \E t \in PrimarySeqs(entryIndex', entryIndex'[s].hash) : t < s
    BY DEF GhostsResolve, PrimarySeqs
  <2>2. CASE s \in DOMAIN entryIndex
    <3>1. PICK t \in PrimarySeqs(entryIndex, entryIndex[s].hash) : t < s
      BY <1>6, <2>1, <2>2 DEF IInv, GhostsResolve
    <3> QED
      BY <1>6, <2>2, <3>1 DEF PrimarySeqs
  <2>3. CASE s \notin DOMAIN entryIndex
    <3>1. PICK i \in 1..Len(pending) : IsNew(s, i)
      BY <1>5, <2>1, <2>3
    <3>2. PICK t \in PrimarySeqs(entryIndex, pending[i].hash) : TRUE
      BY <1>7, <2>1, <3>1
    <3>3. t \in DOMAIN entryIndex /\ t \in PrimarySeqs(entryIndex', entryIndex'[s].hash)
      BY <1>6, <3>1, <3>2 DEF PrimarySeqs
    <3>4. t < s
      BY <1>1, <1>3, <2>3, <3>3
    <3> QED
      BY <3>3, <3>4
  <2> QED
    BY <2>2, <2>3
<1>12. n <= m /\ Expected <= m
  BY <1>1 DEF m, Expected
<1> QED
  BY <1>3, <1>4, <1>8, <1>9, <1>10, <1>11, <1>12 DEF n

(* The projected log of a gap-free table is a sequence of its rows.        *)
LEMMA ProjectedLogValue ==
    ASSUME IInv
    PROVE  /\ Len(ProjectedLog) = ReadNextExpectedSeq(entryIndex)
           /\ \A i \in 1..ReadNextExpectedSeq(entryIndex) : ProjectedLog[i] = entryIndex[i - 1]
<1> DEFINE n == ReadNextExpectedSeq(entryIndex)
           Row == [hash : Hash, status : EntryStatus]
<1>1. n \in Nat /\ DOMAIN entryIndex = 0..(n - 1)
  BY DEF IInv, TableCovers
<1>2. ProjectedLog = [i \in 1..n |-> entryIndex[i - 1]]
  BY DEF ProjectedLog
<1>3. \A s \in DOMAIN entryIndex : entryIndex[s] \in Row
  BY DEF IInv, TypeOK
<1> HIDE DEF n, Row
<1>4. \A i \in 1..n : i - 1 \in DOMAIN entryIndex
  BY <1>1
<1>5. ProjectedLog \in [1..n -> Row]
  BY <1>2, <1>3, <1>4
<1>6. ProjectedLog \in Seq(Row)
  BY <1>1, <1>5, SeqDef
<1>7. Len(ProjectedLog) = n
  BY <1>1, <1>5, <1>6, LenProperties
<1> QED
  BY <1>2, <1>7, Zenon DEF n

(* A committed batch is an Extend step of the log, or changes nothing.     *)
LEMMA BatchExtendsLog ==
    ASSUME IInv, IInv', leaves' = leaves,
           entryIndex' = InsertBatch(entryIndex, Rows(pending))
    PROVE  [Log!Extend]_ProjectedLog
<1> DEFINE n == ReadNextExpectedSeq(entryIndex)
           m == ReadNextExpectedSeq(entryIndex')
<1>1. /\ n \in Nat /\ DOMAIN entryIndex = 0..(n - 1)
      /\ m \in Nat /\ DOMAIN entryIndex' = 0..(m - 1) /\ n <= m
  BY BatchKeeps DEF IInv, TableCovers
<1>2. /\ Len(ProjectedLog) = n
      /\ \A i \in 1..n : ProjectedLog[i] = entryIndex[i - 1]
  BY ProjectedLogValue
<1>3. /\ Len(ProjectedLog') = m
      /\ \A i \in 1..m : ProjectedLog'[i] = entryIndex'[i - 1]
  <2>1. (Len(ProjectedLog) = ReadNextExpectedSeq(entryIndex)
         /\ \A i \in 1..ReadNextExpectedSeq(entryIndex) : ProjectedLog[i] = entryIndex[i - 1])'
    BY ProjectedLogValue, PTL
  <2> QED
    BY <2>1
<1>4. \A s \in DOMAIN entryIndex : entryIndex'[s] = entryIndex[s]
  <2>1. \A s \in DOMAIN entryIndex : s \in DOMAIN entryIndex'
    BY <1>1
  <2> QED
    BY <2>1, RowAfterBatch
<1> HIDE DEF n, m
<1>5. \A i \in 1..n : ProjectedLog'[i] = ProjectedLog[i]
  <2>1. SUFFICES ASSUME NEW i \in 1..n PROVE ProjectedLog'[i] = ProjectedLog[i]
    OBVIOUS
  <2>2. i \in 1..m /\ i - 1 \in DOMAIN entryIndex
    BY <1>1, <2>1
  <2> QED
    BY <1>2, <1>3, <1>4, <2>1, <2>2
<1>6. CASE n = m
  <2>1. ProjectedLog = [i \in 1..n |-> entryIndex[i - 1]]
    BY DEF ProjectedLog, n
  <2>2. ProjectedLog' = [i \in 1..m |-> entryIndex'[i - 1]]
    BY DEF ProjectedLog, m
  <2>3. \A i \in 1..n : entryIndex'[i - 1] = entryIndex[i - 1]
    BY <1>1, <1>4
  <2> QED
    BY <1>6, <2>1, <2>2, <2>3
<1>7. CASE n < m
  <2>1. ASSUME NEW i \in (n + 1)..m
        PROVE  ProjectedLog'[i].status = "ghost"
               <=> Log!HasPrimary(ProjectedLog', i - 1, ProjectedLog'[i].hash)
    <3> DEFINE s == i - 1
    <3>1. s \in DOMAIN entryIndex' /\ i \in 1..m /\ s \in Nat
      BY <1>1, <2>1
    <3>2. ProjectedLog'[i] = entryIndex'[s]
      BY <1>3, <3>1
    <3>3. \A j \in 1..s : j \in 1..m /\ j - 1 \in DOMAIN entryIndex' /\ j - 1 < s /\ ProjectedLog'[j] = entryIndex'[j - 1]
      <4>1. SUFFICES ASSUME NEW j \in 1..s
                     PROVE  j \in 1..m /\ j - 1 \in DOMAIN entryIndex' /\ j - 1 < s /\ ProjectedLog'[j] = entryIndex'[j - 1]
        OBVIOUS
      <4>2. j \in 1..m /\ j - 1 \in DOMAIN entryIndex' /\ j - 1 < s
        BY <1>1, <2>1, <3>1, <4>1
      <4> QED
        BY <1>3, <4>2
    <3> HIDE DEF s
    <3>4. ASSUME entryIndex'[s].status = "ghost"
          PROVE  Log!HasPrimary(ProjectedLog', s, entryIndex'[s].hash)
      <4>1. PICK t \in PrimarySeqs(entryIndex', entryIndex'[s].hash) : t < s
        BY <3>1, <3>4 DEF IInv, GhostsResolve, PrimarySeqs
      <4>2. t \in DOMAIN entryIndex' /\ entryIndex'[t].hash = entryIndex'[s].hash /\ entryIndex'[t].status # "ghost"
        BY <4>1 DEF PrimarySeqs
      <4>3. t + 1 \in 1..s /\ (t + 1) - 1 = t
        BY <1>1, <3>1, <4>1, <4>2
      <4>4. ProjectedLog'[t + 1] = entryIndex'[t]
        BY <3>3, <4>3
      <4> QED
        BY <4>2, <4>3, <4>4 DEF Log!HasPrimary
    <3>5. ASSUME Log!HasPrimary(ProjectedLog', s, entryIndex'[s].hash)
          PROVE  entryIndex'[s].status = "ghost"
      <4>1. PICK j \in 1..s : ProjectedLog'[j].hash = entryIndex'[s].hash /\ ProjectedLog'[j].status # "ghost"
        BY <3>5 DEF Log!HasPrimary
      <4>2. j - 1 \in DOMAIN entryIndex' /\ j - 1 # s /\ ProjectedLog'[j] = entryIndex'[j - 1]
        BY <3>1, <3>3, <4>1
      <4>3. OnePrimary'
        BY DEF IInv
      <4> QED
        BY <3>1, <4>1, <4>2, <4>3 DEF OnePrimary
    <3> QED
      BY <3>2, <3>4, <3>5 DEF s
  <2> QED
    BY <1>2, <1>3, <1>5, <1>7, <2>1 DEF Log!Extend
<1> QED
  BY <1>1, <1>6, <1>7
================================================================================
