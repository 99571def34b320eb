---------------------------- MODULE EntryIndexProofs ----------------------------
(***************************************************************************)
(* What one batch insert does to a gap-free table, for every table and     *)
(* every contiguous batch of distinct hashes.                              *)
(***************************************************************************)
EXTENDS EntryIndex, TLAPS

(* A sequence's length, domain and elements.                               *)
LEMMA LenProperties ==
    ASSUME NEW S, NEW q \in Seq(S)
    PROVE  Len(q) \in Nat /\ DOMAIN q = 1..Len(q)
  OBVIOUS

(* The elements of a sequence over S are in S.                             *)
LEMMA ElementOfSeq ==
    ASSUME NEW S, NEW q \in Seq(S), NEW i \in 1..Len(q)
    PROVE  q[i] \in S
  OBVIOUS

(* A function on 1..n is a sequence.                                       *)
LEMMA SeqDef ==
    ASSUME NEW S, NEW n \in Nat, NEW f \in [1..n -> S]
    PROVE  f \in Seq(S)
  OBVIOUS

(* readNextExpectedSeq of a gap-free table is the number of its rows.      *)
LEMMA ReadNextExpectedSeqValue ==
    ASSUME NEW idx, NEW n \in Nat, DOMAIN idx = 0..(n - 1)
    PROVE  ReadNextExpectedSeq(idx) = n
<1>1. CASE n = 0
  BY <1>1, SMT DEF ReadNextExpectedSeq
<1>2. CASE n # 0
  <2> DEFINE last == CHOOSE m \in DOMAIN idx : \A s \in DOMAIN idx : s <= m
  <2>1. n - 1 \in DOMAIN idx /\ \A s \in DOMAIN idx : s <= n - 1
    BY <1>2
  <2>2. last \in DOMAIN idx /\ \A s \in DOMAIN idx : s <= last
    BY <2>1, Zenon
  <2>3. ReadNextExpectedSeq(idx) = 1 + last
    BY <2>1, Zenon DEF ReadNextExpectedSeq
  <2> HIDE DEF last
  <2>4. last \in Int /\ last <= n - 1 /\ n - 1 <= last
    BY <2>1, <2>2
  <2> QED
    BY <2>3, <2>4
<1> QED
  BY <1>1, <1>2

(* A batch of contiguous seqs and distinct hashes, starting at or before   *)
(* the end of a gap-free table.                                            *)
ContiguousBatch(idx, n, rows, b) ==
    /\ n \in Nat /\ b \in Nat /\ b <= n
    /\ DOMAIN idx = 0..(n - 1)
    /\ Len(rows) \in Nat /\ DOMAIN rows = 1..Len(rows)
    /\ \A i \in DOMAIN rows : rows[i].seq = b + i - 1
    /\ \A i, j \in DOMAIN rows : rows[i].hash = rows[j].hash => i = j

(* Every row of such a batch that has no row yet is landed, when its hash  *)
(* has no primary row, or becomes a ghost.                                 *)
LEMMA LandedOrGhost ==
    ASSUME NEW idx, NEW n, NEW rows, NEW b, ContiguousBatch(idx, n, rows, b),
           NEW i \in DOMAIN rows
    PROVE  /\ PrimarySeqs(idx, rows[i].hash) = {} => i \in Inserted(idx, rows)
           /\ PrimarySeqs(idx, rows[i].hash) # {} =>
                 /\ i \notin Inserted(idx, rows)
                 /\ rows[i].seq \notin DOMAIN idx =>
                       \E c \in HashCollisions(idx, rows) : c.attempted = rows[i].seq
<1>1. ASSUME PrimarySeqs(idx, rows[i].hash) = {}
      PROVE  i \in Inserted(idx, rows)
  BY <1>1 DEF ContiguousBatch, Inserted
<1>2. ASSUME PrimarySeqs(idx, rows[i].hash) # {}
      PROVE  i \notin Inserted(idx, rows)
  BY <1>2 DEF Inserted
<1>3. ASSUME PrimarySeqs(idx, rows[i].hash) # {}, rows[i].seq \notin DOMAIN idx
      PROVE  \E c \in HashCollisions(idx, rows) : c.attempted = rows[i].seq
  <2>1. rows[i].hash \notin InsertedHashes(idx, rows)
    BY <1>3, <1>2 DEF InsertedHashes, Inserted
  <2>2. i \in Skipped(idx, rows)
    BY <2>1 DEF Skipped, ContiguousBatch
  <2>3. PICK e \in PrimarySeqs(idx, rows[i].hash) : TRUE
    BY <1>3
  <2>4. e \in DOMAIN idx /\ e # rows[i].seq
    BY <2>3, <1>3 DEF PrimarySeqs
  <2> DEFINE c == [attempted |-> rows[i].seq, hash |-> rows[i].hash, existing |-> e]
  <2>5. c \in HashCollisions(idx, rows)
    BY <2>2, <2>3, <2>4 DEF HashCollisions
  <2> QED
    BY <2>5
<1> QED
  BY <1>1, <1>2, <1>3

(* A collision comes from a row whose hash already has a primary row.      *)
LEMMA CollisionSource ==
    ASSUME NEW idx, NEW rows, NEW c \in HashCollisions(idx, rows)
    PROVE  \E i \in DOMAIN rows : /\ c.attempted = rows[i].seq
                                  /\ c.hash = rows[i].hash
                                  /\ PrimarySeqs(idx, rows[i].hash) # {}
  BY DEF HashCollisions, Skipped

(* The batch extends the table to the end of the batch and leaves no gap.  *)
LEMMA InsertBatchDomain ==
    ASSUME NEW idx, NEW n, NEW rows, NEW b, ContiguousBatch(idx, n, rows, b)
    PROVE  DOMAIN InsertBatch(idx, rows) =
              0..((IF n < b + Len(rows) THEN b + Len(rows) ELSE n) - 1)
<1> DEFINE end == IF n < b + Len(rows) THEN b + Len(rows) ELSE n
           landed == Inserted(idx, rows)
           ghosts == HashCollisions(idx, rows)
<1>1. DOMAIN InsertBatch(idx, rows) =
         DOMAIN idx \union {rows[i].seq : i \in landed}
                    \union {c.attempted : c \in ghosts}
  BY DEF InsertBatch
<1>2. ASSUME NEW s \in DOMAIN InsertBatch(idx, rows)
      PROVE  s \in 0..(end - 1)
  <2>1. CASE s \in DOMAIN idx
    BY <2>1 DEF ContiguousBatch
  <2>2. CASE \E i \in landed : s = rows[i].seq
    BY <2>2 DEF ContiguousBatch, Inserted
  <2>3. CASE \E c \in ghosts : s = c.attempted
    <3>1. \E i \in DOMAIN rows : s = rows[i].seq
      BY <2>3, CollisionSource
    <3> QED
      BY <3>1 DEF ContiguousBatch
  <2> QED
    BY <1>1, <2>1, <2>2, <2>3
<1>3. ASSUME NEW s \in 0..(end - 1)
      PROVE  s \in DOMAIN InsertBatch(idx, rows)
  <2>1. CASE s < n
    BY <2>1, <1>1 DEF ContiguousBatch
  <2>2. CASE ~(s < n)
    <3> DEFINE i == s - b + 1
    <3>1. /\ n \in Nat /\ b \in Nat /\ b <= n /\ DOMAIN idx = 0..(n - 1)
          /\ Len(rows) \in Nat /\ DOMAIN rows = 1..Len(rows)
      BY DEF ContiguousBatch
    <3>2. s \in Nat /\ n <= s /\ s < b + Len(rows)
      BY <2>2, <3>1
    <3>3. i \in DOMAIN rows /\ b + i - 1 = s
      BY <3>1, <3>2
    <3>4. s \notin DOMAIN idx
      BY <3>1, <3>2
    <3> HIDE DEF i
    <3>5. rows[i].seq = s
      BY <3>3, Zenon DEF ContiguousBatch
    <3> QED
      BY <3>3, <3>4, <3>5, <1>1, LandedOrGhost
  <2> QED
    BY <2>1, <2>2
<1> QED
  BY <1>2, <1>3, Zenon

(* What the row at s is after the insert: the old row; or the row of the   *)
(* batch, a ghost exactly when its hash had a primary row before.          *)
LEMMA InsertBatchRow ==
    ASSUME NEW idx, NEW n, NEW rows, NEW b, ContiguousBatch(idx, n, rows, b),
           NEW s \in DOMAIN InsertBatch(idx, rows)
    PROVE  /\ s \in DOMAIN idx => InsertBatch(idx, rows)[s] = idx[s]
           /\ s \notin DOMAIN idx =>
                \E i \in DOMAIN rows :
                   /\ rows[i].seq = s
                   /\ InsertBatch(idx, rows)[s] =
                        [hash   |-> rows[i].hash,
                         status |-> IF PrimarySeqs(idx, rows[i].hash) = {}
                                    THEN rows[i].status ELSE "ghost"]
<1> DEFINE landed == Inserted(idx, rows)
           ghosts == HashCollisions(idx, rows)
           res    == InsertBatch(idx, rows)
<1>1. s \in DOMAIN idx => res[s] = idx[s]
  BY DEF InsertBatch
<1>2. ASSUME s \notin DOMAIN idx, \E i \in landed : rows[i].seq = s
      PROVE  \E i \in DOMAIN rows :
                /\ rows[i].seq = s
                /\ res[s] = [hash   |-> rows[i].hash,
                             status |-> IF PrimarySeqs(idx, rows[i].hash) = {}
                                        THEN rows[i].status ELSE "ghost"]
  <2> DEFINE k == CHOOSE i \in landed : rows[i].seq = s
  <2>1. k \in landed /\ rows[k].seq = s
    BY <1>2
  <2>2. res[s] = [hash |-> rows[k].hash, status |-> rows[k].status]
    BY <1>2 DEF InsertBatch
  <2>3. k \in DOMAIN rows /\ PrimarySeqs(idx, rows[k].hash) = {}
    BY <2>1 DEF Inserted
  <2> QED
    BY <2>1, <2>2, <2>3, Zenon
<1>3. ASSUME s \notin DOMAIN idx, ~ \E i \in landed : rows[i].seq = s
      PROVE  \E i \in DOMAIN rows :
                /\ rows[i].seq = s
                /\ res[s] = [hash   |-> rows[i].hash,
                             status |-> IF PrimarySeqs(idx, rows[i].hash) = {}
                                        THEN rows[i].status ELSE "ghost"]
  <2> DEFINE c == CHOOSE c \in ghosts : c.attempted = s
  <2>1. \E d \in ghosts : d.attempted = s
    BY <1>3 DEF InsertBatch
  <2>2. c \in ghosts /\ c.attempted = s
    BY <2>1
  <2>3. res[s] = [hash |-> c.hash, status |-> "ghost"]
    BY <1>3 DEF InsertBatch
  <2> HIDE DEF c
  <2>4. PICK i \in DOMAIN rows : /\ c.attempted = rows[i].seq
                                 /\ c.hash = rows[i].hash
                                 /\ PrimarySeqs(idx, rows[i].hash) # {}
    BY <2>2, CollisionSource
  <2> QED
    BY <2>2, <2>3, <2>4
<1> QED
  BY <1>1, <1>2, <1>3
================================================================================
