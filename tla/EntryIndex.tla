------------------------------- MODULE EntryIndex -------------------------------
(***************************************************************************)
(* The Postgres table entry_index (services/ledger/store/entries.go) as a  *)
(* partial function from sequence numbers to rows, and the set-oriented    *)
(* INSERT the sequencer's committer runs on it.  A row keeps its canonical *)
(* hash and its status; the projection columns are left out.               *)
(***************************************************************************)
EXTENDS Integers, Sequences

EntryStatus == {"live", "tombstone", "ghost"}

(* The rows inside the partial unique index (canonical_hash)               *)
(* WHERE status <> 2.                                                      *)
PrimarySeqs(idx, h) ==
    {s \in DOMAIN idx : idx[s].hash = h /\ idx[s].status # "ghost"}

(* Mutant: the INSERT has no conflict arbiter on canonical_hash.           *)
InsertedWithoutArbiter(idx, rows) ==
    {i \in DOMAIN rows : \A j \in 1..(i - 1) : rows[j].hash # rows[i].hash}

(* Positions of the batch that the INSERT ... ON CONFLICT (canonical_hash) *)
(* DO NOTHING lands: the hash has no primary row, neither in the table nor *)
(* from an earlier row of the same statement.                              *)
Inserted(idx, rows) ==
    {i \in DOMAIN rows :
        /\ PrimarySeqs(idx, rows[i].hash) = {}
        /\ \A j \in 1..(i - 1) : rows[j].hash # rows[i].hash}

InsertedHashes(idx, rows) == {rows[i].hash : i \in Inserted(idx, rows)}

(* skippedAttemptedRow is keyed by hash, so of several skipped rows with   *)
(* one hash only the last is remembered.                                   *)
Skipped(idx, rows) ==
    {i \in DOMAIN rows :
        /\ rows[i].hash \notin InsertedHashes(idx, rows)
        /\ \A j \in (i + 1)..Len(rows) : rows[j].hash # rows[i].hash}

HashCollisions(idx, rows) ==
    {c \in {[attempted |-> rows[i].seq, hash |-> rows[i].hash, existing |-> e] :
                i \in Skipped(idx, rows), e \in DOMAIN idx} :
        /\ c.existing \in PrimarySeqs(idx, c.hash)
        /\ c.existing # c.attempted}

(* The primary key is not the arbiter of the INSERT: a row that would land *)
(* on an occupied sequence number fails the whole transaction.             *)
InsertBatchOK(idx, rows) ==
    \A i \in Inserted(idx, rows) :
        /\ rows[i].seq \notin DOMAIN idx
        /\ \A j \in Inserted(idx, rows) : rows[j].seq = rows[i].seq => i = j

(* Landed rows, then one ghost row per collision at the attempted seq      *)
(* (ON CONFLICT (sequence_number) DO NOTHING).                             *)
InsertBatch(idx, rows) ==
    LET landed == Inserted(idx, rows)
        ghosts == HashCollisions(idx, rows)
    IN  [s \in DOMAIN idx \union {rows[i].seq : i \in landed}
                          \union {c.attempted : c \in ghosts} |->
            IF s \in DOMAIN idx
            THEN idx[s]
            ELSE IF \E i \in landed : rows[i].seq = s
            THEN LET i == CHOOSE i \in landed : rows[i].seq = s
                 IN  [hash |-> rows[i].hash, status |-> rows[i].status]
            ELSE [hash |-> (CHOOSE c \in ghosts : c.attempted = s).hash,
                  status |-> "ghost"]]

(* Mutant: MAX(sequence_number) without the increment.                     *)
ReadLastSeq(idx) ==
    IF DOMAIN idx = {} THEN -1
    ELSE CHOOSE m \in DOMAIN idx : \A s \in DOMAIN idx : s <= m

(* Mutant: COALESCE(MAX(sequence_number), 0) + 1.                          *)
ReadNextFromZero(idx) ==
    IF DOMAIN idx = {} THEN 1
    ELSE 1 + CHOOSE m \in DOMAIN idx : \A s \in DOMAIN idx : s <= m

(* readNextExpectedSeq: MAX(sequence_number)+1, 0 on an empty table.       *)
ReadNextExpectedSeq(idx) ==
    IF DOMAIN idx = {} THEN 0
    ELSE 1 + CHOOSE m \in DOMAIN idx : \A s \in DOMAIN idx : s <= m
================================================================================
