-------------------------------- MODULE Sequencer --------------------------------
(***************************************************************************)
(* The ledger's sequencer (services/ledger/sequencer): the drain loop that *)
(* scans the WAL breadcrumbs, the stage-1 workers that obtain a sequence   *)
(* number from Tessera and emit a staged entry, and the single committer   *)
(* that reorders staged entries in a min-heap and inserts contiguous runs  *)
(* of them into entry_index, then advances the WAL.                        *)
(*                                                                         *)
(* Tessera (leaves, antispam) is external: AppendLeaf returns the index    *)
(* antispam remembers for a hash, or appends a leaf and remembers it.      *)
(* Within one process lifetime antispam never forgets; Forgetful says      *)
(* whether it may across a restart.                                        *)
(*                                                                         *)
(* A process restart is one step: everything in memory is lost, the        *)
(* Postgres table and the tree stay, and the WAL comes back as it was, or, *)
(* after a host crash, as it was at some earlier flush (walDisk).          *)
(***************************************************************************)
EXTENDS WAL, EntryIndex, Integers

CONSTANTS
    Malformed,            \* hashes whose WAL bytes do not deserialize
    Unprojectable,        \* hashes dispatchCommitmentSchema rejects
    MaxInFlight,          \* Config.MaxInFlight
    MaxAttempts,          \* Config.MaxAttempts
    MaxEntriesPerCycle,   \* Config.MaxEntriesPerCycle
    MaxCommitterHeapSize, \* Config.MaxCommitterHeapSize
    CommitChannelBuffer,  \* Config.CommitChannelBuffer
    CommitMaxBatchSize,   \* Config.CommitMaxBatchSize
    BreakerThreshold,     \* identicalBatchBreakerThreshold
    Forgetful,            \* may antispam forget a hash across a restart?
    MaxSubmits,           \* bound: WAL submissions
    MaxFaults,            \* bound: failing AppendLeaf, transaction or WAL calls
    MaxRestarts           \* bound: crashes and graceful restarts

ASSUME SequencerAssumption ==
    /\ Malformed \subseteq Hash
    /\ Unprojectable \subseteq Hash
    /\ Forgetful \in BOOLEAN
    /\ {MaxInFlight, MaxAttempts, MaxEntriesPerCycle, MaxCommitterHeapSize,
        CommitChannelBuffer, CommitMaxBatchSize, BreakerThreshold} \subseteq Nat \ {0}
    /\ {MaxSubmits, MaxFaults, MaxRestarts} \subseteq Nat

NoSeq == -1    \* antispam has no entry for the hash

VARIABLES
    wal,              \* the Badger keyspace
    walDisk,          \* what of it survives a host crash
    leaves,           \* Tessera's tree: leaves[s + 1] is the leaf at seq s
    antispam,         \* Tessera's deduplicator: hash -> seq or NoSeq
    entryIndex,       \* Postgres entry_index
    stopping,         \* the process context is cancelled
    worker,           \* stage-1 worker of each hash in this drain cycle
    attempts,         \* the in-memory retry counters
    commitCh,         \* staged entries sent to the committer
    heap,             \* committerHeap: how often it holds each tuple
    pending,          \* the committer's current batch
    nextExpectedSeq,  \* the committer's contiguous cursor
    pc,               \* where the committer goroutine is
    jobs,             \* post-commit work left for the current batch
    breaker,          \* identical-batch streak: [seq, streak]
    budget            \* [submits, faults, restarts] used so far

walVars == <<wal, walDisk>>
tesseraVars == <<leaves, antispam>>
workerVars == <<worker, attempts>>
committerVars == <<commitCh, heap, pending, nextExpectedSeq, pc, jobs, breaker>>
vars == <<walVars, tesseraVars, entryIndex, stopping, workerVars,
          committerVars, budget>>

(* committerHeap as the number of copies of each tuple it holds: a tuple   *)
(* that is emitted twice is pushed twice.                                  *)
IsHeap(h) == h \in [DOMAIN h -> Nat \ {0}]

EmptyHeap == [t \in {} |-> 1]

Push(h, T) ==
    [t \in DOMAIN h \union T |-> (IF t \in DOMAIN h THEN h[t] ELSE 0) + (IF t \in T THEN 1 ELSE 0)]

Pop(h, t) ==
    [u \in {v \in DOMAIN h : v # t \/ h[v] > 1} |-> IF u = t THEN h[u] - 1 ELSE h[u]]

HeapLen(h) == MapThenSumSet(LAMBDA t : h[t], DOMAIN h)

Staged(s, h) == [seq |-> s, hash |-> h]

(* Mutant: tombstones are given the ghost status code.                     *)
StatusSwapped(h) == IF h \in Unprojectable THEN "ghost" ELSE "live"

Status(h) == IF h \in Unprojectable THEN "tombstone" ELSE "live"

(* Mutant: rows are numbered from 1.                                       *)
RowsFromOne(batch) ==
    [i \in DOMAIN batch |-> [seq    |-> batch[i].seq + 1,
                             hash   |-> batch[i].hash,
                             status |-> Status(batch[i].hash)]]

Rows(batch) ==
    [i \in DOMAIN batch |-> [seq    |-> batch[i].seq,
                             hash   |-> batch[i].hash,
                             status |-> Status(batch[i].hash)]]

Spend(kind, max) == /\ budget[kind] < max
                    /\ budget' = [budget EXCEPT ![kind] = @ + 1]

(* A call that turns the WAL into w, or fails and leaves it alone.         *)
WalCall(w) == \/ wal' = w /\ UNCHANGED budget
              \/ UNCHANGED wal /\ Spend("faults", MaxFaults)

AllIdle == \A h \in Hash : worker[h] = "idle"

(***************************************************************************)
(* WAL admission and durability (external to this component).              *)
(***************************************************************************)

(* A group commit of one entry, fsynced.  A hash may be submitted again:   *)
(* two concurrent requests can both miss the handler's idempotency probe.  *)
Submit(h) ==
    /\ ~stopping
    /\ Spend("submits", MaxSubmits)
    /\ wal' = FlushBatch(wal, {h})
    /\ walDisk' = wal'
    /\ UNCHANGED <<tesseraVars, entryIndex, stopping, workerVars, committerVars>>

(* Badger flushes what later transactions wrote.                           *)
BackgroundSync ==
    /\ walDisk # wal
    /\ walDisk' = wal
    /\ UNCHANGED <<wal, tesseraVars, entryIndex, stopping, workerVars,
                   committerVars, budget>>

(***************************************************************************)
(* Stage 1: drainOnce and processOne.                                      *)
(***************************************************************************)

(* A cycle starts when every worker of the previous one has returned: the  *)
(* heap gate, then a snapshot of at most MaxEntriesPerCycle breadcrumbs in *)
(* hash order.                                                             *)
DrainOnce ==
    /\ ~stopping
    /\ AllIdle
    /\ HeapLen(heap) < MaxCommitterHeapSize
    /\ LET snapshot == IterateInflight(wal, MaxEntriesPerCycle)
       IN  /\ snapshot # {}
           /\ worker' = [h \in Hash |-> IF h \in snapshot THEN "queued" ELSE "idle"]
    /\ UNCHANGED <<walVars, tesseraVars, entryIndex, stopping, attempts,
                   committerVars, budget>>

(* Steps 1-3 of processOne: the state guard, the read of the bytes and     *)
(* their deserialization.  A failing probe only ends the worker.           *)
Dispatch(h) ==
    /\ ~stopping
    /\ worker[h] = "queued"
    /\ \A g \in Hash : g < h => worker[g] # "queued"
    /\ Cardinality({g \in Hash : worker[g] \notin {"idle", "queued"}}) < MaxInFlight
    /\ \/ /\ wal.state[h] # "pending"
          /\ worker' = [worker EXCEPT ![h] = "idle"]
          /\ attempts' = [attempts EXCEPT ![h] = 0]
          /\ UNCHANGED <<wal, budget>>
       \/ /\ wal.state[h] = "pending" /\ h \in Malformed
          /\ WalCall(MarkManual(wal, h))
          /\ worker' = [worker EXCEPT ![h] = "idle"]
          /\ attempts' = [attempts EXCEPT ![h] = 0]
       \/ /\ wal.state[h] = "pending" /\ h \notin Malformed
          /\ worker' = [worker EXCEPT ![h] = "append"]
          /\ UNCHANGED <<wal, attempts, budget>>
       \/ /\ Spend("faults", MaxFaults)
          /\ worker' = [worker EXCEPT ![h] = "idle"]
          /\ UNCHANGED <<wal, attempts>>
    /\ UNCHANGED <<walDisk, tesseraVars, entryIndex, stopping, committerVars>>

(* Tessera's effect of a successful Add.                                   *)
Assign(h) ==
    IF antispam[h] # NoSeq
    THEN UNCHANGED tesseraVars
    ELSE /\ leaves' = Append(leaves, h)
         /\ antispam' = [antispam EXCEPT ![h] = Len(leaves)]

(* Step 4: AppendLeaf returns a sequence number.                           *)
AppendLeaf(h) ==
    /\ ~stopping
    /\ worker[h] = "append"
    /\ Assign(h)
    /\ worker' = [worker EXCEPT ![h] = "emit"]
    /\ UNCHANGED <<walVars, entryIndex, stopping, attempts, committerVars, budget>>

(* AppendLeaf (or the WAL read before it) fails: handleEntryError counts   *)
(* the attempt and records a retry, or decides to give the entry up.       *)
HandleEntryError(h) ==
    /\ ~stopping
    /\ worker[h] = "append"
    /\ Spend("faults", MaxFaults)
    /\ attempts' = [attempts EXCEPT ![h] = @ + 1]
    /\ IF attempts[h] + 1 >= MaxAttempts
       THEN worker' = [worker EXCEPT ![h] = "exhausted"] /\ UNCHANGED wal
       ELSE worker' = [worker EXCEPT ![h] = "idle"] /\ wal' \in {wal, MarkRetry(wal, h)}
    /\ UNCHANGED <<walDisk, tesseraVars, entryIndex, stopping, committerVars>>

(* ... and gives it up: MarkManual does not look at the state again.       *)
GiveUp(h) ==
    /\ ~stopping
    /\ worker[h] = "exhausted"
    /\ WalCall(MarkManual(wal, h))
    /\ worker' = [worker EXCEPT ![h] = "idle"]
    /\ attempts' = [attempts EXCEPT ![h] = 0]
    /\ UNCHANGED <<walDisk, tesseraVars, entryIndex, stopping, committerVars>>

(* Steps 5-6: the live or tombstone tuple is sent; a full channel blocks.  *)
Emit(h) ==
    /\ worker[h] = "emit"
    /\ Len(commitCh) < CommitChannelBuffer
    /\ commitCh' = Append(commitCh, Staged(antispam[h], h))
    /\ worker' = [worker EXCEPT ![h] = "idle"]
    /\ UNCHANGED <<walVars, tesseraVars, entryIndex, stopping, attempts, heap,
                   pending, nextExpectedSeq, pc, jobs, breaker, budget>>

(* A worker meets the cancelled context.  An Add it had queued may still   *)
(* be integrated.                                                          *)
Abort(h) ==
    /\ stopping
    /\ worker[h] # "idle"
    /\ UNCHANGED tesseraVars \/ (worker[h] = "append" /\ Assign(h))
    /\ worker' = [worker EXCEPT ![h] = "idle"]
    /\ UNCHANGED <<walVars, entryIndex, stopping, attempts, committerVars, budget>>

(***************************************************************************)
(* Stage 2: the committer goroutine.                                       *)
(***************************************************************************)

Expected == nextExpectedSeq + Len(pending)

IsHead(t) == t \in DOMAIN heap /\ \A u \in DOMAIN heap : t.seq <= u.seq

(* Mutant: the WAL treats a tombstone like a live entry.                   *)
SettleIgnoresTombstone(w, h, s) == Sequence(w, h, s)

(* The WAL transition of a committed entry: Sequence for a live row,       *)
(* MarkManual for a tombstone.                                             *)
Settle(w, h, s) == IF h \in Unprojectable THEN MarkManual(w, h) ELSE Sequence(w, h, s)

(* Mutant: a stale duplicate is dropped without looking at the WAL.        *)
CommitterStaleDiscard(h, s, cancelled) == UNCHANGED <<wal, attempts, budget>>

(* committerStaleRecover: only an entry still pending is advanced.  Under  *)
(* a cancelled context, or when the probe fails, it returns at once.       *)
CommitterStaleRecover(h, s, cancelled) ==
    IF cancelled
    THEN UNCHANGED <<wal, attempts, budget>>
    ELSE \/ /\ wal.state[h] # "pending"
            /\ UNCHANGED <<wal, attempts, budget>>
         \/ /\ wal.state[h] = "pending"
            /\ WalCall(Settle(wal, h, s))
            /\ attempts' = [attempts EXCEPT ![h] = 0]
         \/ /\ Spend("faults", MaxFaults)
            /\ UNCHANGED <<wal, attempts>>

(* applyPostCommitForOne: an error, or a cancelled context, leaves the WAL *)
(* behind; the retry counter is reset in any case.                         *)
ApplyPostCommitForOne(h, s, cancelled) ==
    /\ IF cancelled THEN UNCHANGED <<wal, budget>> ELSE WalCall(Settle(wal, h, s))
    /\ attempts' = [attempts EXCEPT ![h] = 0]

(* committerLoop takes a tuple from the channel and pushes it.             *)
Receive ==
    /\ pc = "recv"
    /\ commitCh # <<>>
    /\ heap' = Push(heap, {Head(commitCh)})
    /\ commitCh' = Tail(commitCh)
    /\ pc' = "drain"
    /\ UNCHANGED <<walVars, tesseraVars, entryIndex, stopping, workerVars,
                   pending, nextExpectedSeq, jobs, breaker, budget>>

(* drainHeapInto, one iteration: the head is a duplicate.  One that is in  *)
(* the current batch is dropped, one of an earlier batch is recovered.     *)
DrainStale ==
    /\ pc \in {"drain", "lastdrain"}
    /\ \E t \in DOMAIN heap :
          /\ IsHead(t)
          /\ t.seq < Expected
          /\ heap' = Pop(heap, t)
          /\ IF t.seq < nextExpectedSeq
             THEN CommitterStaleRecover(t.hash, t.seq, stopping)
             ELSE UNCHANGED <<wal, attempts, budget>>
    /\ UNCHANGED <<walDisk, tesseraVars, entryIndex, stopping, worker, commitCh,
                   pending, nextExpectedSeq, pc, jobs, breaker>>

(* Mutant: the head is taken without comparing it with the expected seq.   *)
DrainTakeAcrossGap ==
    /\ pc \in {"drain", "lastdrain"}
    /\ \E t \in DOMAIN heap :
          /\ IsHead(t)
          /\ t.seq >= Expected
          /\ heap' = Pop(heap, t)
          /\ pending' = Append(pending, t)
    /\ UNCHANGED <<walVars, tesseraVars, entryIndex, stopping, workerVars,
                   commitCh, nextExpectedSeq, pc, jobs, breaker, budget>>

(* drainHeapInto, one iteration: the head is the next expected seq.        *)
DrainTake ==
    /\ pc \in {"drain", "lastdrain"}
    /\ \E t \in DOMAIN heap :
          /\ IsHead(t)
          /\ t.seq = Expected
          /\ heap' = Pop(heap, t)
          /\ pending' = Append(pending, t)
    /\ UNCHANGED <<walVars, tesseraVars, entryIndex, stopping, workerVars,
                   commitCh, nextExpectedSeq, pc, jobs, breaker, budget>>

(* drainHeapInto returns: the heap is empty or its head leaves a gap.  A   *)
(* full batch is flushed at once; otherwise the flush timer is armed.      *)
DrainEnd ==
    /\ pc \in {"drain", "lastdrain"}
    /\ \A t \in DOMAIN heap : t.seq > Expected
    /\ pc' = IF pc = "lastdrain"
             THEN IF pending = <<>> THEN "stopped" ELSE "lastflush"
             ELSE IF Len(pending) >= CommitMaxBatchSize THEN "flush" ELSE "recv"
    /\ UNCHANGED <<walVars, tesseraVars, entryIndex, stopping, workerVars,
                   commitCh, heap, pending, nextExpectedSeq, jobs, breaker, budget>>

FlushTimer ==
    /\ pc = "recv"
    /\ pending # <<>>
    /\ pc' = "flush"
    /\ UNCHANGED <<walVars, tesseraVars, entryIndex, stopping, workerVars,
                   commitCh, heap, pending, nextExpectedSeq, jobs, breaker, budget>>

(* flushBatch: the read-committed transaction commits.  What is left to do *)
(* is the stale recovery of each collided hash under its existing seq, and *)
(* then the post-commit hook of every other entry of the batch.            *)
FlushBatchCommits ==
    /\ pc \in {"flush", "lastflush"}
    /\ InsertBatchOK(entryIndex, Rows(pending))
    /\ entryIndex' = InsertBatch(entryIndex, Rows(pending))
    /\ LET collisions == HashCollisions(entryIndex, Rows(pending))
           collided   == {c.hash : c \in collisions}
       IN  jobs' = {[seq |-> c.existing, hash |-> c.hash, stale |-> TRUE] : c \in collisions}
                   \union
                   {[seq |-> pending[i].seq, hash |-> pending[i].hash, stale |-> FALSE] :
                      i \in {i \in DOMAIN pending : pending[i].hash \notin collided}}
    /\ pc' = IF pc = "flush" THEN "post" ELSE "lastpost"
    /\ UNCHANGED <<walVars, tesseraVars, stopping, workerVars, commitCh, heap,
                   pending, nextExpectedSeq, breaker, budget>>

IsNextJob(j) ==
    /\ j \in jobs
    /\ \A k \in jobs :  \/ k = j
                        \/ j.stale /\ ~k.stale
                        \/ (j.stale <=> k.stale) /\ j.seq < k.seq

(* flushBatch after the commit: the collided entries, then the others, in  *)
(* batch order.  Only the last flush of a shutdown has a fresh context.    *)
PostCommit ==
    /\ pc \in {"post", "lastpost"}
    /\ \E j \in jobs :
          /\ IsNextJob(j)
          /\ jobs' = jobs \ {j}
          /\ LET cancelled == pc = "post" /\ stopping
             IN  IF j.stale THEN CommitterStaleRecover(j.hash, j.seq, cancelled)
                            ELSE ApplyPostCommitForOne(j.hash, j.seq, cancelled)
    /\ UNCHANGED <<walDisk, tesseraVars, entryIndex, stopping, worker, commitCh,
                   heap, pending, nextExpectedSeq, pc, breaker>>

(* flushPending, success path.                                             *)
FlushDone ==
    /\ pc \in {"post", "lastpost"}
    /\ jobs = {}
    /\ nextExpectedSeq' = nextExpectedSeq + Len(pending)
    /\ pending' = <<>>
    /\ breaker' = [seq |-> 0, streak |-> 0]
    /\ pc' = IF pc = "post" THEN "recv" ELSE "stopped"
    /\ UNCHANGED <<walVars, tesseraVars, entryIndex, stopping, workerVars,
                   commitCh, heap, jobs, budget>>

(* flushPending, failure path: the transaction fails, or commits and the   *)
(* acknowledgement is lost.  The batch goes back to the heap, unless the   *)
(* identical-batch breaker trips and asks the supervisor to stop.          *)
FlushFails ==
    /\ pc \in {"flush", "lastflush"}
    /\ \/ Spend("faults", MaxFaults)
       \/ pc = "flush" /\ stopping /\ UNCHANGED budget   \* cancelled context
    /\ \/ UNCHANGED entryIndex
       \/ /\ InsertBatchOK(entryIndex, Rows(pending))
          /\ entryIndex' = InsertBatch(entryIndex, Rows(pending))
    /\ \E sameError \in BOOLEAN :
          LET first  == pending[1].seq
              streak == IF sameError /\ breaker.streak > 0 /\ breaker.seq = first
                        THEN breaker.streak + 1 ELSE 1
          IN  /\ breaker' = [seq |-> first, streak |-> streak]
              /\ IF streak >= BreakerThreshold
                 THEN stopping' = TRUE /\ UNCHANGED heap
                 ELSE /\ heap' = Push(heap, Range(pending))
                      /\ UNCHANGED stopping
    /\ pending' = <<>>
    /\ pc' = IF pc = "flush" THEN "recv" ELSE "stopped"
    /\ UNCHANGED <<walVars, tesseraVars, workerVars, commitCh, nextExpectedSeq, jobs>>

(* committerLoop sees the cancelled context: a last drain of the heap and  *)
(* one last flush under a fresh context.                                   *)
StopCommitter ==
    /\ stopping
    /\ pc = "recv"
    /\ pc' = "lastdrain"
    /\ UNCHANGED <<walVars, tesseraVars, entryIndex, stopping, workerVars,
                   commitCh, heap, pending, nextExpectedSeq, jobs, breaker, budget>>

(***************************************************************************)
(* Process lifecycle.                                                      *)
(***************************************************************************)

(* Run at boot: in-memory state is fresh and the committer's cursor comes  *)
(* from MAX(sequence_number).                                              *)
Boot(w) ==
    /\ wal' = w
    /\ walDisk' = w
    /\ IF Forgetful
       THEN antispam' \in {a \in [Hash -> Range(antispam) \union {NoSeq}] :
                              \A h \in Hash : a[h] \in {antispam[h], NoSeq}}
       ELSE UNCHANGED antispam
    /\ stopping' = FALSE
    /\ worker' = [h \in Hash |-> "idle"]
    /\ attempts' = [h \in Hash |-> 0]
    /\ commitCh' = <<>>
    /\ heap' = EmptyHeap
    /\ pending' = <<>>
    /\ nextExpectedSeq' = ReadNextExpectedSeq(entryIndex)
    /\ pc' = "recv"
    /\ jobs' = {}
    /\ breaker' = [seq |-> 0, streak |-> 0]
    /\ UNCHANGED <<leaves, entryIndex>>

(* A kill keeps what Badger's mapped files hold; a host crash does not.    *)
Crash ==
    /\ Spend("restarts", MaxRestarts)
    /\ \E w \in {wal, walDisk} : Boot(w)

(* SIGTERM: the root context is cancelled.                                 *)
Shutdown ==
    /\ ~stopping
    /\ Spend("restarts", MaxRestarts)
    /\ stopping' = TRUE
    /\ UNCHANGED <<walVars, tesseraVars, entryIndex, workerVars, committerVars>>

(* Every goroutine has returned, Badger is closed, and the orchestrator    *)
(* starts the next process.                                                *)
Exit ==
    /\ stopping
    /\ pc = "stopped"
    /\ AllIdle
    /\ Boot(wal)
    /\ UNCHANGED budget

--------------------------------------------------------------------------------
Init ==
    /\ wal = EmptyKeyspace
    /\ walDisk = EmptyKeyspace
    /\ leaves = <<>>
    /\ antispam = [h \in Hash |-> NoSeq]
    /\ entryIndex = [s \in {} |-> 0]
    /\ stopping = FALSE
    /\ worker = [h \in Hash |-> "idle"]
    /\ attempts = [h \in Hash |-> 0]
    /\ commitCh = <<>>
    /\ heap = EmptyHeap
    /\ pending = <<>>
    /\ nextExpectedSeq = 0
    /\ pc = "recv"
    /\ jobs = {}
    /\ breaker = [seq |-> 0, streak |-> 0]
    /\ budget = [submits |-> 0, faults |-> 0, restarts |-> 0]

Stage1 == \E h \in Hash : \/ Dispatch(h) \/ AppendLeaf(h) \/ GiveUp(h)
                          \/ Emit(h) \/ Abort(h)

Committer == \/ Receive \/ DrainStale \/ DrainTake \/ DrainEnd \/ FlushTimer
             \/ FlushBatchCommits \/ PostCommit \/ FlushDone \/ StopCommitter

Next == \/ \E h \in Hash : Submit(h) \/ HandleEntryError(h)
        \/ DrainOnce \/ Stage1 \/ Committer
        \/ FlushFails \/ BackgroundSync \/ Crash \/ Shutdown \/ Exit

Spec == Init /\ [][Next]_vars

(* Every goroutine that can run keeps running: the ticker fires, AppendLeaf*)
(* and the transaction return, the orchestrator restarts a stopped process.*)
(* The armed flush timer competes with commitCh in a select, which chooses *)
(* at random among the ready cases and so does not pass it over for ever.  *)
(* Submissions, faults and restarts owe nothing.                           *)
Fairness == /\ WF_vars(DrainOnce)
            /\ WF_vars(Stage1)
            /\ WF_vars(Committer)
            /\ SF_vars(FlushTimer)
            /\ WF_vars(Exit)

FairSpec == Spec /\ Fairness
--------------------------------------------------------------------------------
StagedEntry == [seq : Nat, hash : Hash]

TypeOK ==
    /\ IsKeyspace(wal)
    /\ IsKeyspace(walDisk)
    /\ leaves \in Seq(Hash)
    /\ antispam \in [Hash -> Nat \union {NoSeq}]
    /\ DOMAIN entryIndex \subseteq Nat
    /\ \A s \in DOMAIN entryIndex : entryIndex[s] \in [hash : Hash, status : EntryStatus]
    /\ stopping \in BOOLEAN
    /\ worker \in [Hash -> {"idle", "queued", "append", "exhausted", "emit"}]
    /\ attempts \in [Hash -> Nat]
    /\ commitCh \in Seq(StagedEntry)
    /\ IsHeap(heap) /\ DOMAIN heap \subseteq StagedEntry
    /\ pending \in Seq(StagedEntry)
    /\ nextExpectedSeq \in Nat
    /\ pc \in {"recv", "drain", "flush", "post",
              "lastdrain", "lastflush", "lastpost", "stopped"}
    /\ jobs \subseteq [seq : Nat, hash : Hash, stale : BOOLEAN]
    /\ breaker \in [seq : Nat, streak : Nat]
    /\ budget \in [submits : Nat, faults : Nat, restarts : Nat]

(* The committer's gap-free invariant: when the row at seq N is visible,   *)
(* the rows at 0..N-1 are.  The builder's cursor relies on it.             *)
GapFree ==
    \A s \in DOMAIN entryIndex : \A t \in 0..s : t \in DOMAIN entryIndex

(* The projection never disagrees with the tree: the row at seq N carries  *)
(* the hash of Tessera's leaf N, whatever crashes, retries and replays the *)
(* batch went through.                                                     *)
RowsMatchTree ==
    \A s \in DOMAIN entryIndex :
        s < Len(leaves) /\ entryIndex[s].hash = leaves[s + 1]

(* An entry is projected once: a hash has at most one primary row, however *)
(* often its leaf was appended.                                            *)
OnePrimary ==
    \A s, t \in DOMAIN entryIndex :
        /\ entryIndex[s].hash = entryIndex[t].hash
        /\ entryIndex[s].status # "ghost"
        /\ entryIndex[t].status # "ghost"
        => s = t

(* A ghost row can be resolved: the primary row of its hash exists, at a   *)
(* lower seq (FetchPrimarySeqByHash finds it).                             *)
GhostsResolve ==
    \A s \in DOMAIN entryIndex :
        entryIndex[s].status = "ghost" =>
            \E t \in PrimarySeqs(entryIndex, entryIndex[s].hash) : t < s

(* antispam points at the leaf it was given.                               *)
AntispamPoints ==
    \A h \in Hash : antispam[h] # NoSeq =>
        antispam[h] < Len(leaves) /\ leaves[antispam[h] + 1] = h

(* Every staged tuple carries the seq antispam holds for its hash, so      *)
(* tuples of different seqs have different hashes.                         *)
StagedPoint ==
    /\ \A h \in Hash : worker[h] = "emit" => antispam[h] # NoSeq
    /\ \A i \in DOMAIN commitCh : antispam[commitCh[i].hash] = commitCh[i].seq
    /\ \A t \in DOMAIN heap : antispam[t.hash] = t.seq
    /\ \A i \in DOMAIN pending : antispam[pending[i].hash] = pending[i].seq

(* The batch is the contiguous run that starts at the committer's cursor.  *)
BatchContiguous ==
    /\ \A i \in DOMAIN pending : pending[i].seq = nextExpectedSeq + i - 1
    /\ pc \in {"flush", "lastflush", "post", "lastpost"} => pending # <<>>

(* The table is gap-free, up to the committer's cursor at least.           *)
TableCovers ==
    LET n == ReadNextExpectedSeq(entryIndex)
    IN  /\ n \in Nat
        /\ DOMAIN entryIndex = 0..(n - 1)
        /\ nextExpectedSeq <= n
        /\ pc \in {"post", "lastpost"} => Expected <= n

(* The inductive invariant: what makes GapFree, RowsMatchTree, OnePrimary  *)
(* and GhostsResolve survive every crash, retry and replay of a batch.     *)
IInv ==
    /\ TypeOK
    /\ AntispamPoints
    /\ StagedPoint
    /\ BatchContiguous
    /\ TableCovers
    /\ RowsMatchTree
    /\ OnePrimary
    /\ GhostsResolve

(* The WAL and the projection agree on h: the WAL, whose seqs the shipper  *)
(* uploads under, names the seq of h's live row in entry_index.            *)
Parity(h) ==
    wal.state[h] = "sequenced" =>
        /\ wal.seq[h] \in DOMAIN entryIndex
        /\ entryIndex[wal.seq[h]] = [hash |-> h, status |-> "live"]

(* flushBatch's CQRS parity, for every entry.                              *)
CQRSParity == \A h \in Hash : Parity(h)

(* flushBatch's CQRS parity for the entries that antispam kept to a single *)
(* leaf, through stale tuples, faults and restarts.                        *)
ParityOfSingleLeaves ==
    \A h \in Hash :
        Cardinality({i \in DOMAIN leaves : leaves[i] = h}) <= 1 => Parity(h)

(* The sequence of rows the readers of entry_index see.                    *)
ProjectedLog == [i \in 1..ReadNextExpectedSeq(entryIndex) |-> entryIndex[i - 1]]

Log == INSTANCE ProjectionLog WITH log <- ProjectedLog

(* The sequencer implements the append-only log: no replayed batch, ghost  *)
(* or restart rewrites, removes or reorders a row.                         *)
ImplementsProjectionLog == Log!Spec

(* wal/keyspace.go: "inflight:<hash> exists only between Submit and        *)
(* Sequence."                                                              *)
BreadcrumbOnlyWhilePending ==
    \A h \in wal.inflight : wal.state[h] \in {"pending", "manual"}

(* applyPostCommitForOne: when WAL.Sequence fails after the commit, "WAL   *)
(* state lag is recoverable": the WAL record of a live row is pending (a   *)
(* later cycle recovers it) or already past it, never given up.            *)
LiveRowRecoverable ==
    \A s \in DOMAIN entryIndex :
        entryIndex[s].status = "live" =>
            wal.state[entryIndex[s].hash] # "manual"

(* Every admitted entry is eventually sequenced or handed to the operator. *)
PendingSettles ==
    \A h \in Hash : wal.state[h] = "pending" ~> wal.state[h] # "pending"

(* The number of seqs Tessera can assign within the bounds.                *)
SeqBound == Cardinality(Hash) * (IF Forgetful THEN MaxRestarts + 1 ELSE 1)

(* The gap-free invariant's other half: every seq Tessera has assigned     *)
(* gets its row, so the committer never waits on a seq for good.           *)
AllLeavesProjected ==
    \A s \in 0..(SeqBound - 1) : s < Len(leaves) ~> s \in DOMAIN entryIndex
================================================================================
