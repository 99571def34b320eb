--------------------------------- MODULE Shipper ---------------------------------
(***************************************************************************)
(* The ledger's shipper (services/ledger/shipper) and the WAL retention    *)
(* GC: a scanner that pumps sequenced WAL entries into a bounded work      *)
(* channel, workers that upload them under an AIMD concurrency limit, the  *)
(* hwmAdvancer that moves the high-water mark through contiguous runs, and *)
(* the GC that deletes shipped records below it.                           *)
(*                                                                         *)
(* The sequencer is external here: entry h is the live row at seq          *)
(* Assigned[h] of entry_index, and WAL.Sequence may be called for entries  *)
(* in any order (a call that failed is repeated later, see Sequencer).     *)
(* The seqs outside Range(Assigned) are tombstone and ghost rows, which    *)
(* have no seq_index record.                                               *)
(***************************************************************************)
EXTENDS WAL, Integers, Sequences

CONSTANTS
    Assigned,          \* the seq of each hash's live row
    MaxInFlight,       \* Config.MaxInFlight: workers and AIMD ceiling
    MaxAttempts,       \* Config.MaxAttempts
    WorkFactor,        \* workCh capacity / MaxInFlight (2 in the code)
    CompletionFactor,  \* completion capacity / MaxInFlight (4 in the code)
    AboveFactor,       \* aboveSetSizeFactor (1024 in the code)
    RetentionBuffer,   \* wal Config.RetentionBuffer
    MaxFaults,         \* bound: failing WAL reads, uploads, marks and GC deletes
    MaxHWMFaults,      \* bound: failing HWM reads and AdvanceHWM calls
    MaxRetries,        \* bound: MarkRetry calls the sequencer made before
    MaxResubmits,      \* bound: submissions of an entry the GC has deleted
    MaxRestarts        \* bound: restarts of the process

ASSUME ShipperAssumption ==
    /\ Assigned \in [Hash -> Nat]
    /\ \A g, h \in Hash : Assigned[g] = Assigned[h] => g = h
    /\ {MaxInFlight, MaxAttempts, WorkFactor, CompletionFactor, AboveFactor}
          \subseteq Nat \ {0}
    /\ {RetentionBuffer, MaxFaults, MaxHWMFaults, MaxRetries, MaxResubmits,
        MaxRestarts} \subseteq Nat

VARIABLES
    wal,            \* the Badger keyspace
    walDisk,        \* what of it survives a host crash
    bytestore,      \* hashes whose bytes the store holds, under Assigned[h]
    scan,           \* what is left of the scanner's IterateSequenced snapshot
    workCh,         \* entries waiting for a worker
    inflight,       \* Shipper.inflight: seqs between dispatch and return
    tasks,          \* the entries workers hold: [seq, hash, stage]
    limit,          \* aimdLimiter.limit, in halves (AIMDStep is 0.5)
    healthy,        \* an upload succeeded within HealthyWindow
    backoff,        \* hashes whose LastErrTs + backoffFor(Attempts) is ahead
    completion,     \* seqs signalled to the advancer
    above,          \* hwmAdvancer's out-of-order completions
    advancerAlive,  \* the hwmAdvancer goroutine has not panicked
    gcResumeSeq,    \* Committer.gcResumeSeq
    lastReclaimed,  \* the GC scheduler's lastReclaimedHWM
    failures,       \* history: failed ship attempts of each hash
    budget          \* [faults, hwmFaults, retries, resubmits, restarts] used

walVars == <<wal, walDisk>>
scanVars == <<scan, backoff>>
workVars == <<workCh, inflight, tasks>>
aimdVars == <<limit, healthy>>
hwmVars == <<completion, above, advancerAlive>>
gcVars == <<gcResumeSeq, lastReclaimed>>
vars == <<walVars, bytestore, scanVars, workVars, aimdVars, hwmVars, gcVars,
          failures, budget>>

Entry(s, h) == [seq |-> s, hash |-> h]

Task(e, st) == [seq |-> e.seq, hash |-> e.hash, stage |-> st]

Spend(kind, max) == /\ budget[kind] < max
                    /\ budget' = [budget EXCEPT ![kind] = @ + 1]

MinLimit == 2                  \* newAIMDLimiter's floor of one upload

MaxLimit == 2 * MaxInFlight    \* its ceiling, where it starts

(***************************************************************************)
(* The rest of the ledger.                                                 *)
(***************************************************************************)

(* The committer's post-commit WAL.Sequence; a later fsync makes it safe.  *)
SequenceEntry(h) ==
    /\ wal.state[h] = "pending"
    /\ wal' = Sequence(wal, h, Assigned[h])
    /\ UNCHANGED <<walDisk, bytestore, scanVars, workVars, aimdVars, hwmVars,
                   gcVars, failures, budget>>

(* handleEntryError of the sequencer uses the same retry counter.          *)
SequencerRetry(h) ==
    /\ wal.state[h] = "pending"
    /\ Spend("retries", MaxRetries)
    /\ wal' = MarkRetry(wal, h)
    /\ UNCHANGED <<walDisk, bytestore, scanVars, workVars, aimdVars, hwmVars,
                   gcVars, failures>>

(* An entry whose record the GC deleted is submitted again and fsynced.    *)
Resubmit(h) ==
    /\ wal.state[h] = "none"
    /\ Spend("resubmits", MaxResubmits)
    /\ wal' = FlushBatch(wal, {h})
    /\ walDisk' = wal'
    /\ UNCHANGED <<bytestore, scanVars, workVars, aimdVars, hwmVars, gcVars,
                   failures>>

(* Badger flushes what later transactions wrote.  Only a restart reads     *)
(* walDisk, so the last one needs no flush after it.                       *)
BackgroundSync ==
    /\ budget.restarts < MaxRestarts
    /\ walDisk # wal
    /\ walDisk' = wal
    /\ UNCHANGED <<wal, bytestore, scanVars, workVars, aimdVars, hwmVars,
                   gcVars, failures, budget>>

(***************************************************************************)
(* The scanner.                                                            *)
(***************************************************************************)

(* scanAndDispatch opens its Badger snapshot after reading the HWM.        *)
ScanBegin ==
    /\ scan = {}
    /\ scan' = {Entry(s, wal.index[s]) : s \in IterateSequenced(wal, wal.hwm)}
    /\ scan' # {}
    /\ UNCHANGED <<walVars, bytestore, backoff, workVars, aimdVars, hwmVars,
                   gcVars, failures, budget>>

IsNextInScan(e) == e \in scan /\ \A f \in scan : e.seq <= f.seq

(* The backoff filter reads the meta record as it is now, not the          *)
(* snapshot's; a record that is gone is skipped.                           *)
Waiting(h) == wal.state[h] = "none" \/ (wal.attempts[h] > 0 /\ h \in backoff)

(* Mutant: the in-flight guard is dropped.                                 *)
ScanStepUnguarded ==
    \E e \in scan :
        /\ IsNextInScan(e)
        /\ IF Waiting(e.hash)
           THEN scan' = scan \ {e} /\ UNCHANGED <<workCh, inflight>>
           ELSE IF Len(workCh) < WorkFactor * MaxInFlight
           THEN /\ scan' = scan \ {e}
                /\ workCh' = Append(workCh, e)
                /\ inflight' = inflight \union {e.seq}
           ELSE scan' = {} /\ UNCHANGED <<workCh, inflight>>
        /\ UNCHANGED <<walVars, bytestore, backoff, tasks, aimdVars, hwmVars,
                       gcVars, failures, budget>>

(* One callback of the iteration: skip, dispatch, or stop at a full        *)
(* channel.                                                                *)
ScanStep ==
    \E e \in scan :
        /\ IsNextInScan(e)
        /\ IF Waiting(e.hash) \/ e.seq \in inflight
           THEN scan' = scan \ {e} /\ UNCHANGED <<workCh, inflight>>
           ELSE IF Len(workCh) < WorkFactor * MaxInFlight
           THEN /\ scan' = scan \ {e}
                /\ workCh' = Append(workCh, e)
                /\ inflight' = inflight \union {e.seq}
           ELSE scan' = {} /\ UNCHANGED <<workCh, inflight>>
        /\ UNCHANGED <<walVars, bytestore, backoff, tasks, aimdVars, hwmVars,
                       gcVars, failures, budget>>

BackoffExpires(h) ==
    /\ h \in backoff
    /\ backoff' = backoff \ {h}
    /\ UNCHANGED <<walVars, bytestore, scan, workVars, aimdVars, hwmVars,
                   gcVars, failures, budget>>

(***************************************************************************)
(* The workers: shipOne, step by step.                                     *)
(***************************************************************************)

(* A worker takes an entry and reads its bytes.  They are gone when the GC *)
(* deleted the record after the scan; recordFailure then finds no meta     *)
(* either, and returns.                                                    *)
Take ==
    /\ workCh # <<>>
    /\ Cardinality(tasks) < MaxInFlight
    /\ LET e == Head(workCh) IN
          \/ /\ wal.state[e.hash] = "none"
             /\ inflight' = inflight \ {e.seq}
             /\ UNCHANGED <<tasks, budget>>
          \/ /\ wal.state[e.hash] # "none"
             /\ tasks' = tasks \union {Task(e, "acquire")}
             /\ UNCHANGED <<inflight, budget>>
          \/ /\ Spend("faults", MaxFaults)
             /\ tasks' = tasks \union {Task(e, "failed")}
             /\ UNCHANGED inflight
    /\ workCh' = Tail(workCh)
    /\ UNCHANGED <<walVars, bytestore, scanVars, aimdVars, hwmVars, gcVars,
                   failures>>

Moves(t, st) == tasks' = (tasks \ {t}) \union {Task(t, st)}

(* aimdLimiter.acquire: uploads in progress stay below the limit.          *)
Acquire(t) ==
    /\ t.stage = "acquire"
    /\ 2 * Cardinality({u \in tasks : u.stage = "upload"}) < limit
    /\ Moves(t, "upload")
    /\ UNCHANGED <<walVars, bytestore, scanVars, workCh, inflight, aimdVars,
                   hwmVars, gcVars, failures, budget>>

(* Mutant: the additive increase is not capped.                            *)
IncreaseUncapped(l) == l + 1

Increase(l) == Min({MaxLimit, l + 1})

(* WriteEntry succeeds: aimdLimiter.release increases the limit.           *)
UploadOK(t) ==
    /\ t.stage = "upload"
    /\ bytestore' = bytestore \union {t.hash}
    /\ limit' = Increase(limit)
    /\ healthy' = TRUE
    /\ Moves(t, "mark")
    /\ UNCHANGED <<walVars, scanVars, workCh, inflight, hwmVars, gcVars,
                   failures, budget>>

(* ... and halves it after a failure, not below the floor.                 *)
Decrease(l) == Max({MinLimit, l \div 2})

(* WriteEntry fails, or succeeds and the answer is lost.                   *)
UploadFails(t) ==
    /\ t.stage = "upload"
    /\ Spend("faults", MaxFaults)
    /\ bytestore' \in {bytestore, bytestore \union {t.hash}}
    /\ limit' = Decrease(limit)
    /\ Moves(t, "failed")
    /\ UNCHANGED <<walVars, scanVars, workCh, inflight, healthy, hwmVars,
                   gcVars, failures>>

(* Mutant: shipOne returns without releasing its seq.                      *)
ReturnsKeepsSlot(t) == tasks' = tasks \ {t} /\ UNCHANGED inflight

(* shipOne returns, and its deferred inflight.Delete runs.                 *)
Returns(t) == tasks' = tasks \ {t} /\ inflight' = inflight \ {t.seq}

(* MarkShipped clears LastErrTs.  When it fails the entry stays sequenced  *)
(* and a later scan uploads it again.                                      *)
RecordShipped(t) ==
    /\ t.stage = "mark"
    /\ \/ /\ MarkShippedOK(wal, t.hash)
          /\ wal' = MarkShipped(wal, t.hash)
          /\ backoff' = backoff \ {t.hash}
          /\ Moves(t, "complete")
          /\ UNCHANGED <<inflight, budget>>
       \/ /\ ~MarkShippedOK(wal, t.hash)
          /\ Returns(t)
          /\ UNCHANGED <<wal, backoff, budget>>
       \/ /\ Spend("faults", MaxFaults)
          /\ Returns(t)
          /\ UNCHANGED <<wal, backoff>>
    /\ UNCHANGED <<walDisk, bytestore, scan, workCh, aimdVars, hwmVars, gcVars,
                   failures>>

(* Mutant: quarantine one attempt early.                                   *)
ExhaustedEarly(h) == healthy /\ wal.attempts[h] + 2 >= MaxAttempts

(* recordFailure quarantines only while the store is healthy.              *)
Exhausted(h) == healthy /\ wal.attempts[h] + 1 >= MaxAttempts

RecordFailure(t) ==
    /\ t.stage = "failed"
    /\ failures' = [failures EXCEPT ![t.hash] = @ + 1]
    /\ \/ /\ wal.state[t.hash] # "none" /\ Exhausted(t.hash)
          /\ wal' = MarkManual(wal, t.hash)
          /\ Moves(t, "complete")
          /\ UNCHANGED <<inflight, backoff, budget>>
       \/ /\ wal.state[t.hash] # "none" /\ ~Exhausted(t.hash)
          /\ wal' = MarkRetry(wal, t.hash)
          /\ backoff' = backoff \union {t.hash}
          /\ Returns(t)
          /\ UNCHANGED budget
       \/ /\ \/ wal.state[t.hash] = "none" /\ UNCHANGED budget
             \/ Spend("faults", MaxFaults)
          /\ Returns(t)
          /\ UNCHANGED <<wal, backoff>>
    /\ UNCHANGED <<walDisk, bytestore, scan, workCh, aimdVars, hwmVars, gcVars>>

(* A full completion channel blocks the worker.                            *)
SignalCompletion(t) ==
    /\ t.stage = "complete"
    /\ Len(completion) < CompletionFactor * MaxInFlight
    /\ completion' = Append(completion, t.seq)
    /\ Returns(t)
    /\ UNCHANGED <<walVars, bytestore, scanVars, workCh, aimdVars, above,
                   advancerAlive, gcVars, failures, budget>>

(* Time passes HealthyWindow without a successful upload.                  *)
HealthExpires ==
    /\ healthy
    /\ healthy' = FALSE
    /\ UNCHANGED <<walVars, bytestore, scanVars, workVars, limit, hwmVars,
                   gcVars, failures, budget>>

(***************************************************************************)
(* The HWM advancer: processCompletion.                                    *)
(***************************************************************************)

(* Mutant: held completions are not consumed.                              *)
RunEndAlone(seq) == seq

(* The end of the contiguous run of held completions that seq starts.      *)
RunEnd(seq) ==
    Max({n \in {seq} \union above : n >= seq /\ (seq + 1)..n \subseteq above})

(* Holding one more completion may trip the breaker: the advancer panics,  *)
(* and SafeRun, which was given no fatal channel, ends only the goroutine. *)
Hold(seq) ==
    /\ above' = above \union {seq}
    /\ advancerAlive' = (Cardinality(above') <= AboveFactor * MaxInFlight)

(* Mutant: an out-of-order completion moves the HWM at once.               *)
ProcessCompletionAtOnce ==
    /\ advancerAlive
    /\ completion # <<>>
    /\ completion' = Tail(completion)
    /\ wal' = AdvanceHWM(wal, Max({wal.hwm, Head(completion)}))
    /\ UNCHANGED <<walDisk, bytestore, scanVars, workVars, aimdVars, above,
                   advancerAlive, gcVars, failures, budget>>

ProcessCompletion ==
    /\ advancerAlive
    /\ completion # <<>>
    /\ completion' = Tail(completion)
    /\ LET seq == Head(completion) IN
          \/ /\ seq <= wal.hwm                     \* absorbed; seq 0 always is
             /\ UNCHANGED <<wal, above, advancerAlive, budget>>
          \/ /\ seq > wal.hwm + 1                  \* out of order
             /\ Hold(seq)
             /\ UNCHANGED <<wal, budget>>
          \/ /\ seq = wal.hwm + 1
             /\ wal' = AdvanceHWM(wal, RunEnd(seq))
             /\ above' = above \ (seq..RunEnd(seq))
             /\ UNCHANGED <<advancerAlive, budget>>
          \/ /\ seq = wal.hwm + 1                  \* AdvanceHWM fails: re-stash
             /\ Spend("hwmFaults", MaxHWMFaults)
             /\ above' = above \union (seq..RunEnd(seq))
             /\ UNCHANGED <<wal, advancerAlive>>
          \/ /\ Spend("hwmFaults", MaxHWMFaults)   \* the HWM read fails
             /\ Hold(seq)
             /\ UNCHANGED wal
    /\ UNCHANGED <<walDisk, bytestore, scanVars, workVars, aimdVars, gcVars,
                   failures>>

(***************************************************************************)
(* The retention GC: one tick of the scheduler.                            *)
(***************************************************************************)

GCDue == /\ RetentionBuffer > 0
         /\ wal.hwm >= lastReclaimed + RetentionBuffer

(* The cutoff, and the next pass's resume cursor.                          *)
Cutoff(hwm) == hwm - RetentionBuffer

(* Mutant: a failing pass moves the resume cursor as well.                 *)
GCBelowRetentionSkips ==
    /\ GCDue
    /\ wal.hwm > RetentionBuffer
    /\ LET victims == GCVictims(wal, gcResumeSeq, Cutoff(wal.hwm))
       IN  /\ \/ /\ wal' = DeleteGCBatch(wal, victims)
                 /\ lastReclaimed' = IF victims # {} THEN wal.hwm ELSE lastReclaimed
                 /\ UNCHANGED budget
              \/ /\ Spend("faults", MaxFaults)
                 /\ \E k \in victims : wal' = DeleteGCBatch(wal, {s \in victims : s < k})
                 /\ UNCHANGED lastReclaimed
           /\ gcResumeSeq' = Cutoff(wal.hwm) + 1
    /\ UNCHANGED <<walDisk, bytestore, scanVars, workVars, aimdVars, hwmVars,
                   failures>>

(* GCBelowRetention, from the resume cursor to the cutoff.  A failing call *)
(* has deleted some of the victims, lowest first, and keeps the cursor.    *)
GCBelowRetention ==
    /\ GCDue
    /\ wal.hwm > RetentionBuffer
    /\ LET victims == GCVictims(wal, gcResumeSeq, Cutoff(wal.hwm))
       IN  \/ /\ wal' = DeleteGCBatch(wal, victims)
              /\ gcResumeSeq' = Cutoff(wal.hwm)
              /\ lastReclaimed' = IF victims # {} THEN wal.hwm ELSE lastReclaimed
              /\ UNCHANGED budget
           \/ /\ Spend("faults", MaxFaults)
              /\ \E k \in victims : wal' = DeleteGCBatch(wal, {s \in victims : s < k})
              /\ UNCHANGED gcVars
    /\ UNCHANGED <<walDisk, bytestore, scanVars, workVars, aimdVars, hwmVars,
                   failures>>

(***************************************************************************)
(* Process lifecycle.                                                      *)
(***************************************************************************)

(* The process is killed (the WAL keeps what it has), or the host crashes  *)
(* (it keeps what was flushed), or it is stopped: then every call under    *)
(* the cancelled context fails, which is a kill at some earlier step.  Run *)
(* reconciles the HWM at boot, and goes on when that fails.                *)
Restart ==
    /\ budget.restarts < MaxRestarts
    /\ \E w \in {wal, walDisk} :
          \/ /\ wal' = ReconcileHWM(w)
             /\ budget' = [budget EXCEPT !.restarts = @ + 1]
          \/ /\ wal' = w
             /\ budget.hwmFaults < MaxHWMFaults
             /\ budget' = [budget EXCEPT !.restarts = @ + 1, !.hwmFaults = @ + 1]
    /\ walDisk' = wal'
    /\ scan' = {}
    /\ workCh' = <<>>
    /\ inflight' = {}
    /\ tasks' = {}
    /\ limit' = MaxLimit
    /\ healthy' = FALSE
    /\ completion' = <<>>
    /\ above' = {}
    /\ advancerAlive' = TRUE
    /\ gcResumeSeq' = 0
    /\ lastReclaimed' = 0
    /\ UNCHANGED <<bytestore, backoff, failures>>

--------------------------------------------------------------------------------
(* Every entry has been submitted and fsynced; none is sequenced yet.      *)
Init ==
    /\ wal = FlushBatch(EmptyKeyspace, Hash)
    /\ walDisk = wal
    /\ bytestore = {}
    /\ scan = {}
    /\ workCh = <<>>
    /\ inflight = {}
    /\ tasks = {}
    /\ limit = MaxLimit
    /\ healthy = FALSE
    /\ backoff = {}
    /\ completion = <<>>
    /\ above = {}
    /\ advancerAlive = TRUE
    /\ gcResumeSeq = 0
    /\ lastReclaimed = 0
    /\ failures = [h \in Hash |-> 0]
    /\ budget = [faults |-> 0, hwmFaults |-> 0, retries |-> 0,
                 resubmits |-> 0, restarts |-> 0]

Worker(t) == \/ Acquire(t) \/ UploadOK(t) \/ RecordShipped(t)
             \/ RecordFailure(t) \/ SignalCompletion(t)

Next == \/ \E h \in Hash : \/ SequenceEntry(h) \/ SequencerRetry(h)
                           \/ Resubmit(h) \/ BackoffExpires(h)
        \/ BackgroundSync
        \/ ScanBegin \/ ScanStep
        \/ Take
        \/ \E t \in tasks : Worker(t) \/ UploadFails(t)
        \/ HealthExpires
        \/ ProcessCompletion
        \/ GCBelowRetention
        \/ Restart

Spec == Init /\ [][Next]_vars

(* The scanner's ticker, the workers, the advancer, the GC ticker and the  *)
(* clock go on; an upload that has started returns.  A worker parked in    *)
(* acquire is woken by every release and competes with the others, so it   *)
(* gets a slot when slots keep coming free.  The sequencer sequences what  *)
(* is pending.  Faults, restarts and resubmissions owe nothing.            *)
Fairness ==
    /\ WF_vars(ScanBegin) /\ WF_vars(ScanStep)
    /\ WF_vars(Take)
    /\ \A h \in Hash : /\ WF_vars(SequenceEntry(h))
                       /\ WF_vars(BackoffExpires(h))
                       /\ SF_vars(\E t \in tasks : t.hash = h /\ Worker(t))
    /\ WF_vars(ProcessCompletion)
    /\ WF_vars(GCBelowRetention)

FairSpec == Spec /\ Fairness
--------------------------------------------------------------------------------
WorkEntry == [seq : Nat, hash : Hash]

Stage == {"acquire", "upload", "mark", "failed", "complete"}

TypeOK ==
    /\ IsKeyspace(wal)
    /\ IsKeyspace(walDisk)
    /\ bytestore \subseteq Hash
    /\ scan \subseteq WorkEntry
    /\ workCh \in Seq(WorkEntry)
    /\ inflight \subseteq Nat
    /\ tasks \subseteq [seq : Nat, hash : Hash, stage : Stage]
    /\ limit \in MinLimit..MaxLimit
    /\ healthy \in BOOLEAN
    /\ backoff \subseteq Hash
    /\ completion \in Seq(Nat)
    /\ above \subseteq Nat
    /\ advancerAlive \in BOOLEAN
    /\ gcResumeSeq \in Nat
    /\ lastReclaimed \in Nat
    /\ failures \in [Hash -> Nat]
    /\ budget \in [faults : Nat, hwmFaults : Nat, retries : Nat,
                   resubmits : Nat, restarts : Nat]

(* Entry h is done with in keyspace w: its bytes are in the store, or it   *)
(* is quarantined with its bytes in the WAL.                               *)
Finished(w, h) == h \in bytestore \/ w.state[h] = "manual"

(* The HWM is contiguous: every seq from 1 to the HWM is the seq of an     *)
(* entry that is done with, whatever the order of completions, retries and *)
(* crashes.  (HWM 0 says nothing of seq 0, see HWMCoversZero.)             *)
HWMContiguous ==
    \A s \in 1..wal.hwm : \E h \in Hash : Assigned[h] = s /\ Finished(wal, h)

(* No admitted entry's bytes are lost: they are in the WAL or in the store *)
(* although the GC deletes and the WAL may fall back to its last flush.    *)
BytesNeverLost == \A h \in Hash : wal.state[h] # "none" \/ h \in bytestore

(* Shipper.inflight does its job: no two workers, and no worker and the    *)
(* work channel, hold the same seq.                                        *)
OneWorkerPerSeq ==
    /\ \A t, u \in tasks : t.seq = u.seq => t = u
    /\ \A i \in DOMAIN workCh :
          /\ \A t \in tasks : t.seq # workCh[i].seq
          /\ \A j \in DOMAIN workCh : workCh[i].seq = workCh[j].seq => i = j

(* An entry is quarantined only after MaxAttempts retries were recorded    *)
(* for it: failed uploads, or retries of the sequencer, which counts in    *)
(* the same field.  A WAL that falls back to its last flush never makes    *)
(* that number larger.                                                     *)
QuarantineAfterMaxAttempts ==
    \A h \in Hash :
        wal.state[h] = "manual" => failures[h] + budget.retries >= MaxAttempts

(* Config.MaxAttempts as its comment has it: an entry is quarantined only  *)
(* "after this many failed upload attempts".                               *)
QuarantineAfterFailedUploads ==
    \A h \in Hash : wal.state[h] = "manual" => failures[h] >= MaxAttempts

(* shipOne: after a successful ship, "re-dispatch is impossible".          *)
NoRedispatch ==
    \A i \in DOMAIN workCh : wal.state[workCh[i].hash] # "shipped"

(* shipper.go, on the HWM: the advance over "a contiguous run" makes "HWM  *)
(* is the highest shipped seq" true, for seq 0 too.                        *)
HWMCoversZero ==
    wal.hwm > 0 => \A h \in Hash : Assigned[h] = 0 => Finished(wal, h)

(* Every entry that gets a seq above 0 is uploaded or quarantined in the   *)
(* end, through retries, backoff, a shrunken AIMD limit and restarts.      *)
ShippedEventually ==
    \A h \in Hash : Assigned[h] > 0 =>
        (wal.state[h] = "sequenced" ~> Finished(wal, h))

(* Every entry up to seq n is done with, and its record is still there.    *)
DoneUpTo(n) ==
    \A h \in Hash : Assigned[h] <= n => wal.state[h] \in {"shipped", "manual"}

(* The HWM catches up: once every entry up to seq n is done with, it       *)
(* reaches n.                                                              *)
HWMCatchesUp == \A n \in Range(Assigned) : DoneUpTo(n) ~> wal.hwm >= n

(* As long as the process is not restarted, the HWM catches up with        *)
(* completions in any order.                                               *)
HWMCatchesUpUnlessRestarted ==
    \A n \in Range(Assigned) :
        DoneUpTo(n) ~> wal.hwm >= n \/ budget.restarts > 0

(* The WAL stays bounded: a shipped record two buffers below the HWM is    *)
(* reclaimed.                                                              *)
GCReclaims ==
    \A h \in Hash : Assigned[h] > 0 =>
        (wal.state[h] = "shipped" /\ Assigned[h] + 2 * RetentionBuffer <= wal.hwm
            ~> wal.state[h] # "shipped")
================================================================================
