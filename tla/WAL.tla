---------------------------------- MODULE WAL ----------------------------------
(***************************************************************************)
(* The ledger's write-ahead log (services/ledger/wal): the Badger keyspace *)
(* as one value, and every Badger transaction on it as an operator from    *)
(* keyspace to keyspace.  A transaction that returns an error leaves the   *)
(* keyspace as it was, so an erroring call is the identity.                *)
(*                                                                         *)
(*   meta:<hash>       state, seq, attempts   ("none": no record)          *)
(*   entry:<hash>      written and deleted in the same transactions as     *)
(*                     meta:<hash>, so it is present iff state # "none"    *)
(*   inflight:<hash>   inflight, the breadcrumbs                           *)
(*   seq_index:<seq>   index, a partial function from seqs to hashes       *)
(*   hwm               hwm (an absent key reads as 0)                      *)
(*                                                                         *)
(* Hashes are naturals: Badger iterates inflight:<hash> in key order and   *)
(* that order matters to the sequencer.                                    *)
(***************************************************************************)
EXTENDS Naturals, FiniteSets, FiniteSetsExt, Functions

CONSTANT Hash    \* canonical hashes of the entries that may be submitted

ASSUME HashAssumption == Hash \subseteq Nat

EntryState == {"none", "pending", "sequenced", "shipped", "manual"}

IsKeyspace(w) ==
    /\ DOMAIN w = {"state", "seq", "attempts", "inflight", "index", "hwm"}
    /\ w.state \in [Hash -> EntryState]
    /\ w.seq \in [Hash -> Nat]
    /\ w.attempts \in [Hash -> Nat]
    /\ w.inflight \subseteq Hash
    /\ DOMAIN w.index \subseteq Nat
    /\ w.index \in [DOMAIN w.index -> Hash]
    /\ w.hwm \in Nat

EmptyKeyspace ==
    [state    |-> [h \in Hash |-> "none"],
     seq      |-> [h \in Hash |-> 0],
     attempts |-> [h \in Hash |-> 0],
     inflight |-> {},
     index    |-> [s \in {} |-> 0],
     hwm      |-> 0]

(* flushBatch: one transaction over the whole batch.  An existing meta     *)
(* record is preserved; the breadcrumb is set in every case.               *)
FlushBatch(w, batch) ==
    [w EXCEPT !.state = [h \in Hash |->
                            IF h \in batch /\ w.state[h] = "none"
                            THEN "pending" ELSE w.state[h]],
              !.inflight = w.inflight \union batch]

Sequence(w, h, s) ==
    IF w.state[h] = "pending"
    THEN [w EXCEPT !.state[h] = "sequenced",
                   !.seq[h] = s,
                   !.index = [t \in DOMAIN w.index \union {s} |->
                                 IF t = s THEN h ELSE w.index[t]],
                   !.inflight = w.inflight \ {h}]
    ELSE w

MarkShipped(w, h) ==
    IF w.state[h] \in {"sequenced", "manual"}
    THEN [w EXCEPT !.state[h] = "shipped"]
    ELSE w

MarkShippedOK(w, h) == w.state[h] \in {"sequenced", "manual", "shipped"}

MarkRetry(w, h) ==
    IF w.state[h] = "none" THEN w ELSE [w EXCEPT !.attempts[h] = @ + 1]

MarkManual(w, h) ==
    IF w.state[h] = "none" THEN w ELSE [w EXCEPT !.state[h] = "manual"]

AdvanceHWM(w, s) == [w EXCEPT !.hwm = s]

(* The run of shipped seqs that starts at HWM+1 and has no gap.            *)
ReconcileHWM(w) ==
    LET shippedTo(n) == \A s \in (w.hwm + 1)..n :
                            s \in DOMAIN w.index /\ w.state[w.index[s]] = "shipped"
    IN  AdvanceHWM(w, Max({w.hwm} \union
                          {n \in DOMAIN w.index : n > w.hwm /\ shippedTo(n)}))

(* The seqs IterateSequenced yields: the seek starts at fromSeq+1, or at   *)
(* the first key when fromSeq is 0.                                        *)
IterateSequenced(w, fromSeq) ==
    {s \in DOMAIN w.index : /\ fromSeq = 0 \/ s > fromSeq
                            /\ w.state[w.index[s]] = "sequenced"}

(* The first n breadcrumbs in key order.                                   *)
IterateInflight(w, n) ==
    {h \in w.inflight : Cardinality({g \in w.inflight : g < h}) < n}

(* Mutant: the fail-closed state check is dropped.                         *)
GCVictimsAnyState(w, from, cutoff) == {s \in DOMAIN w.index : from <= s /\ s <= cutoff}

(* collectGCBatch over all its batches, from the resume cursor: the        *)
(* shipped seqs in [from, cutoff].                                         *)
GCVictims(w, from, cutoff) ==
    {s \in DOMAIN w.index : /\ from <= s /\ s <= cutoff
                            /\ w.state[w.index[s]] = "shipped"}

DeleteGCBatch(w, victims) ==
    LET gone == {w.index[s] : s \in victims}
    IN  [w EXCEPT !.state = [h \in Hash |-> IF h \in gone THEN "none" ELSE w.state[h]],
                  !.seq = [h \in Hash |-> IF h \in gone THEN 0 ELSE w.seq[h]],
                  !.attempts = [h \in Hash |-> IF h \in gone THEN 0 ELSE w.attempts[h]],
                  !.index = Restrict(w.index, DOMAIN w.index \ victims)]
================================================================================
