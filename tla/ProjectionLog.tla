----------------------------- MODULE ProjectionLog ------------------------------
(***************************************************************************)
(* What the sequencer promises the readers of entry_index (the builder's   *)
(* cursor, the query API): one append-only log.  A row at position N       *)
(* appears only after, or together with, the rows at 0..N-1, is never      *)
(* changed, and is a primary row exactly when it is the first of its hash; *)
(* every later row of that hash is a ghost.                                *)
(***************************************************************************)
EXTENDS Naturals, Sequences

VARIABLE log    \* log[s + 1] is the row at sequence number s

HasPrimary(rows, n, h) ==
    \E i \in 1..n : rows[i].hash = h /\ rows[i].status # "ghost"

Init == log = <<>>

(* One transaction extends the log by any number of rows.                  *)
Extend ==
    /\ Len(log) < Len(log')
    /\ \A i \in 1..Len(log) : log'[i] = log[i]
    /\ \A i \in (Len(log) + 1)..Len(log') :
          log'[i].status = "ghost" <=> HasPrimary(log', i - 1, log'[i].hash)

Spec == Init /\ [][Extend]_log
================================================================================
