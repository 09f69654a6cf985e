------------------------------ MODULE EventLog ------------------------------
(***************************************************************************)
(* What the store's table of events promises the worker that reads it back *)
(* (db/store.py, db/queries.py): the history is appended to in the order   *)
(* the events were published, none is taken back, none is put before one   *)
(* that is there. Events may be missing from it, and the newest may be     *)
(* there more than once: it is written again, beside itself, when the      *)
(* answer to its commit was lost.                                          *)
(***************************************************************************)
EXTENDS Naturals, Sequences

CONSTANT Numbers  \* the numbers of the events published: 1, 2, ...

VARIABLE log       \* the numbers of the events stored

Add(e) ==
    /\ \A i \in DOMAIN log : log[i] <= e
    /\ log' = Append(log, e)

Next == \E e \in Numbers : Add(e)

Spec == log = <<>> /\ [][Next]_log
=============================================================================
