-------------------------------- MODULE Ledger --------------------------------
(***************************************************************************)
(* The worker's per-issue history: class Ledger of                         *)
(* orchestrator/admission.py, with the calls the orchestrator makes of it. *)
(*                                                                         *)
(* The ledger is a dict whose insertion order is its eviction order.       *)
(* `queue` is its keys in that order and `entry` its values, Empty for an  *)
(* issue it does not know.  Turns and cost only ever ride along with a     *)
(* write here; Orchestrator has what they decide.                          *)
(***************************************************************************)
EXTENDS Admission, FiniteSets, SequencesExt

CONSTANTS
    Ids,        \* issues, by identifier
    Limit,      \* LEDGER_LIMIT
    SeedLimit,  \* LEDGER_SEED_LIMIT of the store's reader
    MaxRuns     \* bound: runs ever started

ASSUME LedgerAssumption == /\ IsFiniteSet(Ids)
                           /\ Limit \in Nat \ {0}
                           /\ SeedLimit \in Nat
                           /\ MaxRuns \in Nat

VARIABLES
    queue, entry,
    running,         \* issues with a run
    clock, started,  \* runs ever started; the store's last_run_at, 0 for none
    since            \* history: by issue written, the issues written after it

ledgerVars == <<queue, entry, running, clock, started, since>>

Entries == [failures : 0..MaxAttempts, refusal : {"none"} \cup BudgetRefusals,
            escalated : BOOLEAN, escaped : BOOLEAN]
Empty   == [failures |-> 0, refusal |-> "none", escalated |-> FALSE, escaped |-> FALSE]

Known == ToSet(queue)

\* The keys but one, in their order.
Without(s, i) == IF i \in ToSet(s) THEN RemoveAt(s, CHOOSE k \in DOMAIN s : s[k] = i) ELSE s

\* _trim, after one write.
Trim(s) == IF Len(s) > Limit THEN Tail(s) ELSE s
-----------------------------------------------------------------------------
\* _put: the entry goes to the end, and the first may go.
Put(i, e) ==
    /\ queue' = Trim(Append(Without(queue, i), i))
    /\ entry' = [j \in Ids |-> IF j = i THEN e
                               ELSE IF j \in ToSet(queue') THEN entry[j] ELSE Empty]
    /\ since' = [j \in DOMAIN since \cup {i} |-> IF j = i THEN {} ELSE since[j] \cup {i}]

\* A write in place: refused, escalate and mark_escaped.
Amend(i, e) ==
    /\ entry' = [entry EXCEPT ![i] = IF i \in Known THEN e ELSE @]
    /\ UNCHANGED <<queue, since>>

\* _start_run, which the gate let through.
Dispatched(i) ==
    /\ i \notin running /\ clock < MaxRuns /\ entry[i].failures < MaxAttempts
    /\ Put(i, [entry[i] EXCEPT !.refusal = "none", !.escalated = FALSE, !.escaped = FALSE])
    /\ running' = running \cup {i}
    /\ clock' = clock + 1
    /\ started' = [started EXCEPT ![i] = clock + 1]

\* handle_worker_exit: spent, then failed, cleared or neither, at one instant.
RunEnds(i, how) ==
    /\ i \in running
    /\ Put(i, CASE how = "failed"    -> [entry[i] EXCEPT !.failures = @ + 1]
                [] how = "succeeded" -> [entry[i] EXCEPT !.failures = 0, !.refusal = "none"]
                [] OTHER             -> entry[i])
    /\ running' = running \ {i}
    /\ UNCHANGED <<clock, started>>

\* _record_escape: cleared, which writes only what it changes, then mark_escaped.
Cleared(i) == [entry[i] EXCEPT !.failures = 0, !.refusal = "none", !.escaped = TRUE]

RecordEscape(i) ==
    /\ i \in Known \ running
    /\ IF entry[i].failures = 0 /\ entry[i].refusal = "none"
       THEN Amend(i, Cleared(i))
       ELSE Put(i, Cleared(i))
    /\ UNCHANGED <<running, clock, started>>

\* _handle_refusal up to its await, and `escalate` once the escape landed.
Refused(i, why) ==
    /\ i \in Known \ running
    /\ Amend(i, [entry[i] EXCEPT !.refusal = why])
    /\ UNCHANGED <<running, clock, started>>

Escalate(i) ==
    /\ i \in Known \ running /\ entry[i].refusal # "none"
    /\ Amend(i, [entry[i] EXCEPT !.escalated = TRUE])
    /\ UNCHANGED <<running, clock, started>>

\* observed: a session record may raise the chain.
Observed(i, attempt) ==
    /\ i \notin running /\ SeededChain(attempt - 1) > entry[i].failures
    /\ Put(i, [entry[i] EXCEPT !.failures = SeededChain(attempt - 1)])
    /\ UNCHANGED <<running, clock, started>>

Forget(i) ==
    /\ i \in Known \ running
    /\ queue' = Without(queue, i)
    /\ entry' = [entry EXCEPT ![i] = Empty]
    /\ since' = [j \in DOMAIN since \ {i} |-> since[j]]
    /\ UNCHANGED <<running, clock, started>>

\* Mutant: the seed is kept in the order its reader produced, newest first.
ReaderOrder(seed, s) == /\ ToSet(seed) = s
                        /\ \A k, l \in DOMAIN seed : k < l => started[seed[k]] > started[seed[l]]

\* Ledger.__init__: the seed is sorted on the way in.
SeedOrder(seed, s) == /\ ToSet(seed) = s
                      /\ \A k, l \in DOMAIN seed : k < l => started[seed[k]] < started[seed[l]]

\* A new process, seeded with the issues the store's reader ran most recently.
Restart ==
    /\ clock > 0
    /\ LET recent == {i \in Ids : started[i] > 0 /\
                        Cardinality({j \in Ids : started[j] > started[i]}) < SeedLimit}
           n == Cardinality(recent)
       IN  \E seed \in [1..n -> recent] :
             /\ SeedOrder(seed, recent)
             /\ queue' = SubSeq(seed, (IF n > Limit THEN n - Limit ELSE 0) + 1, n)
             /\ since' = [i \in recent |-> {j \in recent : started[j] > started[i]}]
    /\ \E chain \in [Ids -> 0..MaxAttempts] :
         /\ \A i \in Ids \ ToSet(queue') : chain[i] = 0
         /\ entry' = [i \in Ids |-> [Empty EXCEPT !.failures = SeededChain(chain[i])]]
    /\ running' = {}
    /\ UNCHANGED <<clock, started>>

LedgerInit ==
    /\ queue = <<>>
    /\ entry = [i \in Ids |-> Empty]
    /\ running = {}
    /\ clock = 0
    /\ started = [i \in Ids |-> 0]
    /\ since = [i \in {} |-> {}]

LedgerNext ==
    \/ \E i \in Ids :
          \/ Dispatched(i)
          \/ \E how \in {"failed", "succeeded", "released"} : RunEnds(i, how)
          \/ RecordEscape(i) \/ Escalate(i) \/ Forget(i)
          \/ \E why \in BudgetRefusals : Refused(i, why)
          \/ \E attempt \in 1..MaxAttempts : Observed(i, attempt)
    \/ Restart

LedgerSpec == LedgerInit /\ [][LedgerNext]_ledgerVars
-----------------------------------------------------------------------------
LedgerTypeOK ==
    /\ IsInjective(queue) /\ Known \subseteq Ids /\ Len(queue) <= Limit
    /\ entry \in [Ids -> Entries]
    /\ \A i \in Ids \ Known : entry[i] = Empty
    /\ running \subseteq Ids
    /\ clock \in 0..MaxRuns
    /\ started \in [Ids -> 0..MaxRuns]
    /\ DOMAIN since \subseteq Ids /\ \A i \in DOMAIN since : since[i] \subseteq Ids

\* The bounded ledger forgets an issue's budget only when Limit other issues
\* were written after it, counting from before a restart: an issue run minutes
\* before a deployment is not evicted for one that has not run for months.
KeepsRecentlyRun ==
    \A i \in DOMAIN since : Cardinality(since[i]) < Limit => i \in Known

=============================================================================
