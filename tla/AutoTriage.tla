------------------------------ MODULE AutoTriage ------------------------------
(***************************************************************************)
(* Auto-triage: the scan that labels each new issue `triage-todo` once     *)
(* (orchestrator/auto_triage.py and its part of orchestrator.py).          *)
(*                                                                         *)
(* The scan remembers one thing, a watermark: an issue opened at or before *)
(* it was decided, labelled or passed over, and is not looked at again.    *)
(* It must not pass an issue nobody decided, although GitHub lists a new   *)
(* issue late, answers after a while, or refuses a label in the middle of  *)
(* a scan, and although the process may die at any point and read back an  *)
(* older record than it had.                                               *)
(*                                                                         *)
(* Issues are numbered in the order they were opened; several may open in  *)
(* one second.  GitHub and the worker are taken to agree on the time.      *)
(***************************************************************************)
EXTENDS Integers, FiniteSets, Sequences

CONSTANTS
    N,            \* issues
    Settle,       \* SETTLE, in the model's seconds
    Lag,          \* GitHub lists an issue this long after it was opened
    ReadTime,     \* and answers a read within this long
    MaxTime,      \* bound: the clock
    MaxToggles,   \* bound: changes of triage.auto
    MaxRestarts   \* bound: crashes and restarts of the process

Issues == 1..N

\* What SETTLE is for: the listing's lag, the second of the opening at least,
\* and the read's own duration, as the scan counts from the answer, fit in it.
ASSUME AutoTriageAssumption ==
    /\ N \in Nat \ {0}
    /\ Settle \in Nat /\ Lag \in Nat \ {0} /\ ReadTime \in Nat
    /\ Lag + ReadTime <= Settle
    /\ MaxTime \in Nat /\ MaxToggles \in Nat /\ MaxRestarts \in Nat

VARIABLES
    now, opened,      \* the time; when each issue was opened, 0 while it is not
    tagged,           \* issues carrying an issuebot label: stands for every skip_reason
    setting,          \* triage.auto as WORKFLOW.md has it
    record,           \* _auto_triage_record; `from` is the switching on it follows (history)
    autoLabelled,     \* _auto_labelled
    stored, backlog,  \* the store's latest record; those published and not yet written
    \* The scan: where it is, when it asked, what the answer lists, which of
    \* that carried a label, what is left to decide; its two watermarks.
    pc, asked, found, foundTagged, work, watermark, behind,
    decided,          \* history: issues some scan decided,
    labels,           \* and the labels it knows it put on each, in this process
    toggles, restarts

board  == <<opened, tagged>>
memory == <<record, autoLabelled>>
store  == <<stored, backlog>>
scan   == <<pc, asked, found, foundTagged, work, watermark, behind>>
bounds == <<toggles, restarts>>
vars   == <<now, board, setting, memory, store, scan, decided, labels, bounds>>

Times   == 0..MaxTime
Records == [auto : BOOLEAN, watermark : Times, from : Times]

\* No record: the setting was never on as far as this process knows.
NoRecord == [auto |-> FALSE, watermark |-> 0, from |-> 0]

\* _record_auto_triage.
Record(r) == /\ record' = r
             /\ backlog' = Append(backlog, r)
             /\ UNCHANGED <<stored, autoLabelled>>

\* The end of the scan: nothing it read outlives it.
EndScan == /\ pc' = "idle"
           /\ asked' = 0 /\ found' = {} /\ foundTagged' = {} /\ work' = {}
           /\ watermark' = 0 /\ behind' = 0

\* The answer is oldest first.
First(i) == i \in work /\ \A j \in work : i <= j
-----------------------------------------------------------------------------
(* The tick *)

\* Mutant: switching on takes up the watermark where it was.
Resumed == [record EXCEPT !.auto = TRUE]

\* Switching on moves the watermark to the present.
SwitchedOn == [auto |-> TRUE, watermark |-> now, from |-> now]

\* settle and _settle_auto_triage: switching off leaves the watermark.
SettleSetting ==
    /\ pc = "idle" /\ setting # record.auto
    /\ IF setting THEN Record(SwitchedOn)
                  ELSE Record([record EXCEPT !.auto = FALSE])
    /\ UNCHANGED <<now, board, setting, scan, decided, labels, bounds>>

\* The read is sent: a slot is free, nothing holds, and the interval is over.
Scan ==
    /\ pc = "idle" /\ record.auto
    /\ pc' = "read"
    /\ UNCHANGED <<now, board, setting, memory, store, asked, found, foundTagged, work,
                   watermark, behind, decided, labels, bounds>>

\* A failed read, one past its page ceiling included.
ReadFails ==
    /\ pc = "read"
    /\ EndScan
    /\ UNCHANGED <<now, board, setting, memory, store, decided, labels, bounds>>

\* fetch_issues_opened_since: opened strictly after the watermark.
Listed == {i \in Issues : opened[i] > record.watermark}

\* GitHub takes its answer: those opened in the last moments are perhaps
\* not listed yet.
Read ==
    /\ pc = "read"
    /\ \E late \in SUBSET {i \in Issues : opened[i] > now - Lag} :
         found' = Listed \ late
    /\ foundTagged' = tagged \cap found'
    /\ asked' = now
    /\ pc' = "answer"
    /\ UNCHANGED <<now, board, setting, memory, store, work, watermark, behind,
                   decided, labels, bounds>>

\* `issue.created_at > settled` ends the loop, the answer being oldest first.
Settled(i) == opened[i] <= now - Settle

\* The answer arrives.
Answer ==
    /\ pc = "answer"
    /\ work' = {i \in found : Settled(i)}
    /\ watermark' = record.watermark
    /\ behind' = record.watermark
    /\ pc' = "decide"
    /\ UNCHANGED <<now, board, setting, memory, store, asked, found, foundTagged,
                   decided, labels, bounds>>

\* Mutant: what this process labelled is not remembered.
ForgetfulSkip(i) == i \in foundTagged

\* skip_reason, and "already auto-labelled".
Skip(i) == i \in foundTagged \/ i \in autoLabelled

\* Mutant: past the issues opened in the same second.
CloseBehind(i) == watermark

\* `watermark` is past what was decided; `behind` is past what was opened
\* strictly before the issue in hand.
Behind(i) == IF opened[i] > watermark THEN watermark ELSE behind

\* Issue i is decided and the scan moves on.
Pass(i) ==
    /\ work' = work \ {i}
    /\ behind' = Behind(i)
    /\ watermark' = opened[i]
    /\ decided' = decided \cup {i}

\* Mutant: an issue passed over ends the scan, and is left for the next.
StuckPassOver(i) ==
    /\ pc = "decide" /\ First(i) /\ Skip(i)
    /\ work' = {}
    /\ UNCHANGED <<now, board, setting, memory, store, pc, asked, found, foundTagged,
                   watermark, behind, decided, labels, bounds>>

PassOver(i) ==
    /\ pc = "decide" /\ First(i) /\ Skip(i)
    /\ Pass(i)
    /\ UNCHANGED <<now, board, setting, memory, store, pc, asked, found, foundTagged,
                   labels, bounds>>

Label(i) ==
    /\ pc = "decide" /\ First(i) /\ ~Skip(i)
    /\ tagged' = tagged \cup {i}
    /\ autoLabelled' = autoLabelled \cup {i}
    /\ labels' = [labels EXCEPT ![i] = IF @ < 2 THEN @ + 1 ELSE @]
    /\ Pass(i)
    /\ UNCHANGED <<now, opened, setting, record, store, pc, asked, found, foundTagged, bounds>>

\* A refused write leaves the watermark strictly before the issue; one that
\* timed out may have put the label on all the same.
LabelFails(i) ==
    /\ pc = "decide" /\ First(i) /\ ~Skip(i)
    /\ tagged' \in {tagged, tagged \cup {i}}
    /\ work' = {}
    /\ watermark' = Behind(i)
    /\ UNCHANGED <<now, opened, setting, memory, store, pc, asked, found, foundTagged, behind,
                   decided, labels, bounds>>

\* The end of the scan: a watermark that moved is recorded.
ScanDone ==
    /\ pc = "decide" /\ work = {}
    /\ IF watermark # record.watermark
       THEN Record([record EXCEPT !.watermark = watermark])
       ELSE UNCHANGED <<memory, store>>
    /\ EndScan
    /\ UNCHANGED <<now, board, setting, decided, labels, bounds>>
-----------------------------------------------------------------------------
(* The store, the process and the board *)

\* The sink writes in the order of publication ...
Write ==
    /\ backlog # <<>>
    /\ stored' = Head(backlog)
    /\ backlog' = Tail(backlog)
    /\ UNCHANGED <<now, board, setting, memory, scan, decided, labels, bounds>>

\* ... but for what the database refuses or a full queue drops.
Lose ==
    /\ backlog # <<>>
    /\ backlog' = Tail(backlog)
    /\ UNCHANGED <<now, board, setting, memory, stored, scan, decided, labels, bounds>>

\* The process dies or is redeployed; the next reads the store's record back,
\* or without an answer of the store begins afresh.
Restart ==
    /\ restarts < MaxRestarts
    /\ restarts' = restarts + 1
    /\ record' \in {stored, NoRecord}
    /\ autoLabelled' = {}
    /\ backlog' = <<>>
    /\ EndScan
    /\ labels' = [i \in Issues |-> 0]
    /\ UNCHANGED <<now, board, setting, stored, decided, toggles>>

Open(i) ==
    /\ opened[i] = 0 /\ \A j \in 1..i - 1 : opened[j] > 0
    /\ now \in 1..MaxTime - Settle
    /\ opened' = [opened EXCEPT ![i] = now]
    /\ UNCHANGED <<now, tagged, setting, memory, store, scan, decided, labels, bounds>>

\* A human puts on an issuebot label.
Tag(i) ==
    /\ opened[i] > 0 /\ i \notin tagged
    /\ tagged' = tagged \cup {i}
    /\ UNCHANGED <<now, opened, setting, memory, store, scan, decided, labels, bounds>>

\* A human or an escape takes it off.
Untag(i) ==
    /\ i \in tagged
    /\ tagged' = tagged \ {i}
    /\ UNCHANGED <<now, opened, setting, memory, store, scan, decided, labels, bounds>>

Toggle ==
    /\ toggles < MaxToggles
    /\ toggles' = toggles + 1
    /\ setting' = ~setting
    /\ UNCHANGED <<now, board, memory, store, scan, decided, labels, restarts>>

Second ==
    /\ now < MaxTime
    /\ pc = "answer" => now < asked + ReadTime
    /\ now' = now + 1
    /\ UNCHANGED <<board, setting, memory, store, scan, decided, labels, bounds>>
-----------------------------------------------------------------------------
Init ==
    /\ now = 0
    /\ opened = [i \in Issues |-> 0]
    /\ tagged = {} /\ setting = TRUE
    /\ record = NoRecord /\ autoLabelled = {}
    /\ stored = NoRecord /\ backlog = <<>>
    /\ pc = "idle" /\ asked = 0 /\ found = {} /\ foundTagged = {} /\ work = {}
    /\ watermark = 0 /\ behind = 0
    /\ decided = {} /\ labels = [i \in Issues |-> 0]
    /\ toggles = 0 /\ restarts = 0

Decide == \E i \in Issues : PassOver(i) \/ Label(i) \/ LabelFails(i)
Task   == SettleSetting \/ Scan \/ ReadFails \/ Read \/ Answer \/ Decide \/ ScanDone
Human  == Toggle \/ \E i \in Issues : Open(i) \/ Tag(i) \/ Untag(i)
Next   == Task \/ Write \/ Lose \/ Restart \/ Human \/ Second

Spec == Init /\ [][Next]_vars

\* The task runs, time passes, GitHub answers a read that is asked again and
\* again and takes a label that is written again and again.
FairSpec == /\ Spec
            /\ WF_vars(Task) /\ WF_vars(Second) /\ SF_vars(Read)
            /\ \A i \in Issues : SF_vars(Label(i))
-----------------------------------------------------------------------------
BoardTypeOK ==
    /\ now \in Times /\ opened \in [Issues -> Times] /\ tagged \subseteq Issues
    /\ setting \in BOOLEAN
    /\ decided \subseteq Issues /\ labels \in [Issues -> 0..2]
    /\ toggles \in 0..MaxToggles /\ restarts \in 0..MaxRestarts

RecordTypeOK ==
    /\ record \in Records /\ autoLabelled \subseteq Issues
    /\ stored \in Records /\ backlog \in Seq(Records)

ScanTypeOK ==
    /\ pc \in {"idle", "read", "answer", "decide"}
    /\ asked \in Times /\ found \subseteq Issues /\ foundTagged \subseteq Issues
    /\ work \subseteq found /\ \A i \in work : behind < opened[i]
    /\ watermark \in Times /\ behind \in Times

AutoTriageTypeOK == BoardTypeOK /\ RecordTypeOK /\ ScanTypeOK

\* No issue is skipped: one opened after auto-triage was switched on and at or
\* before the watermark was decided, whether GitHub listed it late, a label was
\* refused in its second, or the record was read back from the store.
NoneSkipped ==
    \A i \in Issues : opened[i] > record.from /\ opened[i] <= record.watermark => i \in decided

\* One process labels an issue once, although a refused write leaves the
\* watermark behind issues labelled in the same second and their label may be
\* off again when the next scan reads them.
LabelledOnce == \A i \in Issues : labels[i] <= 1

\* A label taken off is final: what the store's watermark has passed no process
\* labels, whichever records a crash or a full queue lost.
FinalOnceStored ==
    [][\A i \in Issues : labels'[i] > labels[i] => opened[i] > stored.watermark]_vars

\* A new issue is decided, while auto-triage stays on: neither an
\* issue passed over nor refused labels keep it waiting for ever.
NewIssuesAreDecided ==
    \A i \in Issues : (opened[i] > record.from /\ record.auto)
                      ~> (i \in decided \/ opened[i] <= record.from \/ ~record.auto)
=============================================================================
