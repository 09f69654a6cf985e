------------------------------- MODULE Approval -------------------------------
(***************************************************************************)
(* Is the text a session is given the text a human approved?  approval.py  *)
(* and the reads behind it (ghcli.approval_evidence), as the worker's two  *)
(* lanes ask (_assess_approval, with its memory of verdicts) and as        *)
(* `run-once` does.                                                        *)
(*                                                                         *)
(* One issue.  GitHub stamps what happens to it in whole seconds, so what  *)
(* happens within one second is in `log`, in its true order, but not in    *)
(* what anyone reads.  A reader polls the issue, reads the labels and the  *)
(* titles, then the bodies, and acts on them some time after; people and   *)
(* apps go on meanwhile.  The gate, the order of steps and what a session  *)
(* does are in Orchestrator and Triage.                                    *)
(***************************************************************************)
EXTENDS Integers, Sequences, FiniteSets

CONSTANTS
    Ceiling,    \* records a paginated read may return (MAX_TIMELINE_PAGES)
    MaxEvents,  \* bound: labels applied and edits made
    MaxSeconds, \* bound: the clock
    MaxFaults   \* bound: failed reads and writes, and accounts found busy

ASSUME ApprovalAssumption == Ceiling \in Nat

\* Nobody stands for an account GitHub no longer names, an app or a bot; Own
\* is the account issuebot acts as.  Labels need standing, edits authorship.
People    == {"maintainer", "guest"}
Own       == "own"
Nobody    == "nobody"
Labellers == {"maintainer", Own, Nobody}
Editors   == People

Kinds  == {"work", "triage"}
Fields == {"title", "body"}


VARIABLES
    log,     \* labels and edits in true order: what, by whom, in which second
             \* and, not for anyone to read, the text from then on
    now,     \* the clock, in seconds
    stamp,   \* the issue's updated_at
    who,     \* who asks: "worker", or "once" for run-once by hand
    kind,    \* the lane the issue is for, of the two
    label,   \* the label it wears
    author, member,  \* who opened it; whether as a maintainer, as read now
    admin,   \* Own administers the repository
    remembered,      \* _approval_verdicts, Forgotten without one
    asker,   \* where it is and what it has read
    running, \* a session runs
    faults

vars == <<log, now, stamp, who, kind, label, author, member, admin, remembered, asker, running, faults>>
issue == <<log, stamp, who, kind, label, author, member, admin>>

\* No snapshot, and no verdict remembered.
Unread    == [read |-> 0]
Forgotten == [approved |-> FALSE]

\* The label that approves a session of the lane.
Wanted == IF kind = "work" THEN "todo" ELSE "triage_todo"

\* A record of the history.  `text` names, by field, the edit the text is of
\* from then on, 0 for the one the issue was opened with; a text edited back
\* to an earlier one counts as a text of its own.
Record(what, by, text) == [what |-> what, by |-> by, at |-> now, text |-> text]
Text == log[Len(log)].text

\* The issue as a poll or a fetch reads it; `read` is history.
Snapshot == [text |-> Text, stamp |-> stamp, label |-> label, member |-> member,
             read |-> Len(log)]
Away == [at |-> "away", snap |-> Unread, timeline |-> 0]

\* The issue once its label has first been applied.  What was edited before
\* is the text it was opened with.
Init ==
    /\ who \in {"worker", "once"}
    /\ kind \in Kinds
    /\ label = Wanted
    /\ now = 0
    /\ \E by \in Labellers : log = <<Record(Wanted, by, [f \in Fields |-> 0])>>
    /\ stamp = 0
    /\ author \in IF kind = "work" THEN {"guest"} ELSE People  \* authorship is triage's
    /\ member = (author = "maintainer")
    /\ admin \in BOOLEAN
    /\ remembered = Forgotten
    /\ asker = Away
    /\ running = FALSE
    /\ faults = 0
-----------------------------------------------------------------------------
\* GitHub.

Tick ==
    /\ now < MaxSeconds
    /\ now' = now + 1
    /\ UNCHANGED <<issue, remembered, asker, running, faults>>

Happens(what, by, text) ==
    /\ Len(log) < MaxEvents
    /\ log' = Append(log, Record(what, by, text))
    /\ stamp' = now
    /\ UNCHANGED <<now, who, kind, author, member, admin, remembered, asker, running, faults>>

Label(by) ==
    /\ Happens(Wanted, by, Text)
    /\ label' = Wanted

Edit(f, by) ==
    /\ Happens(f, by, [Text EXCEPT ![f] = Len(log) + 1])
    /\ UNCHANGED label

\* The author's standing ends, which is no change of the issue.
Leaves ==
    /\ member
    /\ member' = FALSE
    /\ UNCHANGED <<log, now, stamp, who, kind, label, author, admin, remembered, asker, running, faults>>
-----------------------------------------------------------------------------
\* What approves.  The evidence is the labels and titles among the first
\* `timeline` records and the bodies among the first `bodies`.

Named(n) == {i \in 1..n : log[i].what = Wanted /\ log[i].by # Nobody}
Approvals(n) == {i \in Named(n) : log[i].by # Own \/ admin}
Edits(timeline, bodies) == {i \in 1..timeline : log[i].what = "title"}
                              \cup {i \in 1..bodies : log[i].what = "body"}

\* The greatest stamp, and the first listed of several.
IsLatest(i, ls) == i \in ls /\ \A j \in ls :
                       log[j].at < log[i].at \/ (log[j].at = log[i].at /\ i <= j)

\* Mutant: an edit in the second of the label was there when it went on.
NotSince(e, i) == log[e].at <= log[i].at

\* An edit that came before the label, as far as the stamps tell.
Before(e, i) == log[e].at < log[i].at

\* assess: every edit since the latest label is its approver's own.
Assess(timeline, bodies) ==
    \E i \in Approvals(timeline) :
        /\ IsLatest(i, Approvals(timeline))
        /\ \A e \in Edits(timeline, bodies) : Before(e, i) \/ log[e].by = log[i].by

\* assess_authorship, of an issue opened by a named account: a maintainer's,
\* which nobody else has edited.
AssessAuthorship(snap, timeline, bodies) ==
    /\ snap.member
    /\ \A e \in Edits(timeline, bodies) : log[e].by = author

\* assess_triage: authorship is asked where issuebot's own label is the latest,
\* a person's of the same second before it.
AssessTriage(snap, timeline, bodies) ==
    \/ Assess(timeline, bodies)
    \/ LET own     == {i \in Named(timeline) : log[i].by = Own}
           persons == Named(timeline) \ own
       IN /\ \E i \in own : \A j \in persons : log[j].at < log[i].at
          /\ AssessAuthorship(snap, timeline, bodies)

\* _paginate, past its ceiling: nobody can say what was approved.
TooLong(timeline, bodies) ==
    \/ Cardinality({i \in 1..timeline : log[i].what # "body"}) > Ceiling
    \/ Cardinality({i \in 1..bodies : log[i].what = "body"}) > Ceiling

Approved(a, bodies) ==
    /\ ~TooLong(a.timeline, bodies)
    /\ IF kind = "work" THEN Assess(a.timeline, bodies)
                        ELSE AssessTriage(a.snap, a.timeline, bodies)
-----------------------------------------------------------------------------
\* The askers.

\* Of the two only one asks: what the other would do to the issue meanwhile
\* is among what people may.
At(at) == asker' = IF at = "away" THEN Away ELSE [asker EXCEPT !.at = at]
Fault == faults < MaxFaults /\ faults' = faults + 1

\* A tick finds the issue among the candidates of its lane, and not running;
\* or run-once, with or without --triage, fetches it.
Ask ==
    /\ asker.at = "away"
    /\ label # "none"
    /\ who = "worker" => ~running
    /\ asker' = [at |-> "polled", snap |-> Snapshot, timeline |-> 0]
    /\ UNCHANGED <<issue, now, remembered, running, faults>>

\* What a verdict is remembered under.
Key(a) == [stamp |-> a.snap.stamp, text |-> a.snap.text, member |-> a.snap.member]

Answer(yes) == IF yes THEN "granted" ELSE "refused"

Known == who = "worker" /\ remembered # Forgotten /\ remembered.key = Key(asker)

\* _assess_approval: the issue is as it was when it was last read.
Remembers ==
    /\ asker.at = "polled"
    /\ Known
    /\ At(Answer(remembered.approved))
    /\ UNCHANGED <<issue, now, remembered, running, faults>>

ReadTimeline ==
    /\ asker.at = "polled"
    /\ ~Known
    /\ asker' = [asker EXCEPT !.at = "reading", !.timeline = Len(log)]
    /\ UNCHANGED <<issue, now, remembered, running, faults>>

\* Mutant: a history too long to read is a read that failed.
ReadEditsAgain ==
    /\ asker.at = "reading"
    /\ LET yes == Approved(asker, Len(log))
       IN /\ At(IF TooLong(asker.timeline, Len(log)) THEN "away" ELSE Answer(yes))
          /\ remembered' = IF who = "worker" /\ ~TooLong(asker.timeline, Len(log))
                           THEN [key |-> Key(asker), approved |-> yes] ELSE remembered
    /\ UNCHANGED <<issue, now, running, faults>>

\* The second read, and the verdict with it.  A worker remembers it.
ReadEdits ==
    /\ asker.at = "reading"
    /\ LET yes == Approved(asker, Len(log))
       IN /\ At(Answer(yes))
          /\ remembered' = IF who = "worker"
                           THEN [key |-> Key(asker), approved |-> yes] ELSE remembered
    /\ UNCHANGED <<issue, now, running, faults>>

\* Either read fails: the issue waits for the next tick, the command ends.
ReadFails ==
    /\ asker.at = "reading"
    /\ Fault
    /\ At("away")
    /\ UNCHANGED <<issue, now, remembered, running>>

\* unapproved_escape and _triage_hand_back: the label comes off, whatever
\* went on since; the verdict is spent.
HandBack ==
    /\ who = "worker"
    /\ asker.at = "refused"
    /\ label' = "none"
    /\ stamp' = IF label' = label THEN stamp ELSE now
    /\ remembered' = Forgotten
    /\ At("away")
    /\ UNCHANGED <<log, now, who, kind, author, member, admin, running, faults>>

\* The write fails, applied or not: the verdict is kept for the next tick.
HandBackFails ==
    /\ who = "worker"
    /\ asker.at = "refused"
    /\ Fault
    /\ label' \in {label, "none"}
    /\ stamp' = IF label' = label THEN stamp ELSE now
    /\ At("away")
    /\ UNCHANGED <<log, now, who, kind, author, member, admin, remembered, running>>

\* run-once says why and leaves the label where it is.
Refused ==
    /\ who = "once"
    /\ asker.at = "refused"
    /\ At("away")
    /\ UNCHANGED <<issue, now, remembered, running, faults>>

\* The account is another session's (_bind_account, _with_bound_account).
AccountBusy ==
    /\ asker.at = "granted"
    /\ Fault
    /\ At("away")
    /\ UNCHANGED <<issue, now, remembered, running>>

\* The claim of a work run, unless the issue was in progress when it was read;
\* then the session starts on the issue as it was polled.
Claims == kind = "work" /\ asker.snap.label # "in_progress"

Start ==
    /\ asker.at = "granted"
    /\ label' = IF Claims THEN "in_progress" ELSE label
    /\ stamp' = IF Claims THEN now ELSE stamp
    /\ running' = TRUE
    /\ At("away")
    /\ UNCHANGED <<log, now, who, kind, author, member, admin, remembered, faults>>

ClaimFails ==
    /\ asker.at = "granted"
    /\ Claims
    /\ Fault
    /\ At("away")
    /\ UNCHANGED <<issue, now, remembered, running>>

\* The sessions end: their labels go, or stay for another run.
End ==
    /\ running
    /\ running' = FALSE
    /\ label' \in {label, "none"}
    /\ stamp' = now
    /\ UNCHANGED <<log, now, who, kind, author, member, admin, remembered, asker, faults>>

\* The worker is restarted: what it remembers is gone, its sessions with it.
Restart ==
    /\ remembered # Forgotten
    /\ Fault
    /\ remembered' = Forgotten
    /\ running' = FALSE
    /\ At("away")
    /\ UNCHANGED <<issue, now>>

Board ==
    \/ Tick \/ Leaves \/ End
    \/ \E by \in Labellers : Label(by)
    \/ \E f \in Fields, by \in Editors : Edit(f, by)

Askers ==
    \/ Ask \/ Remembers \/ ReadTimeline \/ ReadEdits \/ ReadFails
    \/ HandBack \/ HandBackFails \/ Refused
    \/ AccountBusy \/ Start \/ ClaimFails

Next ==
    \/ Board
    \/ Askers \/ Restart

Spec == Init /\ [][Next]_vars

\* The worker goes on with its ticks, and a session ends.
FairSpec == Spec /\ WF_vars(Askers) /\ WF_vars(End)
-----------------------------------------------------------------------------
\* A label that approves a session of the lane.
Approves(i) == i \in Approvals(Len(log))

\* Each part of a text is as it was when the label went on, or was written
\* since by the one who applied it.
OfLabel(text, i) ==
    \A f \in Fields : \/ text[f] = log[i].text[f]
                      \/ text[f] > i /\ log[text[f]].by = log[i].by

\* A maintainer's own words, none else's.
OfAuthor(a) == a.snap.member /\ \A f \in Fields :
                   a.snap.text[f] = 0 \/ log[a.snap.text[f]].by = author

\* No session, of either lane or of run-once, starts on a text that was never
\* approved: as it was read, it is the text of some approving label, with no
\* edits but the approver's since, or, for a label of issuebot's own on an
\* issue to triage, its maintaining author's alone.  The seconds of the
\* stamps, the memory of verdicts and the order of the reads are what could
\* break it.  A label applied again after the poll is taken to mean that text.
RunsApproved ==
    asker.at = "granted" =>
        \/ \E i \in 1..Len(log) :
              /\ Approves(i)
              /\ i > asker.snap.read \/ OfLabel(asker.snap.text, i)
        \/ kind = "triage" /\ OfAuthor(asker)

\* No issue sits on the board with a label that the approval check neither
\* grants nor takes off: not one too long to read, not one refused before.
LabelsAnswered == (who = "worker" /\ label # "none") ~> (label = "none" \/ running)
=============================================================================
