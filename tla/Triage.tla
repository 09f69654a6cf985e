-------------------------------- MODULE Triage --------------------------------
(***************************************************************************)
(* The triage lane of one issue: a triage session judges it, the worker    *)
(* files the verdict as sub-issues and labels, and once every step of a    *)
(* split parent has closed a parent review decides what follows            *)
(* (orchestrator/orchestrator.py, orchestrator/triage.py,                  *)
(* orchestrator/parent_review.py, orchestrator/actions.py).                *)
(*                                                                         *)
(* The session writes nothing: the worker does, one GitHub request after   *)
(* another, and each may fail, or be applied and still report a failure.   *)
(* A verdict GitHub refused is kept in memory and tried again next tick.   *)
(* Meanwhile a human relabels, closes or reopens the issue and its steps,  *)
(* and the process may die between any two requests; of what it remembers  *)
(* only a parent's record is written down, and that late.                  *)
(*                                                                         *)
(* One action per request: what GitHub does, and what the worker decides   *)
(* on the answer up to its next request.                                   *)
(***************************************************************************)
EXTENDS Integers, Sequences, FiniteSets, TLC, SequencesExt

CONSTANTS
    Titles,       \* 1..k: the titles a verdict's drafts take, in order
    Operator,     \* those that are operator steps
    MaxAttempts,  \* agent.max_attempts
    MaxReviews,   \* triage.max_parent_reviews
    MaxGaps,      \* triage.max_gap_rounds
    MaxSteps,     \* the sub-issues GitHub takes before it refuses more
    MaxActs,      \* bound: what humans do, closing a step apart
    MaxFaults,    \* bound: failed requests, refused admissions, failed sessions
    MaxRestarts   \* bound: crashes and restarts

ASSUME TriageAssumption ==
    /\ IsFiniteSet(Titles) /\ Titles # {} /\ Titles = 1..Cardinality(Titles)
    /\ Operator \subseteq Titles
    /\ MaxAttempts \in Nat \ {0} /\ MaxReviews \in Nat /\ MaxGaps \in Nat
    /\ MaxSteps \in Nat /\ MaxActs \in Nat /\ MaxFaults \in Nat /\ MaxRestarts \in Nat

VARIABLES
    \* GitHub: the issue, its labels, its sub-issues in order, the numbers given out.
    state, labels, steps, numbered,
    run,                 \* the issue's session: its kind, what it was started on, its stop
    verdict, review,     \* _triage_pending and _parent_pending
    failures, waiting,   \* _triage_failures; whether _triage_not_before is to come
    escape, note,        \* _triage_escapes and _parent_handovers
    record, stored,      \* _parents; the store's latest parent_review_state of it
    phase, pc,           \* the part of the tick; the request about to be sent
    filing,              \* the verdict being filed
    why,                 \* what a hand-back or hand-over is for
    subs,                \* the issue in hand has sub-issues, as it was read
    seen, found, at,     \* the steps read; the children a filing matches; its draft
    batches,             \* history: verdicts so far, naming the steps each filed,
    handed,              \* whether the parent is a human's, as this process was told,
                         \* and no verdict filed since took it back,
    acted, gaps,         \* reviews and gap rounds acted on since a human last touched the
                         \* issue itself or a triage session's verdict was filed,
    vain,                \* sessions failed since then, since a human was told by a note or by
                         \* `triage_todo` coming off, or since the note owed was dropped,
    acts, faults, restarts

github  == <<state, labels, steps, numbered>>
pending == <<verdict, review>>
chain   == <<failures, waiting, escape, note>>
memory  == <<run, pending, chain, record>>
inHand  == <<filing, why, subs, seen, found, at>>
control == <<phase, pc, inHand>>
history == <<batches, handed, acted, gaps, vain>>
bounds  == <<acts, faults, restarts>>
vars    == <<github, memory, stored, control, history, bounds>>

\* The issue's labels; `work` stands for every state label but `complete`.
TriageLabels == {"triage_todo", "triage_complete"}
StateLabels  == {"work", "complete"}
Labels       == TriageLabels \cup StateLabels

Filings == {"split", "next", "gap"}           \* the verdicts that file sub-issues
Verdict(kind, drafts, known, counted) ==
    [kind |-> kind, drafts |-> drafts, seen |-> known, counts |-> counted, subs |-> run.subs,
     batch |-> batches + 1, swapped |-> FALSE, tries |-> 0]
NoVerdict == [kind |-> "none", drafts |-> 0, seen |-> <<>>, counts |-> <<0, 0>>,
              subs |-> FALSE, batch |-> 0, swapped |-> FALSE, tries |-> 0]
NoRun     == [kind |-> "none", subs |-> FALSE, seen |-> <<>>, stop |-> "none",
              ended |-> FALSE]
NoParent  == [known |-> FALSE, reviews |-> 0, gaps |-> 0, handed |-> FALSE,
              finished |-> FALSE]
Parent    == [NoParent EXCEPT !.known = TRUE]

OfReview(v) == v.kind \in {"met", "next", "gap"}
Numbers(s)  == [k \in DOMAIN s |-> s[k].n]
AllClosed   == \A k \in DOMAIN steps : ~steps[k].open

\* is_triage_candidate.
Candidate == /\ state = "open"
             /\ "triage_todo" \in labels
             /\ labels \cap StateLabels = {}

\* Mutant: a parent handed over is watched on.
WatchedStill(r) == r.known /\ ~r.finished

\* ParentRecord.watched, of a parent the worker knows.
Watched(r) == r.known /\ ~r.handed /\ ~r.finished

\* parent_review_due.
ParentReviewDue == /\ state = "open"
                   /\ labels = {"triage_complete"}
                   /\ steps # <<>> /\ AllClosed

\* past_gap_limit, decided with the counts at the review's end.
PastGapLimit(v) == v.kind = "gap" /\ v.counts[2] > MaxGaps

Init ==
    /\ state = "open" /\ labels = {"triage_todo"} /\ steps = <<>> /\ numbered = 0
    /\ run = NoRun /\ verdict = NoVerdict /\ review = NoVerdict
    /\ failures = 0 /\ waiting = FALSE /\ escape = FALSE /\ note = FALSE
    /\ record = NoParent /\ stored = NoParent
    /\ phase = "idle" /\ pc = "none"
    /\ filing = NoVerdict /\ why = "none" /\ subs = FALSE
    /\ seen = <<>> /\ found = <<>> /\ at = 0
    /\ batches = 0 /\ handed = FALSE /\ acted = 0 /\ gaps = 0 /\ vain = 0
    /\ acts = 0 /\ faults = 0 /\ restarts = 0
-----------------------------------------------------------------------------
(* Moving on *)

Fault == faults < MaxFaults /\ faults' = faults + 1 /\ UNCHANGED <<acts, restarts>>

\* The requests of this part of the tick are over.
Enter(p) == /\ phase' = p /\ pc' = "none"
            /\ filing' = NoVerdict /\ why' = "none" /\ subs' = FALSE
            /\ seen' = <<>> /\ found' = <<>> /\ at' = 0

\* The tick's order; a session's exit is handled between ticks.
After == CASE phase = "exit" -> "idle"
           [] phase = "refresh" -> "triage"
           [] phase = "triage" -> "review"
           [] phase = "review" -> "candidates"
           [] phase = "candidates" -> "watch"
           [] phase = "watch" -> "idle"
Done == Enter(After)

\* The next request of the same part, keeping what is in hand.
Ask(request) == /\ pc' = request
                /\ UNCHANGED <<phase, filing, why, subs, seen, found, at>>

\* _forget_triage_chain.
ForgetChain == failures' = 0 /\ waiting' = FALSE /\ escape' = FALSE /\ note' = FALSE

Keep(v)  == IF OfReview(v) THEN review' = v /\ UNCHANGED verdict
                           ELSE verdict' = v /\ UNCHANGED review
Drop(v)  == IF OfReview(v) THEN review' = NoVerdict /\ UNCHANGED verdict
                           ELSE verdict' = NoVerdict /\ UNCHANGED review
-----------------------------------------------------------------------------
(* Handing the issue to a human *)

\* A hand-back of the issue in hand: _triage_hand_back hands a parent over.
HandBackFor(reason, parent) ==
    /\ pc' = IF parent THEN "hand_over" ELSE "hand_back"
    /\ why' = reason
    /\ UNCHANGED <<phase, filing, subs, seen, found, at>>

\* What a hand-back that did not reach GitHub leaves to be done.
HandBackRefused ==
    /\ escape' = (why = "failed" \/ escape)
    /\ UNCHANGED <<run, pending, failures, waiting, note, record>>

\* triage_escape landed: the chain is over, and the verdict it was for.
HandedBack ==
    /\ ForgetChain
    /\ IF why = "verdict" THEN Drop(filing) ELSE UNCHANGED pending
    /\ UNCHANGED <<run, record>>

\* triage_escape: `triage_todo` off, and a note.
HandBack ==
    /\ pc = "hand_back"
    /\ \/ /\ labels' = labels \ {"triage_todo"} /\ HandedBack /\ vain' = 0 /\ UNCHANGED bounds
       \/ /\ labels' \in {labels, labels \ {"triage_todo"}} /\ HandBackRefused
          /\ vain' = (IF labels' = labels THEN vain ELSE 0) /\ Fault
    /\ Done
    /\ UNCHANGED <<state, steps, numbered, stored, batches, handed, acted, gaps>>

\* _hand_over_at_gap_limit counts the review on the record it has just handed over.
CountedAfter == [record EXCEPT !.known = TRUE, !.handed = TRUE, !.reviews = record.reviews + 1]

\* Mutant: a hand-over GitHub refused is not owed.
NothingOwed == UNCHANGED note

\* A hand-over GitHub refused is owed, but for a verdict's, which is tried again itself; and
\* the note owed from before is dropped with it.
Owed == note' = (why # "verdict")

HandOverRefused ==
    /\ IF why = "waiting" THEN UNCHANGED note ELSE Owed
    /\ record' = IF why = "gap_limit" THEN [record EXCEPT !.known = TRUE,
                                                          !.reviews = record.reviews + 1]
                                      ELSE record
    /\ vain' = IF why = "verdict" /\ note THEN 0 ELSE vain
    /\ UNCHANGED <<run, pending, failures, waiting, escape, handed>>

\* _hand_over_parent landed; a note to wait is no hand-over.
HandedOver ==
    IF why = "waiting"
    THEN UNCHANGED <<run, pending, chain, record, handed, vain>>
    ELSE /\ record' = IF why = "gap_limit" THEN CountedAfter
                      ELSE [record EXCEPT !.known = TRUE, !.handed = TRUE]
         /\ handed' = TRUE /\ vain' = 0
         /\ ForgetChain
         /\ IF why \in {"verdict", "review"} THEN Drop(filing) ELSE UNCHANGED pending
         /\ UNCHANGED run

\* parent_hand_over: `triage_complete` back as `triage_todo` goes, and a note.
Held == (labels \ {"triage_todo"}) \cup {"triage_complete"}
HandOver ==
    /\ pc = "hand_over"
    /\ \/ /\ labels' = Held /\ HandedOver /\ UNCHANGED bounds
       \/ /\ labels' \in {labels, Held} /\ HandOverRefused /\ Fault
    /\ Done
    /\ UNCHANGED <<state, steps, numbered, stored, batches, acted, gaps>>
-----------------------------------------------------------------------------
(* Filing a verdict: _file_verdict, apply_verdict, _file_parent_review and  *)
(* apply_parent_review, from the session's exit or from the tick's retry    *)

\* The tick's retry of what GitHub refused, once each; nothing owed, the next part.
Retry ==
    /\ phase \in {"triage", "review"} /\ pc = "none"
    /\ LET v == IF phase = "triage" THEN verdict ELSE review IN
         IF v.kind = "none" THEN Done
         ELSE /\ filing' = v /\ pc' = "owed"
              /\ UNCHANGED <<phase, why, subs, seen, found, at>>
    /\ UNCHANGED <<github, memory, stored, history, bounds>>

\* Mutant: the hand-back uses the issue as the verdict's session was given it.
HandBackUnread == HandBackFor("verdict", filing.subs)

\* A split may have filed steps before GitHub refused the rest: the issue is read again.
HandBackVerdict == IF filing.kind = "split" THEN Ask("hand_read")
                   ELSE HandBackFor("verdict", filing.subs)

\* A retry counts, the first filing does not.
Tried == [filing EXCEPT !.tries = IF phase = "exit" THEN @ ELSE @ + 1]

\* The try failed: the verdict is kept, with whether its swap landed, and the last retry
\* hands the issue back.
TryFails ==
    LET v == Tried IN
    /\ Keep(v)
    /\ IF phase = "exit" \/ v.tries < MaxAttempts THEN Done
       ELSE IF OfReview(v) THEN HandBackFor("review", TRUE)
       ELSE HandBackVerdict
    /\ UNCHANGED <<run, chain, record, stored, history>>

\* The verdict is owed no longer: dropped, and with a closed issue its whole chain.
Discard ==
    /\ Drop(filing)
    /\ IF state = "open" THEN UNCHANGED chain ELSE ForgetChain
    /\ Done

\* The first request of the filing itself.
Begin == CASE filing.kind \in Filings -> "list"
           [] filing.kind = "fits" -> "swap"
           [] filing.kind = "met" -> IF filing.swapped THEN "comment" ELSE "met"

\* _verdict_owed, the issue read again: still a candidate, or swapped and open.
VerdictOwed == Candidate \/ (filing.swapped /\ state = "open")

\* _parent_review_owed, up to the steps: a `met` owns `complete`, and the close under it.
Own == IF filing.kind = "met" THEN {"complete"} ELSE {}
ReviewOnTrack == /\ state = "open"
                 /\ labels \cap StateLabels \subseteq Own
                 /\ labels \cap TriageLabels # {}
CloseUnderError == state = "closed" /\ Own # {} /\ Own \subseteq labels

OwedRead ==
    /\ pc = "owed"
    /\ \/ /\ IF OfReview(filing)
             THEN IF filing.swapped \/ CloseUnderError
                  THEN Ask(Begin) /\ UNCHANGED memory
                  ELSE IF ReviewOnTrack THEN Ask("steps") /\ UNCHANGED memory
                  ELSE Discard /\ UNCHANGED <<run, record>>
             ELSE IF VerdictOwed THEN Ask(Begin) /\ UNCHANGED memory
                  ELSE Discard /\ UNCHANGED <<run, record>>
          /\ UNCHANGED <<stored, history, bounds>>
       \/ TryFails /\ Fault
    /\ UNCHANGED github

\* steps_as_seen: the steps the review saw, all closed, then only its own filing's.
StepsAsSeen ==
    LET known == Len(filing.seen)
        own   == IF PastGapLimit(filing) \/ filing.kind = "met" THEN {} ELSE 1..filing.drafts
    IN /\ Len(steps) >= known
       /\ SubSeq(Numbers(steps), 1, known) = filing.seen
       /\ \A k \in 1..known : ~steps[k].open
       /\ \A k \in known + 1..Len(steps) : steps[k].title \in own

\* The steps' own read. Past the gap limit the parent is handed over in place of the filing,
\* and the verdict is acted on whether or not GitHub takes the note.
StepsRead ==
    /\ pc = "steps"
    /\ \/ /\ IF ~StepsAsSeen THEN Drop(filing) /\ Done /\ UNCHANGED <<acted, vain>>
             ELSE IF PastGapLimit(filing)
             THEN Drop(filing) /\ HandBackFor("gap_limit", TRUE) /\ acted' = acted + 1 /\ vain' = 0
             ELSE Ask(Begin) /\ UNCHANGED <<pending, acted, vain>>
          /\ UNCHANGED <<run, chain, record, stored, batches, handed, gaps, bounds>>
       \/ TryFails /\ Fault
    /\ UNCHANGED github

\* _retry_pending_verdicts' own read before it hands a split back; failed, all is kept.
HandRead ==
    /\ pc = "hand_read"
    /\ \/ HandBackFor("verdict", steps # <<>>) /\ UNCHANGED bounds
       \/ Done /\ Fault
    /\ UNCHANGED <<github, memory, stored, history>>

\* Mutant: what an earlier try filed is not looked up.
NoChildren == {}

\* The children a filing matches by title: a review's, those it did not see.
Children == LET known == IF OfReview(filing) THEN ToSet(filing.seen) ELSE {}
            IN {k \in DOMAIN steps : steps[k].n \notin known}

\* `existing`: the child of each title, the last listed where several share one.
Existing(ks) ==
    [t \in {steps[k].title : k \in ks} |->
        LET n == CHOOSE k \in ks : /\ steps[k].title = t
                                   /\ \A l \in ks : steps[l].title = t => l <= k
        IN steps[n].n]

\* The drafts after the k-th that still need a request, `have` being the children found or
\* made so far: a draft with no child is created, an operator one is labelled either way.
Needing(k, have) == {t \in 1..filing.drafts : t > k /\ (t \notin DOMAIN have \/ t \in Operator)}
OnToDraft(k, have) ==
    LET left == Needing(k, have) IN
    \/ /\ left = {}
       /\ pc' = "swap" /\ at' = 0 /\ found' = <<>>
       /\ UNCHANGED <<phase, filing, why, subs, seen>>
    \/ \E t \in left :
          /\ \A u \in left : t <= u
          /\ pc' = IF t \in DOMAIN have THEN "mark" ELSE "create"
          /\ at' = t /\ found' = have
          /\ UNCHANGED <<phase, filing, why, subs, seen>>

List ==
    /\ pc = "list"
    /\ \/ /\ OnToDraft(0, Existing(Children))
          /\ UNCHANGED <<memory, stored, history, bounds>>
       \/ TryFails /\ Fault
    /\ UNCHANGED github

\* create_sub_issue: one mutation makes the issue and links it last.
Created == /\ numbered' = numbered + 1
           /\ steps' = Append(steps, [n |-> numbered + 1, title |-> at, by |-> filing.batch,
                                      open |-> TRUE, operator |-> FALSE])
           /\ UNCHANGED <<state, labels>>

\* The children of the titles, the one made for the draft in hand among them.
WithChild(n) == [t \in {at} \cup DOMAIN found |-> IF t = at THEN n ELSE found[t]]

\* The operator label is put on every operator draft's child, found or made.
MarkNext(have) == IF at \in Operator
                  THEN /\ pc' = "mark" /\ found' = have
                       /\ UNCHANGED <<phase, filing, why, subs, seen, at>>
                  ELSE OnToDraft(at, have)

Create ==
    /\ pc = "create"
    /\ \/ /\ numbered < MaxSteps /\ Created /\ MarkNext(WithChild(numbered + 1))
          /\ UNCHANGED <<memory, stored, history, bounds>>
       \/ ((numbered < MaxSteps /\ Created) \/ UNCHANGED github) /\ TryFails /\ Fault
       \* GitHub takes so many sub-issues and no more.
       \/ numbered = MaxSteps /\ TryFails /\ UNCHANGED <<github, bounds>>

\* edit_labels(child, add=[operator_step]).
Marked == /\ steps' = [k \in DOMAIN steps |->
                          IF steps[k].n = found[at] THEN [steps[k] EXCEPT !.operator = TRUE]
                                                    ELSE steps[k]]
          /\ UNCHANGED <<state, labels, numbered>>
Mark ==
    /\ pc = "mark"
    /\ \/ /\ Marked /\ OnToDraft(at, found)
          /\ UNCHANGED <<memory, stored, history, bounds>>
       \/ (Marked \/ UNCHANGED github) /\ TryFails /\ Fault

\* What a review counts once it is acted on: shown by the move it makes.
Acted == /\ acted' = IF OfReview(filing) /\ ~filing.swapped THEN acted + 1 ELSE acted
         /\ gaps' = IF filing.kind = "gap" /\ ~filing.swapped THEN gaps + 1 ELSE gaps
         /\ vain' = 0
         /\ UNCHANGED <<batches, handed>>

\* on_swapped and on_moved: from here only the comment is missing.
Moved == /\ filing' = [filing EXCEPT !.swapped = TRUE]
         /\ pc' = "comment"
         /\ UNCHANGED <<phase, why, subs, seen, found, at>>

\* The label swap; repeated on a retry.
Swap ==
    /\ pc = "swap"
    /\ \/ /\ labels' = Held /\ Moved /\ Acted
          /\ UNCHANGED <<memory, stored, bounds>>
       \/ labels' \in {labels, Held} /\ TryFails /\ Fault
    /\ UNCHANGED <<state, steps, numbered>>

\* A `met`: its labels, and then the close.
Met ==
    /\ pc = "met"
    /\ LET met == Held \cup {"complete"} IN
         \/ labels' = met /\ Ask("close") /\ UNCHANGED <<memory, stored, history, bounds>>
         \/ labels' \in {labels, met} /\ TryFails /\ Fault
    /\ UNCHANGED <<state, steps, numbered>>

Close ==
    /\ pc = "close"
    /\ \/ state' = "closed" /\ Moved /\ Acted /\ UNCHANGED <<memory, stored, bounds>>
       \/ state' \in {state, "closed"} /\ TryFails /\ Fault
    /\ UNCHANGED <<labels, steps, numbered>>

\* The record a filed review brings the parent to.
Counted == [Parent EXCEPT !.reviews = filing.counts[1], !.gaps = filing.counts[2],
                          !.finished = filing.kind = "met"]

\* The comment is last, and with it the verdict is filed: a split's parent is watched from
\* here on, a `fits` ends the watch of a former one.
Comment ==
    /\ pc = "comment"
    /\ \/ /\ Drop(filing) /\ ForgetChain /\ Done
          /\ record' = CASE OfReview(filing) -> Counted
                         [] filing.kind = "split" -> Parent
                         [] filing.kind = "fits" -> [record EXCEPT !.finished = record.known]
          /\ handed' = (handed /\ filing.kind = "fits")
          /\ IF OfReview(filing) THEN UNCHANGED <<acted, gaps, vain>>
                                 ELSE acted' = 0 /\ gaps' = 0 /\ vain' = 0
          /\ UNCHANGED <<run, stored, batches, bounds>>
       \/ TryFails /\ Fault
    /\ UNCHANGED github
-----------------------------------------------------------------------------
(* Starting sessions *)

\* The gate or the approval check refuses what nothing here decides: a slot, a hold, an
\* unreadable history, an account to wait for.
Passed == Done /\ Fault /\ UNCHANGED <<memory, history>>

Start(kind, known) ==
    /\ run' = [kind |-> kind, subs |-> subs, seen |-> known, stop |-> "none", ended |-> FALSE]
    /\ Done
    /\ UNCHANGED <<pending, chain, history, bounds>>

\* _drop_owed_notes_taken_back: neither pass that writes a note would reach this one.
TakenBack == /\ ~Candidate /\ verdict.kind = "none" /\ review.kind = "none"
             /\ ~Watched(record)

Busy == run.kind # "none" \/ verdict.kind # "none" \/ review.kind # "none"

\* _dispatch_triage on the candidates' read: an owed note first, then the backoff, an owed
\* escape, and the gate with its approval check.
CandidatesRead ==
    /\ phase = "candidates" /\ pc = "none"
    /\ \/ /\ escape' = (escape /\ ~TakenBack)
          /\ note' = (note /\ ~TakenBack)
          /\ UNCHANGED <<run, pending, failures, waiting, record>>
          /\ IF ~Candidate \/ Busy \/ (waiting /\ ~note) THEN Done
             ELSE /\ subs' = (steps # <<>>)
                  /\ pc' = CASE note -> "hand_over"
                             [] ~note /\ ~escape -> "approval"
                             [] OTHER -> IF steps = <<>> THEN "hand_back" ELSE "hand_over"
                  /\ why' = CASE note -> "note" [] ~note /\ escape -> "failed" [] OTHER -> "none"
                  /\ UNCHANGED <<phase, filing, seen, found, at>>
          /\ UNCHANGED <<history, bounds>>
       \/ Passed
    /\ UNCHANGED <<github, stored>>

\* _dispatch_triage_one: over budget or unapproved it is handed back; with sub-issues it is
\* a review, and their own read follows.
Approval ==
    /\ phase = "candidates" /\ pc = "approval"
    /\ \/ /\ HandBackFor("refused", subs) /\ Fault /\ UNCHANGED <<memory, history>>
       \/ subs /\ Ask("sub_issues") /\ UNCHANGED <<memory, history, bounds>>
       \/ ~subs /\ Start("triage", <<>>) /\ UNCHANGED record
       \/ Passed
    /\ UNCHANGED <<github, stored>>

\* Mutant: a request with steps still open is left until they close.
LeaveRequest == Done

\* With a step open there is nothing to review: `triage_complete` goes back, and a note.
AskToWait == HandBackFor("waiting", TRUE)

\* _dispatch_requested_review: a human asked, so the record starts afresh either way.
RequestedReview ==
    /\ pc = "sub_issues"
    /\ \/ IF steps = <<>> THEN Start("triage", <<>>) /\ UNCHANGED record
          ELSE /\ record' = Parent
               /\ IF AllClosed THEN Start("parent_review", Numbers(steps))
                  ELSE /\ AskToWait
                       /\ UNCHANGED <<run, pending, chain, history, bounds>>
       \/ Passed
    /\ UNCHANGED <<github, stored>>

\* _dispatch_parent_reviews on the watched parents' steps.
WatchRead ==
    /\ phase = "watch" /\ pc = "none"
    /\ \/ /\ IF ~Watched(record) THEN Done /\ UNCHANGED <<chain, record>>
             ELSE IF state = "closed"
             THEN record' = [record EXCEPT !.finished = TRUE] /\ ForgetChain /\ Done
             ELSE /\ UNCHANGED <<chain, record>>
                  /\ IF run.kind # "none" \/ review.kind # "none" THEN Done
                     ELSE IF note \/ (ParentReviewDue /\ ~waiting)
                     THEN /\ pc' = "issues" /\ seen' = Numbers(steps)
                          /\ why' = IF note THEN "note" ELSE "none"
                          /\ UNCHANGED <<phase, filing, subs, found, at>>
                     ELSE Done
          /\ UNCHANGED <<run, pending, history, bounds>>
       \/ Passed
    /\ UNCHANGED <<github, stored>>

\* At its cap a parent is handed over, and no session starts.
OverCap == HandBackFor("limit", TRUE)

\* The parent's issue: an owed note is written, the cap is looked at before the gate.
WatchIssues ==
    /\ pc = "issues"
    /\ \/ /\ CASE why = "note" -> Ask("hand_over")
               [] why # "note" /\ record.reviews >= MaxReviews -> OverCap
               [] OTHER -> /\ pc' = "approval" /\ subs' = (steps # <<>>)
                           /\ UNCHANGED <<phase, filing, why, seen, found, at>>
          /\ UNCHANGED <<memory, history, bounds>>
       \/ Passed
    /\ UNCHANGED <<github, stored>>

\* _dispatch_parent_review_one.
WatchApproval ==
    /\ phase = "watch" /\ pc = "approval"
    /\ \/ HandBackFor("refused", TRUE) /\ Fault /\ UNCHANGED <<memory, history>>
       \/ Start("parent_review", seen) /\ UNCHANGED record
       \/ Passed
    /\ UNCHANGED <<github, stored>>
-----------------------------------------------------------------------------
(* The loop and the sessions *)

\* A tick starts; the sessions that ended before it were handled in the wait.  Parts with
\* nothing to do send nothing.
Tick ==
    /\ phase = "idle" /\ ~run.ended
    /\ Enter(CASE run.kind # "none" -> "refresh"
              [] run.kind = "none" /\ pending # <<NoVerdict, NoVerdict>> -> "triage"
              [] OTHER -> "candidates")
    /\ UNCHANGED <<github, memory, stored, history, bounds>>

\* What a refresh stops a session for.
StopFor ==
    IF state = "closed" THEN "gone"
    ELSE IF \/ labels \cap StateLabels # {}
            \/ run.kind = "triage" /\ "triage_todo" \notin labels
            \/ run.kind = "parent_review" /\ labels \cap TriageLabels = {}
         THEN "moved" ELSE "none"

\* _refresh_running: the issue as read replaces the one the session was started on, but for
\* a closed one; a stop stays.
Refresh ==
    /\ phase = "refresh"
    /\ \/ /\ run' = [run EXCEPT !.stop = IF @ = "gone" \/ StopFor = "none" THEN @ ELSE StopFor,
                                !.subs = IF state = "closed" THEN @ ELSE steps # <<>>]
          /\ Done
          /\ UNCHANGED <<pending, chain, record, history, bounds>>
       \/ Passed
    /\ UNCHANGED <<github, stored>>

\* The session's task ends, by itself or stopped.
SessionEnds ==
    /\ run.kind # "none" /\ ~run.ended
    /\ run' = [run EXCEPT !.ended = TRUE]
    /\ UNCHANGED <<github, pending, chain, record, stored, control, history, bounds>>

\* A verdict a session may return and parse_verdict or parse_parent_review accepts.
Verdicts ==
    LET k      == Cardinality(Titles)
        counts == <<record.reviews + 1, record.gaps>>
        files  == {<<kind, d>> : kind \in IF run.kind = "triage" THEN {"split"} ELSE {"next", "gap"},
                                 d \in 1..k}
        closes == {<<IF run.kind = "triage" THEN "fits" ELSE "met", 0>>}
    IN {Verdict(v[1], v[2], run.seen,
                IF v[1] = "gap" THEN <<counts[1], counts[2] + 1>> ELSE counts)
        : v \in files \cup closes}

\* Its end with a verdict: filed at once, on a fresh read.
ExitWithVerdict ==
    /\ filing' \in Verdicts
    /\ batches' = batches + 1
    /\ pc' = "owed" /\ phase' = "exit"
    /\ UNCHANGED <<why, subs, seen, found, at, chain, handed, acted, gaps, vain>>

\* _triage_failed: a failed session or a refused verdict. The chain spent, a review's
\* parent is handed over, and an issue with sub-issues likewise.
ExitFailed ==
    /\ vain' = vain + 1
    /\ UNCHANGED <<batches, handed, acted, gaps>>
    /\ IF failures + 1 < MaxAttempts
       THEN /\ failures' = failures + 1 /\ waiting' = TRUE
            /\ UNCHANGED <<escape, note, control>>
       ELSE /\ ForgetChain
            /\ phase' = "exit" /\ why' = "failed"
            /\ pc' = IF run.kind = "parent_review" \/ run.subs THEN "hand_over" ELSE "hand_back"
            /\ UNCHANGED <<filing, subs, seen, found, at>>

\* _triage_exit, _parent_review_exit and _triage_run_settled.
Exit ==
    /\ phase = "idle" /\ run.ended
    /\ run' = NoRun
    /\ IF run.stop # "none"
       THEN /\ IF run.stop = "gone" THEN ForgetChain ELSE UNCHANGED chain
            /\ UNCHANGED <<control, history, bounds>>
       ELSE \/ ExitWithVerdict /\ UNCHANGED bounds
            \/ ExitFailed /\ UNCHANGED bounds
            \* A usage limit or failed authentication: no failure, one interval later.
            \/ /\ waiting' = TRUE /\ Fault
               /\ UNCHANGED <<failures, escape, note, control, history>>
    /\ UNCHANGED <<github, pending, record, stored>>

\* _triage_not_before comes.
Expire ==
    /\ waiting /\ waiting' = FALSE
    /\ UNCHANGED <<github, run, pending, failures, escape, note, record, stored, control,
                   history, bounds>>

\* The sink writes the latest record to the store.
Store ==
    /\ record.known /\ stored # record
    /\ stored' = record
    /\ UNCHANGED <<github, memory, control, history, bounds>>

\* A crash, and the next process: of the lane it knows the stored record only.
Restart ==
    /\ restarts < MaxRestarts /\ restarts' = restarts + 1
    /\ run' = NoRun /\ verdict' = NoVerdict /\ review' = NoVerdict
    /\ ForgetChain
    /\ record' = IF stored.finished THEN NoParent ELSE stored
    /\ Enter("idle")
    /\ handed' = (handed /\ stored.handed)
    /\ LET asked == "triage_todo" \in labels IN   \* a request the last process left open
         /\ acted' = IF asked THEN 0 ELSE IF stored.reviews < acted THEN stored.reviews ELSE acted
         /\ gaps' = IF asked THEN 0 ELSE IF stored.gaps < gaps THEN stored.gaps ELSE gaps
    /\ vain' = 0
    /\ UNCHANGED <<github, stored, batches, acts, faults>>
-----------------------------------------------------------------------------
(* Humans *)

Act == acts < MaxActs /\ acts' = acts + 1 /\ UNCHANGED <<faults, restarts>>
Aside == UNCHANGED <<memory, stored, control>>

\* A human's hand on the issue itself: with `triage_todo` on, what it leaves is a request.
Touched == acted' = 0 /\ gaps' = 0 /\ vain' = 0

\* `triage_todo` is added, with or without `triage_complete` taken off: from here on all
\* that was used up may be used again.
HumanAsks ==
    /\ "triage_todo" \notin labels
    /\ labels' \in {labels \cup {"triage_todo"}, (labels \ {"triage_complete"}) \cup {"triage_todo"}}
    /\ handed' = FALSE /\ Touched
    /\ Act /\ Aside /\ UNCHANGED <<state, steps, numbered, batches>>

HumanRelabels ==
    /\ labels' \in {labels \ {l} : l \in labels} \cup {labels \cup {l} : l \in {"work", "triage_complete"}}
    /\ labels' # labels /\ Touched
    /\ Act /\ Aside /\ UNCHANGED <<state, steps, numbered, batches, handed>>

HumanCloses ==
    /\ state' = IF state = "open" THEN "closed" ELSE "open"
    /\ Touched
    /\ Act /\ Aside /\ UNCHANGED <<labels, steps, numbered, batches, handed>>

\* A step closes: its run finished it, or a human.
StepCloses ==
    /\ \E k \in DOMAIN steps : steps[k].open /\ steps' = [steps EXCEPT ![k].open = FALSE]
    /\ Aside /\ UNCHANGED <<state, labels, numbered, history, bounds>>

HumanReopensStep ==
    /\ \E k \in DOMAIN steps : ~steps[k].open /\ steps' = [steps EXCEPT ![k].open = TRUE]
    /\ Act /\ Aside /\ UNCHANGED <<state, labels, numbered, history>>

HumanAddsStep ==
    /\ numbered < MaxSteps
    /\ numbered' = numbered + 1
    /\ \E t \in Titles : steps' = Append(steps, [n |-> numbered + 1, title |-> t, by |-> 0,
                                                 open |-> TRUE, operator |-> FALSE])
    /\ Act /\ Aside /\ UNCHANGED <<state, labels, history>>

HumanUnlinks ==
    /\ steps # <<>> /\ steps' = <<>>
    /\ Act /\ Aside /\ UNCHANGED <<state, labels, numbered, history>>
-----------------------------------------------------------------------------
Worker == \/ Tick \/ Refresh \/ Retry \/ Exit
          \/ OwedRead \/ StepsRead \/ List \/ Create \/ Mark \/ Swap \/ Met \/ Close \/ Comment
          \/ HandRead \/ HandBack \/ HandOver
          \/ CandidatesRead \/ Approval \/ RequestedReview
          \/ WatchRead \/ WatchIssues \/ WatchApproval

Human == \/ HumanAsks \/ HumanRelabels \/ HumanCloses
         \/ HumanReopensStep \/ HumanAddsStep \/ HumanUnlinks

Next == Worker \/ SessionEnds \/ Expire \/ Store \/ Restart \/ Human \/ StepCloses

Spec == Init /\ [][Next]_vars

\* The loop goes on, a session ends (its turn timeout sees to it) and a backoff is over.
FairSpec == Spec /\ WF_vars(Worker) /\ WF_vars(SessionEnds) /\ WF_vars(Expire)
-----------------------------------------------------------------------------
(* Properties *)

Filed   == [kind : {"none", "fits", "split", "met", "next", "gap"}, drafts : Nat, seen : Seq(Nat),
            counts : Nat \X Nat, subs : BOOLEAN, batch : Nat, swapped : BOOLEAN, tries : Nat]
Runs    == [kind : {"none", "triage", "parent_review"}, subs : BOOLEAN, seen : Seq(Nat),
            stop : {"none", "moved", "gone"}, ended : BOOLEAN]
Parents == [known : BOOLEAN, reviews : Nat, gaps : Nat, handed : BOOLEAN, finished : BOOLEAN]
Steps   == [n : Nat, title : Nat, by : Nat, open : BOOLEAN, operator : BOOLEAN]

\* Every variable keeps its type; a verdict waiting for a retry is one of its own kind.
TriageTypeOK ==
    /\ state \in {"open", "closed"} /\ labels \subseteq Labels
    /\ steps \in Seq(Steps) /\ numbered \in Nat
    /\ run \in Runs /\ record \in Parents /\ stored \in Parents
    /\ verdict \in Filed /\ review \in Filed /\ filing \in Filed
    /\ verdict.kind \in {"none", "fits", "split"} /\ review.kind \in {"none", "met", "next", "gap"}
    /\ failures \in Nat /\ waiting \in BOOLEAN /\ escape \in BOOLEAN /\ note \in BOOLEAN
    /\ phase \in {"idle", "exit", "refresh", "triage", "review", "candidates", "watch"}
    /\ subs \in BOOLEAN /\ seen \in Seq(Nat) /\ at \in Nat
    /\ batches \in Nat /\ handed \in BOOLEAN /\ acted \in Nat /\ gaps \in Nat /\ vain \in Nat

\* However often a filing fails half way, and whether or not the request that failed was
\* applied, no verdict files two sub-issues for one draft (apply_verdict's and
\* apply_parent_review's match by title).
FiledOnce ==
    \A k, l \in DOMAIN steps :
        (steps[k].by # 0 /\ steps[k].by = steps[l].by /\ steps[k].title = steps[l].title) => k = l

\* Once the swap of a verdict landed, each operator's step it filed is marked as one, which
\* is what keeps a session from ever running it; a step a human filed meanwhile under the
\* same title is what the title stands for then.
OperatorMarked ==
    pc = "comment" => \A k \in Children :
        (steps[k].by = filing.batch /\ steps[k].title \in Operator) =>
            \E l \in Children : steps[l].title = steps[k].title /\ steps[l].operator

\* What is on GitHub of a verdict is what its drafts say, each once.
FiledAsDrafted == FiledOnce /\ OperatorMarked

\* The worker never takes both triage labels off a parent with steps it filed: that would
\* release every step the order holds (_triage_hand_back's and _retry_pending_verdicts').  But
\* for a `fits`, handed back unread: a review the watch started meanwhile may have filed some.
StepsStayHeld ==
    [][( /\ acts' = acts /\ \E k \in DOMAIN steps : steps[k].by # 0
         /\ labels \cap TriageLabels # {} /\ filing.kind # "fits" )
       => labels' \cap TriageLabels # {}]_vars

\* A parent handed over is left alone until a human asks again, or a verdict still owed when
\* it was handed over is filed: no review starts on it (ParentRecord.watched, _hand_over_parent).
HandedOverWaits ==
    [][(run.kind = "none" /\ run'.kind = "parent_review") => ~handed]_vars

\* From one touch of a human's, or triage verdict filed, to the next the reviews acted on stay
\* within their cap and the gap rounds within theirs, so a chain of `next` and `gap` verdicts
\* ends.
RoundsEnd == acted <= MaxReviews \/ (acted = 1 /\ MaxReviews = 0)
GapsEnd   == gaps <= MaxGaps

\* A lane whose sessions fail is not paid for more than max_attempts times before a human
\* hears of it, the note refused or not (_triage_failed, _parent_handovers).  The session under
\* way as a human takes `triage_todo` off comes on top: what it ends owes no parent's note, so
\* the watch may start a chain of its own beside it.  A note dropped for a verdict's refused
\* hand-over is one a human never hears, and the count starts anew there.
FailsInBounds == vain <= MaxAttempts + 1

\* What a human's request may cost before a human is asked again is bounded on every path:
\* reviews acted on, gap rounds and failed sessions (parent_review_due, past_gap_limit).
SessionsBounded == RoundsEnd /\ GapsEnd /\ FailsInBounds

\* A request on an open issue is answered: by a filing, a hand-back or a hand-over.
RequestAnswered == Candidate ~> ~Candidate

\* A verdict GitHub refused is filed, discarded or handed over in the end.
VerdictSettled == (verdict.kind # "none" \/ review.kind # "none")
                      ~> (verdict.kind = "none" /\ review.kind = "none")

\* A watched parent whose steps have all closed is reviewed and moves on.
WatchSettles == (Watched(record) /\ ParentReviewDue) ~> ~(Watched(record) /\ ParentReviewDue)

\* Neither lane's work is left lying, whatever fails, is retried or restarts.
LanesSettle == RequestAnswered /\ VerdictSettled /\ WatchSettles
=============================================================================
