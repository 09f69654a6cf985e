---------------------------- MODULE Orchestrator ----------------------------
(***************************************************************************)
(* The work-run core of the worker: orchestrator/orchestrator.py with the  *)
(* label writes of orchestrator/actions.py.                                *)
(*                                                                         *)
(* The worker is one asyncio task.  Each action of the task below is the   *)
(* code between two awaits, so whatever shares the event loop or the board *)
(* may move between two actions: humans and the agents at GitHub, the      *)
(* worker's own sessions, the signal handler that asks it to stop, and a   *)
(* crash of the whole process.  What a handler read before an await it     *)
(* keeps in `seen`, and acts on however the board moves meanwhile.         *)
(*                                                                         *)
(* Issues are numbered in the order they were created.                     *)
(***************************************************************************)
EXTENDS Admission, FiniteSets

CONSTANTS
    N,                \* issues on the board
    MaxAgents,        \* agent.max_concurrent_agents
    ConflictLimit,    \* agent.max_conflict_reworks; 0 turns the bounce off
    SweepEvery,       \* TERMINAL_SWEEP_EVERY_TICKS
    MaxFetchFailures, \* MAX_FETCH_FAILURES
    Store,            \* a history store seeds the ledger of the next process
    Split,            \* sub-issues of a triaged parent, in the order of their numbers
    OperatorSteps,    \* issues carrying the operator-step label
    Approvals,        \* answers the approval check may give
    Outcomes,         \* ways a session may end on its own
    MayStall,         \* a session may go quiet past claude.stall_timeout_ms
    HoldKinds,        \* worker-wide holds that may come up, besides GitHub's
    GitHubFails,      \* a call to GitHub may fail
    HumanLabels,      \* state labels a human may set ("none" takes it off)
    HumansClose,      \* humans may close issues
    HumansReopen,     \* and reopen them
    Conflicts,        \* pull requests may come to conflict
    MayStop,          \* the worker may be asked to stop
    MaxRestarts       \* bound: crashes and restarts of the process

Issues == 1..N

ASSUME OrchestratorAssumption ==
    /\ N \in Nat \ {0}
    /\ MaxAgents \in Nat \ {0}
    /\ ConflictLimit \in Nat
    /\ SweepEvery \in Nat \ {0}
    /\ MaxFetchFailures \in Nat \ {0}
    /\ Store \in BOOLEAN
    /\ Split \subseteq Issues
    /\ OperatorSteps \subseteq Issues
    /\ Approvals \subseteq {"approved", "unapproved", "unreadable"}
    /\ Outcomes \subseteq {"done", "spent", "failed", "crashed", "auth_failed", "usage_limited"}
    /\ HoldKinds \subseteq {"preflight", "auth", "usage"}
    /\ HumanLabels \subseteq StateLabels \cup {"none"}
    /\ MaxRestarts \in Nat

VARIABLES
    \* GitHub: an issue's state label; open, closed delivering something (a
    \* merged pull request or the no-fault marker) or closed abandoned; its
    \* pull request conflicts; `rework` labels issuebot's account ever added.
    label, gh, conflict, bounces,
    \* The worker's _running: the session, how it ended, RunningEntry's
    \* stop_cause, terminal_issue (as what closing it would do), review_seen.
    run, result, stop, terminal, reviewSeen,
    retry,            \* the worker's _retries: "none", "run" or "escape"
    \* The ledger: an entry is known, and its figures.
    known, failures, cost, escalated, escaped,
    holds, fetchFailures, stopping,
    \* The task: where it is, where a helper returns to, the issue in hand,
    \* the issues left in the current loop, what was last read of each, whether
    \* this tick dispatches, and _tick_count modulo SweepEvery.
    pc, from, cur, work, seen, dispatching, ticks,
    recorded,         \* session.json: attempt of a resumable session, else 0
    logged, billed,   \* the store's run rows: an ended run, and what they cost
    restarts,
    \* History, of this process: handed to a human by an escape and not touched since; Blocked
    \* events of the budget escape since the issue last ran.
    handed, announced,
    turn              \* the steps with none open before them, at the sweep's read

github   == <<label, gh, conflict, bounces>>
sessions == <<run, result, stop, terminal, reviewSeen>>
ledger   == <<known, failures, cost, escalated, escaped>>
worker   == <<holds, fetchFailures, stopping>>
task     == <<pc, from, cur, work, seen, dispatching, ticks>>
history  == <<handed, announced, turn>>
disk     == <<recorded, logged, billed, restarts>>
vars     == <<github, sessions, retry, ledger, worker, task, disk, history>>

Results   == Outcomes \cup {"none", "cancelled", "killed"}
Causes    == {"none", "stalled", "moved", "closed", "shutdown"}
Closings  == {"none", "unchanged", "complete", "cancelled"}
Snapshots == [label : StateLabels \cup {"none"},
              gh : {"open", "delivered", "abandoned"},
              conflict : BOOLEAN, held : BOOLEAN]
Unseen    == [label |-> "none", gh |-> "open", conflict |-> FALSE, held |-> FALSE]

Places == {"idle", "refresh", "sweep", "sweeping", "holds", "fetch", "bounce",
           "parents", "dispatch", "assess", "operator", "unapprove", "claim", "fire",
           "escapeRead", "escapeWrite", "budgetRead", "budgetWrite",
           "finish", "draining", "down"}
Callers == {"idle", "sweeping", "dispatch", "draining"}
-----------------------------------------------------------------------------
(* What the task reads of its own state. *)

Running  == {i \in Issues : run[i] # "idle"}
\* Mutant: a slot is free again as soon as its session has ended.
EagerSlots == IF Cardinality({i \in Issues : run[i] = "live"}) < MaxAgents
              THEN MaxAgents - Cardinality({i \in Issues : run[i] = "live"}) ELSE 0
Slots    == IF Cardinality(Running) < MaxAgents
            THEN MaxAgents - Cardinality(Running) ELSE 0
HoldNow  == holds # {} \/ fetchFailures >= MaxFetchFailures
\* Mutant: a waiting retry does not claim its issue.
RunningOnly(i) == run[i] # "idle"
Busy(i)  == run[i] # "idle" \/ retry[i] # "none"

\* Mutant: the budget is asked of orphans only (#112).
OrphanBudgetRequest(i, state, order, busy) ==
    [stopping |-> stopping, hold |-> HoldNow, slots |-> Slots, busy |-> busy,
     state |-> state, kind |-> "work", order |-> order,
     failures |-> IF state = "in_progress" THEN failures[i] ELSE 0,
     cost |-> IF state = "in_progress" THEN cost[i] ELSE 0]

\* Mutant: the retry timer does not ask after the holds.
HoldlessRequest(i, state, order, busy) ==
    [stopping |-> stopping, hold |-> HoldNow /\ pc = "dispatch", slots |-> Slots,
     busy |-> busy, state |-> state, kind |-> "work", order |-> order,
     failures |-> failures[i], cost |-> cost[i]]

\* AdmissionRequest for issue i, whose label was read as `state`; `order` is
\* the order hold's answer, which only the candidate sweep asks for.
Request(i, state, order, busy) ==
    [stopping |-> stopping, hold |-> HoldNow, slots |-> Slots, busy |-> busy,
     state |-> state, kind |-> "work", order |-> order,
     failures |-> failures[i], cost |-> cost[i]]

\* Issue.dispatchable: open and wearing exactly one state label.
StateOf(snap) == IF snap.gh = "open" THEN snap.label ELSE "none"

Board == [i \in Issues |-> [label |-> label[i], gh |-> gh[i],
                            conflict |-> conflict[i], held |-> FALSE]]

\* sort_candidates: orphans, then rework, then todo, oldest first.
Rank(i) == CASE seen[i].label = "in_progress" -> 0
             [] seen[i].label = "rework" -> 1
             [] seen[i].label = "todo" -> 2
             [] OTHER -> 3
Before(i, j) == Rank(i) < Rank(j) \/ (Rank(i) = Rank(j) /\ i < j)
First(i) == \A j \in work \ {i} : Before(i, j)

\* classify_closed and finish_terminal: what closing this snapshot would do.
Closing(snap) == IF snap.label = "complete" THEN "unchanged"
                 ELSE IF snap.gh = "delivered" THEN "complete" ELSE "cancelled"

\* RunningEntry.stop: the first cause only.
FirstCause(old, new) == IF old = "none" THEN new ELSE old

\* SeededChain over session.json: the floor Ledger.observed folds in.
Floor(i) == SeededChain(IF recorded[i] > 0 THEN recorded[i] - 1 ELSE 0)
-----------------------------------------------------------------------------
(* Steps the handlers share. *)

\* A helper returns to the loop that called it, done with the issue in hand.
Back == /\ pc' = from
        /\ from' = "idle"
        /\ cur' = 0
        /\ work' = work \ {cur}
        /\ seen' = [seen EXCEPT ![cur] = Unseen]
        /\ UNCHANGED <<dispatching, ticks>>

\* Go and do `place` about issue i, then return to where the task is now.
Call(place, i) == /\ pc' = place
                  /\ from' = pc
                  /\ cur' = i
                  /\ UNCHANGED <<work, seen, dispatching, ticks>>

Goto(place) == /\ pc' = place
               /\ UNCHANGED <<from, cur, work, seen, dispatching, ticks>>

\* The end of tick(): nothing read in it outlives it.
EndTick == /\ pc' = "idle"
           /\ work' = {}
           /\ seen' = [i \in Issues |-> Unseen]
           /\ dispatching' = FALSE
           /\ ticks' = (ticks + 1) % SweepEvery
           /\ UNCHANGED <<from, cur>>

Set(i, l) == /\ label' = [label EXCEPT ![i] = l]
             /\ UNCHANGED <<gh, conflict, bounces>>

\* Ledger.forget.
Forget(i) == /\ known' = [known EXCEPT ![i] = FALSE]
             /\ failures' = [failures EXCEPT ![i] = 0]
             /\ cost' = [cost EXCEPT ![i] = 0]
             /\ escalated' = [escalated EXCEPT ![i] = FALSE]
             /\ escaped' = [escaped EXCEPT ![i] = FALSE]

\* Mutant: a second budget escape does not know of the first.
RepeatingRecordEscape(i, marked) ==
    /\ failures' = [failures EXCEPT ![i] = 0]
    /\ escaped' = IF known[i] THEN [escaped EXCEPT ![i] = TRUE] ELSE escaped
    /\ escalated' = [escalated EXCEPT ![i] = FALSE]
    /\ UNCHANGED <<known, cost>>

\* Mutant: the escape is not marked for the bounce to read.
UnmarkedRecordEscape(i, marked) ==
    /\ failures' = [failures EXCEPT ![i] = 0]
    /\ escalated' = [escalated EXCEPT ![i] = marked]
    /\ UNCHANGED <<known, cost, escaped>>

\* _record_escape for applied and skipped: the chain ends, and the issue is a
\* human's.  `marked` is what the budget escape leaves in `escalated`.
RecordEscape(i, marked) ==
    /\ failures' = [failures EXCEPT ![i] = 0]
    /\ escaped' = IF known[i] THEN [escaped EXCEPT ![i] = TRUE] ELSE escaped
    /\ escalated' = [escalated EXCEPT ![i] = marked]
    /\ UNCHANGED <<known, cost>>

\* _start_run: the one place a run of any kind starts.
StartRun(i) ==
    /\ run' = [run EXCEPT ![i] = "live"]
    /\ retry' = [retry EXCEPT ![i] = "none"]
    /\ known' = [known EXCEPT ![i] = TRUE]
    /\ escalated' = [escalated EXCEPT ![i] = FALSE]
    /\ escaped' = [escaped EXCEPT ![i] = FALSE]
    /\ announced' = [announced EXCEPT ![i] = 0]
    /\ UNCHANGED <<result, stop, terminal, reviewSeen, failures, cost, handed, turn>>

\* Ledger.observed: an orphan's session.json may raise the chain.
Observe(i) ==
    IF seen[i].label = "in_progress" /\ Floor(i) > failures[i]
    THEN /\ failures' = [failures EXCEPT ![i] = Floor(i)]
         /\ known' = [known EXCEPT ![i] = TRUE]
         /\ UNCHANGED <<cost, escalated, escaped>>
    ELSE UNCHANGED ledger

\* The entry of _dispatch: an operator step is never a work run.
DispatchPlace(i) == IF i \in OperatorSteps THEN "operator" ELSE "assess"

\* Mutant: the loops do not ask whether the worker is stopping.
DeafLooping == pc = "idle"

\* The loops of run() and of _wait_for_next_tick turn.
Looping == pc = "idle" /\ ~stopping
-----------------------------------------------------------------------------
(* reconcile *)

AfterReconcile == IF ticks = 0 THEN "sweep" ELSE "holds"

\* tick(), up to the refresh: _check_stalls.
StartTick ==
    /\ Looping
    /\ \E quiet \in SUBSET {i \in Running : MayStall /\ stop[i] = "none"} :
         stop' = [i \in Issues |-> IF i \in quiet THEN "stalled" ELSE stop[i]]
    /\ Goto(IF Running # {} THEN "refresh" ELSE AfterReconcile)
    /\ UNCHANGED <<github, run, result, terminal, reviewSeen, retry, ledger,
                   worker, disk, history>>

RefreshFails ==
    /\ pc = "refresh" /\ GitHubFails
    /\ Goto(AfterReconcile)
    /\ UNCHANGED <<github, sessions, retry, ledger, worker, disk, history>>

\* Mutant: only a close stops a session.
LaxRefreshedCause(i, late) ==
    IF gh[i] # "open" THEN FirstCause(stop[i], "closed") ELSE stop[i]

\* What the refresh makes of a running issue; `late` are the issues whose
\* review grace, one poll interval, is over.
RefreshedCause(i, late) ==
    IF gh[i] # "open" THEN FirstCause(stop[i], "closed")
    ELSE IF label[i] = "in_progress" THEN stop[i]
    ELSE IF label[i] = "review"
         THEN IF reviewSeen[i] /\ i \in late THEN FirstCause(stop[i], "moved") ELSE stop[i]
    ELSE FirstCause(stop[i], "moved")

Refresh ==
    /\ pc = "refresh"
    /\ \E late \in SUBSET {i \in Running : reviewSeen[i]} :
         stop' = [i \in Issues |-> IF i \in Running THEN RefreshedCause(i, late) ELSE stop[i]]
    /\ terminal' = [i \in Issues |-> IF i \in Running /\ gh[i] # "open"
                                     THEN Closing(Board[i]) ELSE "none"]
    /\ reviewSeen' = [i \in Issues |-> reviewSeen[i] \/
                        (i \in Running /\ gh[i] = "open" /\ label[i] = "review")]
    /\ Goto(AfterReconcile)
    /\ UNCHANGED <<github, run, result, retry, ledger, worker, disk, history>>

SweepFails ==
    /\ pc = "sweep" /\ GitHubFails
    /\ Goto("holds")
    /\ UNCHANGED <<github, sessions, retry, ledger, worker, disk, history>>

\* fetch_terminal_issues: closed issues whose label has to come off them.
Unswept == {i \in Issues : gh[i] # "open" /\ label[i] \notin {"none", "complete"}}

Sweep ==
    /\ pc = "sweep"
    /\ work' = Unswept
    /\ seen' = [i \in Issues |-> IF i \in work' THEN Board[i] ELSE Unseen]
    /\ pc' = "sweeping"
    /\ UNCHANGED <<github, sessions, retry, ledger, worker, disk, history,
                   from, cur, dispatching, ticks>>

SweepNext(i) ==
    /\ pc = "sweeping" /\ i \in work \ Running
    /\ retry' = [retry EXCEPT ![i] = "none"]
    /\ terminal' = [terminal EXCEPT ![i] = Closing(seen[i])]
    /\ Call("finish", i)
    /\ UNCHANGED <<github, run, result, stop, reviewSeen, ledger, worker, disk, history>>

SweepDone ==
    /\ pc = "sweeping" /\ work \subseteq Running
    /\ work' = {}
    /\ seen' = [i \in Issues |-> Unseen]
    /\ pc' = "holds"
    /\ UNCHANGED <<github, sessions, retry, ledger, worker, disk, history,
                   from, cur, dispatching, ticks>>
-----------------------------------------------------------------------------
(* The holds, the poll and the conflict bounce *)

\* _settle_usage_hold, preflight and _refresh_auth_hold: a hold lifts when its
\* window reopens or its probe answers, and an outranking one is not probed.
\* A preflight problem that covers the fetch itself, or a held tick nobody
\* observes, asks GitHub nothing and forgets what it knew of GitHub.
SettleHolds ==
    /\ pc = "holds"
    /\ \E kept \in SUBSET (holds \ {"preflight"}) :
       \E unfit \in SUBSET (HoldKinds \cap {"preflight"}), blind \in BOOLEAN :
         LET dispatches == kept = {} /\ unfit = {}
             skipped == \/ unfit # {} /\ blind
                        \/ ~dispatches /\ ~Store /\ ConflictLimit = 0
         IN  /\ unfit # {} => holds \cap {"auth"} \subseteq kept
             /\ holds' = kept \cup unfit
             /\ IF skipped
                THEN EndTick /\ fetchFailures' = 0
                ELSE /\ pc' = "fetch"
                     /\ dispatching' = dispatches
                     /\ UNCHANGED <<fetchFailures, from, cur, work, seen, ticks>>
    /\ UNCHANGED <<github, sessions, retry, ledger, stopping, disk, history>>

FetchFails ==
    /\ pc = "fetch" /\ GitHubFails
    /\ fetchFailures' = IF fetchFailures < MaxFetchFailures
                        THEN fetchFailures + 1 ELSE fetchFailures
    /\ EndTick
    /\ UNCHANGED <<github, sessions, retry, ledger, holds, stopping, disk, history>>

\* Mutant: the poll does not ask for orphans.
OrphanlessPolled == {"todo", "rework", "review"}

\* fetch_states: review rides along for the store or for the bounce.
Polled == ActiveStates \cup (IF Store \/ ConflictLimit > 0 THEN {"review"} ELSE {})

Fetch ==
    /\ pc = "fetch"
    /\ fetchFailures' = 0
    /\ work' = {i \in Issues : StateOf(Board[i]) \in Polled}
    /\ seen' = [i \in Issues |-> IF i \in work' THEN Board[i] ELSE Unseen]
    /\ pc' = "bounce"
    /\ UNCHANGED <<github, sessions, retry, ledger, holds, stopping, disk, history,
                   from, cur, dispatching, ticks>>

\* conflict_candidate, and the issues _bounce_conflicts passes over.
Bounceable == {i \in work : /\ ConflictLimit > 0
                            /\ seen[i].label = "review" /\ seen[i].conflict
                            /\ ~Busy(i) /\ ~escaped[i]}

\* Mutant: one bounce too many.
LateLimitReached(i) == bounces[i] > ConflictLimit

\* The bound, counted from the label history and not from what was fetched.
LimitReached(i) == bounces[i] >= ConflictLimit

\* conflict_rework: the bound, then the label.
Bounce(i) ==
    /\ pc = "bounce" /\ i \in Bounceable
    /\ IF LimitReached(i)
       THEN UNCHANGED github
       ELSE /\ label' = [label EXCEPT ![i] = "rework"]
            /\ bounces' = [bounces EXCEPT ![i] = IF label[i] = "rework" THEN @ ELSE @ + 1]
            /\ UNCHANGED <<gh, conflict>>
    /\ work' = work \ {i}
    /\ UNCHANGED <<sessions, retry, ledger, worker, disk, history,
                   pc, from, cur, seen, dispatching, ticks>>

BounceFails(i) ==
    /\ pc = "bounce" /\ i \in Bounceable /\ GitHubFails
    /\ work' = work \ {i}
    /\ UNCHANGED <<github, sessions, retry, ledger, worker, disk, history,
                   pc, from, cur, seen, dispatching, ticks>>

\* The `todo` sub-issues whose parents' order is worth reading this tick; none
\* when it can dispatch nothing, since the sweep then stops before the order.
Ordered == IF Slots = 0 \/ stopping \/ HoldNow THEN {}
           ELSE {i \in Split \ OperatorSteps : seen[i].label = "todo"}

BounceDone ==
    /\ pc = "bounce" /\ Bounceable = {}
    /\ IF dispatching
       THEN /\ work' = {i \in Issues : seen[i].label # "none"}
            /\ pc' = IF Ordered = {} THEN "dispatch" ELSE "parents"
            /\ UNCHANGED <<from, cur, seen, dispatching, ticks>>
       ELSE EndTick
    /\ UNCHANGED <<github, sessions, retry, ledger, worker, disk, history>>

\* The steps with none open before them.
Foremost == {i \in Split : \A j \in Split : j < i => gh[j] # "open"}

HoldBack(held, found) ==
    /\ pc = "parents"
    /\ turn' = found
    /\ seen' = [i \in Issues |-> [label |-> seen[i].label, gh |-> seen[i].gh,
                                  conflict |-> seen[i].conflict, held |-> i \in held]]
    /\ pc' = "dispatch"
    /\ UNCHANGED <<github, sessions, retry, ledger, worker, disk, handed, announced,
                   from, cur, work, dispatching, ticks>>

\* _read_parents and _order_hold: a step waits while an earlier one is open.
ReadParents == HoldBack(Ordered \ Foremost, Foremost)

\* Mutant: a failed read holds nothing.
OpenReadParentsFails == GitHubFails /\ HoldBack({}, {})

\* A failed read holds every sub-issue for this poll.
ReadParentsFails == GitHubFails /\ HoldBack(Ordered, {})
-----------------------------------------------------------------------------
(* Dispatch: the candidate sweep, and what one dispatch awaits *)

\* _dispatch_candidates, one candidate.  The floor `observed` folds in is below
\* max_attempts, so the gate, asked again, still admits.
DispatchNext ==
    /\ pc = "dispatch"
    /\ \E i \in work : First(i) /\
       LET verdict == Admit(Request(i, StateOf(seen[i]), seen[i].held, Busy(i)))
       IN  \/ /\ verdict \in {"stopping", "hold", "slots"}
              /\ EndTick
              /\ UNCHANGED ledger
           \/ /\ verdict \in {"busy", "inactive", "order"}
              /\ work' = work \ {i}
              /\ UNCHANGED <<ledger, pc, from, cur, seen, dispatching, ticks>>
           \/ /\ verdict \in BudgetRefusals
              /\ Call("budgetRead", i)
              /\ UNCHANGED ledger
           \/ /\ verdict = "admitted"
              /\ Call(DispatchPlace(i), i)
              /\ Observe(i)
    /\ turn' = IF pc' = "idle" THEN {} ELSE turn
    /\ UNCHANGED <<github, sessions, retry, worker, disk, handed, announced>>

DispatchDone ==
    /\ pc = "dispatch" /\ work = {}
    /\ EndTick
    /\ turn' = {}
    /\ UNCHANGED <<github, sessions, retry, ledger, worker, disk, handed, announced>>

\* _assess_approval; an orphan is started without a claim.
Assess(answer) ==
    /\ pc = "assess"
    /\ \/ /\ answer = "unreadable"
          /\ Back /\ UNCHANGED <<sessions, retry, ledger, history>>
       \/ /\ answer = "unapproved"
          /\ Goto("unapprove") /\ UNCHANGED <<sessions, retry, ledger, history>>
       \/ /\ answer = "approved" /\ seen[cur].label = "in_progress"
          /\ Back /\ StartRun(cur)
       \/ /\ answer = "approved" /\ seen[cur].label # "in_progress"
          /\ Goto("claim") /\ UNCHANGED <<sessions, retry, ledger, history>>
    /\ UNCHANGED <<github, worker, disk>>

\* operator_step_escape and unapproved_escape: the label comes off, blindly.
HandBack ==
    /\ pc \in {"operator", "unapprove"}
    /\ Set(cur, "none")
    /\ RecordEscape(cur, escalated[cur])
    /\ handed' = [handed EXCEPT ![cur] = TRUE]
    /\ Back
    /\ UNCHANGED <<sessions, retry, worker, disk, announced, turn>>

HandBackFails ==
    /\ pc \in {"operator", "unapprove"} /\ GitHubFails
    /\ Back
    /\ UNCHANGED <<github, sessions, retry, ledger, worker, disk, history>>

\* actions.claim and _start_run.  The claim clears the markers, so a close
\* that rested on the no-fault marker no longer delivers anything.
Claim ==
    /\ pc = "claim"
    /\ label' = [label EXCEPT ![cur] = "in_progress"]
    /\ \E how \in {gh[cur]} \cup (IF gh[cur] = "delivered" THEN {"abandoned"} ELSE {}) :
         gh' = [gh EXCEPT ![cur] = how]
    /\ StartRun(cur)
    /\ Back
    /\ UNCHANGED <<conflict, bounces, worker, disk>>

ClaimFails ==
    /\ pc = "claim" /\ GitHubFails
    /\ Back
    /\ UNCHANGED <<github, sessions, retry, ledger, worker, disk, history>>
-----------------------------------------------------------------------------
(* The escapes and the close-out *)

\* A blocked escape that failed is owed: it waits as a retry of its own kind.
OweEscape == /\ retry' = [retry EXCEPT ![cur] = "escape"]
             /\ Back
             /\ UNCHANGED <<github, sessions, ledger, worker, disk, history>>

EscapeFails == pc \in {"escapeRead", "escapeWrite"} /\ GitHubFails /\ OweEscape

\* blocked_escape: the fresh read, which skips an issue that has moved ...
EscapeRead ==
    /\ pc = "escapeRead"
    /\ IF gh[cur] = "open" /\ label[cur] = "in_progress"
       THEN Goto("escapeWrite") /\ UNCHANGED ledger
       ELSE Back /\ RecordEscape(cur, escalated[cur])
    /\ UNCHANGED <<github, sessions, retry, worker, disk, history>>

\* ... then the note and the move to review.
EscapeWrite ==
    /\ pc = "escapeWrite"
    /\ Set(cur, "review")
    /\ RecordEscape(cur, escalated[cur])
    /\ handed' = [handed EXCEPT ![cur] = TRUE]
    /\ Back
    /\ UNCHANGED <<sessions, retry, worker, disk, announced, turn>>

BudgetFails ==
    /\ pc \in {"budgetRead", "budgetWrite"} /\ GitHubFails
    /\ Back
    /\ UNCHANGED <<github, sessions, retry, ledger, worker, disk, history>>

\* budget_escape: the fresh read ...
BudgetRead ==
    /\ pc = "budgetRead"
    /\ IF gh[cur] = "open" /\ label[cur] \in ActiveStates
       THEN Goto("budgetWrite") /\ UNCHANGED ledger
       ELSE Back /\ RecordEscape(cur, escalated[cur])
    /\ UNCHANGED <<github, sessions, retry, worker, disk, history>>

\* ... then the move, announced unless the ledger says it already was.
BudgetWrite ==
    /\ pc = "budgetWrite"
    /\ Set(cur, "review")
    /\ RecordEscape(cur, known[cur])
    /\ handed' = [handed EXCEPT ![cur] = TRUE]
    /\ announced' = [announced EXCEPT ![cur] =
                       IF escalated[cur] \/ @ = 2 THEN @ ELSE @ + 1]
    /\ Back
    /\ UNCHANGED <<sessions, retry, worker, disk, turn>>

\* _finish: the label of the closed issue as it was read, not as it is.
Finish ==
    /\ pc = "finish"
    /\ \/ terminal[cur] = "complete" /\ Set(cur, "complete")
       \/ terminal[cur] = "cancelled" /\ Set(cur, "none")
       \/ terminal[cur] \notin {"complete", "cancelled"} /\ UNCHANGED github
    /\ terminal' = [terminal EXCEPT ![cur] = "none"]
    /\ Forget(cur)
    /\ Back
    /\ UNCHANGED <<run, result, stop, reviewSeen, retry, worker, disk, history>>

FinishFails ==
    /\ pc = "finish" /\ GitHubFails /\ terminal[cur] # "unchanged"
    /\ terminal' = [terminal EXCEPT ![cur] = "none"]
    /\ Back
    /\ UNCHANGED <<github, run, result, stop, reviewSeen, retry, ledger, worker, disk, history>>
-----------------------------------------------------------------------------
(* Worker exits and retries: only ever between two ticks *)

Schedule(i) == /\ retry' = [retry EXCEPT ![i] = "run"]
               /\ UNCHANGED <<pc, from, cur, work, seen, dispatching, ticks>>

\* The chain that escapes instead of being retried.
ChainSpent(n) == n >= MaxAttempts

\* What a session that ended means for its issue, the ledger having been
\* charged: finish, release, failure, escape, continuation, or a hold.
AfterExit(i) ==
    LET why == result[i]
        stands == terminal[i] = "none" /\ why # "killed" /\ stop[i] \in {"none", "stalled"}
        failing == stop[i] = "stalled" \/ why \in {"failed", "crashed", "cancelled"}
    IN  \/ /\ terminal[i] # "none"
           /\ Call("finish", i) /\ UNCHANGED <<retry, failures, holds>>
        \/ /\ terminal[i] = "none" /\ ~stands
           /\ UNCHANGED <<retry, failures, holds, task>>
        \/ /\ stands /\ failing
           /\ failures' = [failures EXCEPT ![i] = @ + 1]
           /\ \/ ChainSpent(failures[i] + 1) /\ Call("escapeRead", i) /\ UNCHANGED retry
              \/ ~ChainSpent(failures[i] + 1) /\ Schedule(i)
           /\ UNCHANGED holds
        \/ /\ stands /\ ~failing /\ why = "spent"
           /\ Call("escapeRead", i) /\ UNCHANGED <<retry, failures, holds>>
        \/ /\ stands /\ ~failing /\ why = "auth_failed"
           /\ holds' = holds \cup {"auth"}
           /\ Call("escapeRead", i) /\ UNCHANGED <<retry, failures>>
        \/ /\ stands /\ ~failing /\ why = "usage_limited"
           /\ holds' = holds \cup {"usage"}
           /\ Schedule(i) /\ UNCHANGED failures
        \/ /\ stands /\ ~failing /\ why = "done"
           /\ failures' = [failures EXCEPT ![i] = 0]
           /\ Schedule(i) /\ UNCHANGED holds

\* Spend past the cap is as good as the cap (bound).
Capped(c) == IF c > CostCap THEN CostCap ELSE c

\* handle_worker_exit.  A run that returned a result is charged to the ledger,
\* however it ended; a crashed or a killed one has no figures to charge.
HandleExit(i) ==
    /\ run[i] = "exited"
    /\ \/ Looping
       \/ pc = "draining" /\ \A j \in Issues : run[j] # "live"
    /\ \E spend \in IF CostCap = 0 \/ result[i] \in {"crashed", "killed"} THEN {0} ELSE {0, 1} :
         /\ cost' = [cost EXCEPT ![i] = Capped(@ + spend)]
         /\ billed' = [billed EXCEPT ![i] = Capped(@ + spend)]
    /\ logged' = IF Store /\ result[i] # "killed" THEN [logged EXCEPT ![i] = TRUE] ELSE logged
    /\ run' = [run EXCEPT ![i] = "idle"]
    /\ result' = [result EXCEPT ![i] = "none"]
    /\ stop' = [stop EXCEPT ![i] = "none"]
    /\ reviewSeen' = [reviewSeen EXCEPT ![i] = FALSE]
    /\ AfterExit(i)
    /\ UNCHANGED <<github, terminal, known, escalated, escaped, fetchFailures,
                   stopping, recorded, restarts, history>>

\* fire_due_retries and _fire up to the first await; a refusal that says to
\* wait requeues the entry, which changes nothing here.
FireRetry(i) ==
    /\ Looping /\ retry[i] # "none"
    /\ LET verdict == Admit(Request(i, "unread", FALSE, run[i] # "idle")) IN
         IF retry[i] = "escape" THEN Call("escapeRead", i)
         ELSE /\ verdict \notin Waits
              /\ IF verdict = "admitted" THEN Call("fire", i) ELSE Goto("idle")
    /\ retry' = [retry EXCEPT ![i] = "none"]
    /\ UNCHANGED <<github, sessions, ledger, worker, disk, history>>

Requeue == /\ retry' = [retry EXCEPT ![cur] = "run"]
           /\ Back

FireFails ==
    /\ pc = "fire" /\ GitHubFails
    /\ Requeue
    /\ UNCHANGED <<github, sessions, ledger, worker, disk, history>>

\* _fire after its refresh: finish, wait, release, hand over or dispatch.
Fire ==
    /\ pc = "fire"
    /\ LET verdict == Admit(Request(cur, StateOf(Board[cur]), FALSE, Busy(cur))) IN
         IF gh[cur] # "open"
         THEN /\ terminal' = [terminal EXCEPT ![cur] = Closing(Board[cur])]
              /\ Goto("finish")
              /\ UNCHANGED retry
         ELSE /\ UNCHANGED terminal
              /\ \/ /\ verdict \in Waits \cup {"stopping"}
                    /\ Requeue
                 \/ /\ verdict \in {"busy", "inactive"}
                    /\ Back /\ UNCHANGED retry
                 \/ /\ verdict \in BudgetRefusals
                    /\ Goto("budgetRead") /\ UNCHANGED retry
                 \/ /\ verdict = "admitted"
                    /\ seen' = [seen EXCEPT ![cur] = Board[cur]]
                    /\ pc' = DispatchPlace(cur)
                    /\ UNCHANGED <<retry, from, cur, work, dispatching, ticks>>
    /\ UNCHANGED <<github, run, result, stop, reviewSeen, ledger, worker, disk, history>>
-----------------------------------------------------------------------------
(* Shutdown: cancel every session, wait, drain the exits, drop the retries *)

Shutdown ==
    /\ pc = "idle" /\ stopping
    /\ stop' = [i \in Issues |-> IF i \in Running THEN FirstCause(stop[i], "shutdown")
                                 ELSE stop[i]]
    /\ Goto("draining")
    /\ UNCHANGED <<github, run, result, terminal, reviewSeen, retry, ledger,
                   worker, disk, history>>

\* The wait timed out: the tasks still pending are cancelled.
Kill ==
    /\ pc = "draining" /\ \E i \in Issues : run[i] = "live"
    /\ run' = [i \in Issues |-> IF run[i] = "live" THEN "exited" ELSE run[i]]
    /\ result' = [i \in Issues |-> IF run[i] = "live" THEN "killed" ELSE result[i]]
    /\ recorded' = [i \in Issues |-> IF run[i] = "live" THEN 0 ELSE recorded[i]]
    /\ UNCHANGED <<github, stop, terminal, reviewSeen, retry, ledger, worker, task,
                   logged, billed, restarts, history>>

Down ==
    /\ pc = "draining" /\ Running = {}
    /\ retry' = [i \in Issues |-> "none"]
    /\ Goto("down")
    /\ UNCHANGED <<github, sessions, ledger, worker, disk, history>>
-----------------------------------------------------------------------------
(* Everyone else *)

\* A session ends.  One asked to stop ends cancelled, unless it had ended
\* already; one that succeeded has read a board its outcome follows from.
SessionEnds(i, how) ==
    /\ run[i] = "live"
    /\ \/ how = "cancelled" /\ stop[i] # "none"
       \/ how \in Outcomes /\ stop[i] = "none"
    /\ how = "spent" => gh[i] = "open" /\ label[i] = "in_progress"
    /\ how = "done"  => gh[i] # "open" \/ label[i] # "in_progress"
    /\ run' = [run EXCEPT ![i] = "exited"]
    /\ result' = [result EXCEPT ![i] = how]
    /\ recorded' = [recorded EXCEPT ![i] = IF how = "cancelled" THEN failures[i] + 1 ELSE 0]
    /\ UNCHANGED <<github, stop, terminal, reviewSeen, retry, ledger, worker, task,
                   logged, billed, restarts, history>>

\* The agent hands its work over for review.
AgentReview(i) ==
    /\ run[i] = "live" /\ label[i] = "in_progress" /\ gh[i] = "open"
    /\ Set(i, "review")
    /\ UNCHANGED <<sessions, retry, ledger, worker, task, disk, history>>

Touch(i) == /\ handed' = [handed EXCEPT ![i] = FALSE]
            /\ UNCHANGED <<sessions, retry, ledger, worker, task, disk, announced, turn>>

HumanLabel(i, l) ==
    /\ l \in HumanLabels \ {label[i]} /\ gh[i] = "open"
    /\ Set(i, l) /\ Touch(i)

HumanClose(i, how) ==
    /\ HumansClose /\ gh[i] = "open"
    /\ gh' = [gh EXCEPT ![i] = how] /\ Touch(i)
    /\ UNCHANGED <<label, conflict, bounces>>

HumanReopen(i) ==
    /\ HumansReopen /\ gh[i] # "open"
    /\ gh' = [gh EXCEPT ![i] = "open"] /\ Touch(i)
    /\ UNCHANGED <<label, conflict, bounces>>

\* The default branch moves, or the branch catches up with it.
PullRequestMoves(i) ==
    /\ Conflicts
    /\ \E conflicts \in BOOLEAN : conflict' = [conflict EXCEPT ![i] = conflicts]
    /\ UNCHANGED <<label, gh, bounces, sessions, retry, ledger, worker, task, disk, history>>

RequestStop ==
    /\ MayStop /\ ~stopping
    /\ stopping' = TRUE
    /\ UNCHANGED <<github, sessions, retry, ledger, holds, fetchFailures, task, disk, history>>

\* The process dies, or having stopped is started again.  The ledger is
\* seeded from the store's run rows, of all issues it can still read: their cost
\* whole, their chain, an approximation, capped (_seeded); the marks are not
\* stored.  A session killed with it may have saved its record.
Restart ==
    /\ restarts < MaxRestarts
    /\ restarts' = restarts + 1
    /\ \E saved \in SUBSET Running :
         recorded' = [i \in Issues |-> IF i \in saved /\ run[i] = "live"
                                      THEN failures[i] + 1 ELSE recorded[i]]
    /\ run' = [i \in Issues |-> "idle"]
    /\ result' = [i \in Issues |-> "none"]
    /\ stop' = [i \in Issues |-> "none"]
    /\ terminal' = [i \in Issues |-> "none"]
    /\ reviewSeen' = [i \in Issues |-> FALSE]
    /\ retry' = [i \in Issues |-> "none"]
    /\ \E seeds \in SUBSET {i \in Issues : Store /\ logged[i]},
          chain \in [Issues -> 0..MaxAttempts + 1] :
         /\ \A i \in Issues \ seeds : chain[i] = 0
         /\ known' = [i \in Issues |-> i \in seeds]
         /\ failures' = [i \in Issues |-> SeededChain(chain[i])]
         /\ cost' = [i \in Issues |-> IF i \in seeds THEN billed[i] ELSE 0]
    /\ escalated' = [i \in Issues |-> FALSE]
    /\ escaped' = [i \in Issues |-> FALSE]
    /\ announced' = [i \in Issues |-> 0] /\ handed' = [i \in Issues |-> FALSE]
    /\ turn' = {}
    /\ holds' = {} /\ fetchFailures' = 0 /\ stopping' = FALSE
    /\ pc' = "idle" /\ from' = "idle" /\ cur' = 0 /\ work' = {}
    /\ seen' = [i \in Issues |-> Unseen] /\ dispatching' = FALSE /\ ticks' = 0
    /\ UNCHANGED <<github, logged, billed>>
-----------------------------------------------------------------------------
Init ==
    /\ label \in [Issues -> {"none", "todo"}]
    /\ gh = [i \in Issues |-> "open"]
    /\ conflict = [i \in Issues |-> FALSE]
    /\ bounces = [i \in Issues |-> 0]
    /\ run = [i \in Issues |-> "idle"]
    /\ result = [i \in Issues |-> "none"]
    /\ stop = [i \in Issues |-> "none"]
    /\ terminal = [i \in Issues |-> "none"]
    /\ reviewSeen = [i \in Issues |-> FALSE]
    /\ retry = [i \in Issues |-> "none"]
    /\ known = [i \in Issues |-> FALSE]
    /\ failures = [i \in Issues |-> 0]
    /\ cost = [i \in Issues |-> 0]
    /\ escalated = [i \in Issues |-> FALSE]
    /\ escaped = [i \in Issues |-> FALSE]
    /\ holds = {} /\ fetchFailures = 0 /\ stopping = FALSE
    /\ pc = "idle" /\ from = "idle" /\ cur = 0 /\ work = {}
    /\ seen = [i \in Issues |-> Unseen] /\ dispatching = FALSE /\ ticks = 0
    /\ recorded = [i \in Issues |-> 0] /\ restarts = 0
    /\ logged = [i \in Issues |-> FALSE] /\ billed = [i \in Issues |-> 0]
    /\ handed = [i \in Issues |-> FALSE]
    /\ announced = [i \in Issues |-> 0]
    /\ turn = {}

Reconcile == StartTick \/ RefreshFails \/ Refresh \/ SweepFails \/ Sweep
             \/ SweepDone \/ \E i \in Issues : SweepNext(i)
Poll      == SettleHolds \/ FetchFails \/ Fetch \/ BounceDone
             \/ ReadParents \/ ReadParentsFails
             \/ \E i \in Issues : Bounce(i) \/ BounceFails(i)
Dispatch  == DispatchNext \/ DispatchDone \/ HandBack \/ HandBackFails
             \/ Claim \/ ClaimFails \/ \E answer \in Approvals : Assess(answer)
Escape    == EscapeFails \/ EscapeRead \/ EscapeWrite \/ BudgetFails
             \/ BudgetRead \/ BudgetWrite \/ Finish \/ FinishFails
Between   == FireFails \/ Fire \/ \E i \in Issues : HandleExit(i) \/ FireRetry(i)
ShutDown  == Shutdown \/ Kill \/ Down

Task == Reconcile \/ Poll \/ Dispatch \/ Escape \/ Between \/ ShutDown

Session(i) == AgentReview(i) \/ \E how \in Results : SessionEnds(i, how)
Human(i)   == \/ \E l \in HumanLabels : HumanLabel(i, l)
              \/ \E how \in {"delivered", "abandoned"} : HumanClose(i, how)
              \/ HumanReopen(i)
              \/ PullRequestMoves(i)

Next == \/ Task
        \/ \E i \in Issues : Session(i) \/ Human(i)
        \/ RequestStop
        \/ Restart

Spec == Init /\ [][Next]_vars
-----------------------------------------------------------------------------
(* Type correctness *)

GithubTypeOK ==
    /\ label \in [Issues -> StateLabels \cup {"none"}]
    /\ gh \in [Issues -> {"open", "delivered", "abandoned"}]
    /\ conflict \in [Issues -> BOOLEAN]
    /\ bounces \in [Issues -> Nat]

SessionsTypeOK ==
    /\ run \in [Issues -> {"idle", "live", "exited"}]
    /\ result \in [Issues -> Results]
    /\ stop \in [Issues -> Causes]
    /\ terminal \in [Issues -> Closings]
    /\ reviewSeen \in [Issues -> BOOLEAN]
    /\ retry \in [Issues -> {"none", "run", "escape"}]

LedgerTypeOK ==
    /\ known \in [Issues -> BOOLEAN]
    /\ failures \in [Issues -> 0..MaxAttempts]
    /\ cost \in [Issues -> 0..CostCap]
    /\ escalated \in [Issues -> BOOLEAN]
    /\ escaped \in [Issues -> BOOLEAN]

WorkerTypeOK ==
    /\ holds \subseteq HoldKinds \cup {"auth", "usage"}
    /\ fetchFailures \in 0..MaxFetchFailures
    /\ stopping \in BOOLEAN

TaskTypeOK ==
    /\ pc \in Places
    /\ from \in Callers
    /\ cur \in 0..N
    /\ work \subseteq Issues
    /\ seen \in [Issues -> Snapshots]
    /\ dispatching \in BOOLEAN
    /\ ticks \in 0..SweepEvery - 1

RestTypeOK ==
    /\ recorded \in [Issues -> 0..MaxAttempts]
    /\ logged \in [Issues -> BOOLEAN]
    /\ billed \in [Issues -> 0..CostCap]
    /\ restarts \in 0..MaxRestarts
    /\ handed \in [Issues -> BOOLEAN]
    /\ announced \in [Issues -> 0..2]
    /\ turn \subseteq Issues

TypeOK == /\ GithubTypeOK /\ SessionsTypeOK /\ LedgerTypeOK
          /\ WorkerTypeOK /\ TaskTypeOK /\ RestTypeOK
-----------------------------------------------------------------------------
(* Safety *)

\* An issue is in one pair of hands: a session's, a waiting retry's or the
\* task's own.  _start_run drops a retry in case "that should ever stop being
\* true"; an issue held twice would be worked beside its own retry.
ExclusiveHold ==
    \A i \in Issues : /\ run[i] # "idle" => retry[i] = "none"
                      /\ cur = i => run[i] = "idle" /\ retry[i] = "none"

\* No more sessions than agent.max_concurrent_agents, although the slot is
\* counted two or three awaits before the run that takes it starts.
SlotsRespected == Cardinality(Running) <= MaxAgents

Starts(i) == run[i] = "idle" /\ run'[i] = "live"

\* Whichever door the claim came through, and whatever was awaited between the
\* gate and the start, a run starts on an issue below both ceilings (#112).
RunsWithinBudget ==
    [][\A i \in Issues : Starts(i) => failures[i] < MaxAttempts /\ ~OverCost(cost[i])]_vars

\* No run starts while a hold is in force: the sweep and the retry timer ask
\* the same live holds, and nothing they await can raise one.
NoRunUnderHold == [][\A i \in Issues : Starts(i) => ~HoldNow]_vars

\* What an escape hands to a human stays handed over, in one process: no run
\* starts on the issue until a human has touched it, the conflict bounce being
\* what could return it (_record_escape).  The mark does not outlive the process.
HandedOverStays == [][\A i \in Issues : Starts(i) => ~handed[i]]_vars

\* The conflict bounce spends at most agent.max_conflict_reworks `rework`
\* labels on an issue, over the issue's life and across restarts.
BouncesBounded == \A i \in Issues : bounces[i] <= ConflictLimit

\* One escalation is one Blocked event, however often the bounce returns the
\* issue for the gate to refuse again.
AnnouncedOnce == \A i \in Issues : announced[i] <= 1

\* The sweep starts a `todo` step of a split only if this poll read the parents' order and
\* found no step before it open: a read that failed starts none, and neither does a poll
\* that skipped the read since nothing could be dispatched, though the slots, the holds and
\* the stop are asked for that before the bounce's answers and the candidates' awaits
\* (_ordered_parents: "an empty mapping cannot let a held step through").
SweepKeepsTheOrder ==
    [][\A i \in Split : Starts(i) /\ from = "dispatch" /\ seen[i].label = "todo"
                       => i \in turn]_vars

\* What docs/operations.md:236 says, whichever door a run comes through: a step read as
\* `todo` waits while a step before it is open. It does not hold, of a retry: _fire asks
\* the gate without the order (the README has the behaviour).
StepsWaitTheirTurn ==
    [][\A i \in Split : Starts(i) /\ seen[i].label = "todo"
                       => \A j \in Split : j < i => gh[j] # "open"]_vars

\* The gate and the ledger keep the promise of the abstract specification.
Budget == INSTANCE WorkBudget
            WITH working <- [i \in Issues |-> run[i] # "idle"],
                 chain <- failures, spent <- cost
KeepsBudget == Budget!Spec
-----------------------------------------------------------------------------
(* Liveness *)

\* The task runs whenever it can; a tick starts at every deadline, whatever
\* else the wait between ticks is given; a session told to stop ends.
FairTask == /\ WF_vars(Task)
            /\ SF_vars(StartTick)
            /\ \A i \in Issues : WF_vars(SessionEnds(i, "cancelled"))

\* GitHub answers a refresh that is asked again and again; a board comes to rest only
\* if its failures end.
RefreshAnswers == SF_vars(Refresh)
Failing == \/ RefreshFails \/ SweepFails \/ FetchFails \/ ReadParentsFails \/ HandBackFails
           \/ ClaimFails \/ EscapeFails \/ BudgetFails \/ FinishFails \/ FireFails
           \/ \E i \in Issues : BounceFails(i)
FailuresEnd == <>[][~Failing]_vars

\* A queued exit is taken in the end: a wait reads the queue first in, first
\* out, for a whole poll interval after its tick.
ExitsHandled == \A i \in Issues : SF_vars(HandleExit(i))

\* A retry that is due is fired before a wait ends.
RetriesFire == \A i \in Issues : SF_vars(FireRetry(i))

LivingSpec == Spec /\ FairTask /\ RefreshAnswers /\ ExitsHandled /\ RetriesFire

\* A session whose issue was closed or moved off the board's work is stopped.
Unwanted(i) == gh[i] # "open" \/ label[i] \notin {"in_progress", "review"}
UnwantedStops == \A i \in Issues : (run[i] = "live" /\ Unwanted(i)) ~> (run[i] # "live" \/ ~Unwanted(i))

\* A worker asked to stop stops, and leaves no session running, unless it is killed
\* and another takes its place.
StopDrains == stopping ~> (~stopping \/ (pc = "down" /\ Running = {}))

\* What is told to stop, a session or the worker, stops.
StopsArrive == UnwantedStops /\ StopDrains

\* A claim is not lost once GitHub's failures end: an issue left in progress, by a
\* crash, a stopped session or a failed escape, is worked again or moves on, while the
\* worker runs.
ClaimsAreKept == FailuresEnd =>
    \A i \in Issues : (label[i] = "in_progress" /\ gh[i] = "open")
                      ~> (run[i] = "live" \/ label[i] # "in_progress" \/ gh[i] # "open" \/ stopping)

\* A closed issue comes to rest, without a state label or complete, once GitHub's
\* failures end.
ClosedComesToRest == FailuresEnd =>
    \A i \in Issues : (gh[i] # "open")
                      ~> (gh[i] = "open" \/ label[i] \in {"none", "complete"} \/ stopping)

\* No issue is forgotten between the sweep, the retries and the candidates: the closed
\* come to rest, the claimed are worked or move on (terminal_sweep, _dispatch_candidates).
BoardSettles == ClosedComesToRest /\ ClaimsAreKept
=============================================================================
