# A verification development of issuebot

issuebot is a worker that polls a GitHub repository, runs a coding agent (a *session*) on the issues that carry its
state labels, and moves the labels as the work goes on. This directory holds TLA+ modules for the parts of it where
mistakes are expensive and hard to test: which issue is worked when, how often, on whose words and as whom; how its
sessions are supervised; what is filed of their verdicts; what is told of it all to the store and to Slack; and what
becomes of each when GitHub, a session, the store or the worker itself fails.

Paths below are relative to the repository root; `O:` stands for `src/issuebot/orchestrator/orchestrator.py`.

| file | what it is |
|---|---|
| `Admission.tla` | the gate every claim goes through (`orchestrator/admission.py`), as pure operators |
| `Orchestrator.tla` | the work-run core: one worker, the board, its sessions, its store |
| `WorkBudget.tla` | what the gate and the ledger promise of work runs; `Orchestrator` implements it |
| `Ledger.tla`, `MCLedger.tla` | the bounded ledger with its eviction order and its seeding |
| `AutoTriage.tla` | the scan that labels new issues, its watermark and the record that outlives a restart |
| `Triage.tla` | the triage and parent-review lanes of one issue: verdicts filed request by request |
| `Approval.tla` | whether the text a session is given is the text a human approved |
| `Workspaces.tla` | the clones, the accounts they are bound to, and their removal |
| `Turns.tla` | a run: its turns, its `claude` process, its deadline, its stop, and the session it resumes |
| `Services.tla`, `EventLog.tla` | the bus, the Slack sink and the store's sink; the history they promise |
| `Egress.tla` | the CONNECT proxy: its counts, its relays and its end |
| `Hub.tla` | the web process's two alerts, and the request for a tick |
| `OrchestratorProofs.tla`, `AutoTriageProofs.tla`, `ApprovalProofs.tla`, `WorkspacesProofs.tla`, `TurnsProofs.tla`, `TriageProofs.tla`, `ServicesProofs.tla`, `StandaloneProofs.tla` (of `Egress`, `Ledger` and `Hub`) | machine-checked proofs |
| `*.cfg` | one TLC configuration per run of `PROJECT.json` |

## 1. Inventory

### 1.1 The system

One process holds one asyncio task, the worker's loop (`Orchestrator.run`, O:4131): a *tick* every poll interval, and
between two ticks a *wait* in which the exits of finished sessions and due retries are handled. Sessions are tasks of
their own that drive a `claude` subprocess turn by turn. All state that decides anything lives on GitHub (labels,
open/closed, pull requests, label history, comments), in the memory of the process (the ledger, retries, holds), in a
`session.json` beside each workspace, and, when configured, in a PostgreSQL history store that seeds the next process.
The worker takes no locks; what protects it is that a handler runs alone between two `await`s. At every `await`,
humans and agents may have moved the board.

| component | state | operations | talks to | what is hard | what makes it correct |
|---|---|---|---|---|---|
| Work-run orchestration (`orchestrator/orchestrator.py`, `actions.py`, `state.py`) | `_running`, `_retries`, ledger, holds, tick count | tick: reconcile, sweep, holds, fetch, conflict bounce, candidate sweep; claim; escapes; close-out; exits; retries; shutdown | GitHub adapter, gate, sessions, store, bus | snapshots that are several awaits old; failed writes; restarts; three doors to a claim | one hand per issue, slots, budget, no run under a hold, escapes final, orphans reclaimed, shutdown ends |
| Admission gate and ledger (`orchestrator/admission.py`) | per issue: chain of failures, spend, refusal, escalation; a bounded order | `admit`, `dispatched`, `failed`, `cleared`, `spent`, `observed`, `escalate`, `mark_escaped`, `refused`, `forget`, seeding | called by the orchestrator only | the order of the refusals; eviction; what a restart may restore | the budget survives label moves and restarts; the right entry is evicted |
| Label state machine (`github/state.py`) | none | `classify_closed`, transition table, roles | orchestrator, adapter | who may write what | every closed issue ends unlabelled or complete |
| Triage filing (`orchestrator/triage.py`, `agent/verdict.py`, O:2185-2795) | pending verdicts, filing progress | triage sessions; file sub-issues, comment, relabel; retry a failed filing | adapter, sessions, gate | several writes, each may fail, retried from memory | each sub-issue and comment once, in order |
| Parent review (`orchestrator/parent_review.py`, O:2796-3317) | watches over split parents | review a parent whose steps are closed; file gaps; hand over | adapter, sessions | steps reopened during a review; the gap limit | a parent is reviewed until complete or handed over, never for ever |
| Auto-triage (`orchestrator/auto_triage.py`, O:2042-2181) | watermark, labelled set, record in the store | label each issue opened since the watermark | adapter, store | a refused write, a restart between the write and the record | each issue at most once and none skipped |
| Approval (`orchestrator/approval.py`, O:1796-1900) | verdict cache by stamps and text | decide from label and edit histories whether the text a session will read was approved | adapter | edits within the second of a stamp; the cache | nothing unapproved is worked |
| Agent session (`agent/session.py`, `runner.py`) | turn count, deadline, record | turn loop, cancellation, stop reasons | worker, subprocess | cancellation, timeout and outcome race | exactly one outcome, the right one |
| Workspaces and session privileges (`agent/workspace.py`, `boundary.py`, `runas.py`, ...) | directories, their owner, mode and marks | create, share, seal, remove, sweep | OS, orchestrator | a clone, a hook or an unlink that fails or is killed part way | open only to the account at work in it; removed in the end |
| Account pool (`agent/accounts.py`) | a recorded account per workspace | bind, allocate, prune, load | sessions | bindings outlive runs and pools | no two sessions share an account |
| Egress proxy (`egress.py`) | connections, tunnels, one saturation mark | serve a connection, relay, drain | sessions, hosts | connections that fail at any await; half-closed tunnels | every count given back, nobody held for ever |
| Turn log (`agent/turnlog.py`) | files | capture, scrub, cap | sessions | data, not control | - |
| Event bus and log sink (`events/`) | subscribers | publish | all | a sink that raises | isolation |
| Store (`db/`) | run rows, a bounded queue | sink task, readers, seed | worker, web | the database away; what is dropped | order, boundedness |
| Refresh channel (`db/listen.py`) | one pending refresh | LISTEN, reconnect | web, worker | one that comes during a tick, or right after another | a request that is heard starts a tick |
| Slack notifications (`notifications/`) | a bounded queue | post, retry, shut down | bus | failed posts, shutdown | bounded wait |
| Web dashboard (`web/`) | none of its own | read-only pages | store | - | - |
| Usage and minutes alerts (`web/actions.py`, `web/claude_limits.py`, `github/billing.py`) | alert marks in the store | poll, claim, post, release | store, Slack | two processes; a post that fails; the turn of the month | what Slack answered for not again in its period, nothing lost that was not claimed |
| GitHub adapter (`github/ghcli.py`, ...) | none | reads and label writes through `gh` | GitHub | a failure half way | all or an error |
| Configuration (`config/`) | none | load, validate, reload | all | - | - |
| Command line and logging (`cli.py`, `log.py`) | none | entry points, the ledger's seed | all | - | - |

`PROJECT.json` lists the same components with what is and is not modelled, and the hazards of the code line by line
with the properties that watch each.

### 1.2 What is not modelled, and why

* **Egress policy, turn log, configuration, web pages, command line, message and prompt text, scrubbing,
  `runas.py`'s delegation and its sweeps of a home**: parsing, wording, files and subprocesses one at a time, which
  have no interleavings a model checker would add to.
* **The GitHub adapter** is modelled as its callers see it: a read answers with the board of one instant, a write
  happens or fails. Where a caller has to live with more, the module of the caller has it: writes that are applied and
  report a failure (`AutoTriage`, `Triage`), answers that miss the worker's last write (`Services`), listings that
  miss what is new (`AutoTriage`), two reads of a history that goes on (`Approval`).
* **Inside the work-run core** (`Orchestrator`): workflow reload (a change of the constants; a reload of the pool is
  in `Workspaces`), account binding and its holds, the retry backoff's clock (a waiting retry may fire at any wait),
  log lines, comments and events other than the Blocked event of the budget escape. A session that GitHub no longer lists
  ("missing") is left out: issues are not deleted. The bounce's notes of a limit reached or a write refused only spare
  calls and are left out.
* **Between the modules**: each module models one protocol and lets the others do, at any time, what they may do. What
  `Orchestrator` assumes of a session is `SessionEnds`; of an approval, one of three answers; `Triage` takes from the
  work lane that labels and steps move. No module composes two of them beyond the refinements `KeepsBudget` and
  `KeepsHistory`: every composition tried was past what TLC finishes.

What each module leaves out of its own code is listed with it in section 2.

## 2. The modules and the code

### 2.1 Admission

`Admit(req)` is `admit` (`admission.py:378-426`): the eight preconditions in their order, over the request the caller
has gathered. `Waits` and `BudgetRefusals` are what a `Refused` verdict's `wait` and `ends_turn` say;
`SeededChain` caps a chain recalled from before this process one below the ceiling.

### 2.2 Orchestrator

**Granularity.** The worker is one task, so one action is the code between two awaits. `pc` says where the task is,
`cur` which issue it has in hand, `from` which loop it returns to, `work` which issues the loop has left, and `seen`
what was read of each issue and not read again. All other actions (humans, agents, sessions, the signal handler,
restarts) may happen at any `pc`, that is, at any await.

| actions | code |
|---|---|
| `StartTick`, `Refresh`, `RefreshFails` | `tick`, `_check_stalls`, `_refresh_running` (O:1062, 3327, 3352) |
| `Sweep`, `SweepNext`, `SweepDone`, `SweepFails` | `_terminal_sweep` (O:3445), every `TERMINAL_SWEEP_EVERY_TICKS` ticks |
| `SettleHolds` | `_settle_usage_hold`, preflight, `_refresh_auth_hold` and the branch that decides whether the tick polls or dispatches |
| `Fetch`, `FetchFails` | `_fetch_issues`, and the GitHub hold after `MAX_FETCH_FAILURES` |
| `Bounce`, `BounceFails`, `BounceDone` | `_bounce_conflicts`, `conflict_rework` |
| `ReadParents`, `ReadParentsFails` | `_read_parents`, `_order_hold` |
| `DispatchNext`, `DispatchDone` | `_dispatch_candidates`, `_handle_refusal`, `_resume_plan` |
| `Assess`, `HandBack`, `Claim` and their failures | `_dispatch`, `_assess_approval`, `claim`, `_start_run`, the two label-clearing escapes |
| `EscapeRead`, `EscapeWrite`, `BudgetRead`, `BudgetWrite` and failures | `blocked_escape`, `budget_escape`, `_record_escape` |
| `Finish`, `FinishFails` | `_finish`, `finish_terminal` |
| `HandleExit`, `FireRetry`, `Fire`, `FireFails` | `handle_worker_exit`, `_after_failure`, `fire_due_retries`, `_fire`, `_wait_or_release` |
| `Shutdown`, `Kill`, `Down`, `RequestStop` | `shutdown`, the signal handler |
| `SessionEnds`, `AgentReview` | how a session ends and what its record says, as the worker sees it |
| `HumanLabel`, `HumanClose`, `HumanReopen`, `PullRequestMoves` | GitHub moving at any time |
| `Restart` | the process dies or is redeployed; `_initial_ledger` and `queries.ISSUE_LEDGERS` seed the next one |

`failures` and `cost` are the ledger's chain and spend; spend is counted in units up to the cap, beyond which more is
as good as the cap. `handed`, `announced` and `turn` are history variables: an escape has handed the issue to a human who
has not touched it since; how often the budget escape published its Blocked event since the issue last ran; the steps
that this poll's read of the parents found with no step open before them (none when the read failed or was skipped).

The order a split's steps must keep is the order of their numbers (`Split`); an issue in `OperatorSteps` carries the
operator's label.

### 2.3 WorkBudget

What the gate and the ledger promise together, without a board, a task or a label: a run begins only below both
ceilings and with a slot free, neither figure moves under a run, and only a run that ended, a hand-over, a close-out
or a new process lowers the chain. `KeepsBudget` states that `Orchestrator` implements it, with `working` as "has a
run", `chain` as `failures` and `spent` as `cost`.

### 2.4 Ledger

The orchestrator's model keeps every issue it ever knew; the code keeps at most `LEDGER_LIMIT`. `Ledger` models the
ordered dictionary itself: which operation moves an entry to the end (`_put`), which writes in place, what is
evicted, and the order in which a seed is read in (`Ledger.__init__` sorts it). `since` is a history variable: the issues
written after a given one was last written.

### 2.5 AutoTriage

The scan shares nothing with the work-run core but the task it runs in, so it is a module of its own. An action is
again the code between two awaits.

| actions | code |
|---|---|
| `SettleSetting` | `settle`, `_settle_auto_triage`, `_record_auto_triage` |
| `Scan`, `Read`, `ReadFails`, `Answer` | `_scan_for_auto_triage` up to its loop; `fetch_issues_opened_since` |
| `PassOver`, `Label`, `LabelFails`, `ScanDone` | one round of the loop, its refusal, and the record at the end (O:2126-2178) |
| `Write`, `Lose` | the store's sink takes a published record, or it is dropped |
| `Restart` | the process dies; `_initial_auto_triage` and `queries.AUTO_TRIAGE_STATE` |
| `Open`, `Tag`, `Untag`, `Toggle`, `Second` | GitHub, humans, `WORKFLOW.md`, the clock |

Issues are numbered in the order in which they were opened. `tagged` stands for all that `skip_reason` looks at.
`Read` is the moment GitHub takes its answer: issues opened less than `Lag` ago may be missing from it. The answer
arrives at most `ReadTime` later, and only then does the code take `self._now() - SETTLE`; so what must fit in
`SETTLE` is `Lag + ReadTime`, the module's assumption. A write that times out may have put the label on all the same.
`from` (in a record), `decided` and `labels` are history variables: the switching on a record follows, the
issues some scan decided, and the labels the present process knows it put on.

Left out: the interval between scans and the hour after a page ceiling (a scan may start whenever auto-triage is on);
closing an issue; records of the listing that cannot be read, which the adapter skips with a warning; a difference
between GitHub's clock and the worker's, which `SETTLE` has to cover as well.

### 2.6 Triage

One issue that asks for triage, and the sub-issues it is split into. A session judges it and writes nothing; the
worker files the verdict, one request after another, and an action is one request with what the worker decides on its
answer up to the next. A fault is a request that fails, applied or not.

| actions | code |
|---|---|
| `HandBackVerdict`, `HandRead`, `HandBack` | `_retry_pending_verdicts`, `_triage_hand_back`, `_triage_give_up`, `triage_escape` |
| `HandOver` | `_hand_over_parent`, `_hand_over_failed_review`, `_hand_over_at_gap_limit`, `parent_hand_over` |
| `OwedRead`, `StepsRead` | what a filing reads first: `_verdict_owed`, `_parent_review_owed`, `steps_as_seen` |
| `Begin`, `List`, `Create`, `Mark`, `Swap`, `Close`, `Comment` | `_file_verdict` with `apply_verdict`, `_file_parent_review` with `apply_parent_review`: drafts are matched by title with the steps that are there |
| `Retry`, `TryFails`, `Discard` | the verdicts and reviews kept in memory (`_triage_pending`, `_parent_pending`) |
| `CandidatesRead`, `Approval`, `Start` | `_dispatch_triage`, `_dispatch_triage_one` |
| `AskToWait`, `RequestedReview` | `_dispatch_requested_review`: `triage-todo` on a parent that has steps |
| `WatchRead`, `WatchIssues`, `WatchApproval`, `OverCap` | `_dispatch_parent_reviews` over the watched parents |
| `SessionEnds`, `ExitWithVerdict`, `ExitFailed`, `Exit`, `Expire` | the exits of both lanes and their backoff |
| `Store`, `Restart` | the sink writes a parent's record; the process dies and reads it back |

Limits: one issue; an issue that is gone is one that is closed; the comments that only tell of a failure are not
requests of their own; a refused admission, an unreadable approval and a wait for an account are one bounded fault;
the refusals "budget" and "unapproved" are one; page ceilings and the reads that only run with a free slot are left out;
humans unlink all steps or none. Drafts whose titles scrub to the same text share one sub-issue, as in the code. A
comment whose write timed out may be posted again. A crash between the comment of a split and the write of its record
leaves the parent unwatched, until a human asks.

`handed` is a history variable: the parent was handed over, and neither a human asked again nor did a verdict that was
still owed take it back since. `acted`, `gaps` and `vain` count the reviews acted on, the gap rounds and the failed
sessions since a human last touched the issue or a split was filed. `StepsStayHeld` leaves out one hand-back: a `fits`
handed back unread may take the last triage label off a parent whose review filed steps meanwhile (section 6).

### 2.7 Approval

`log` is what GitHub remembers of an issue in its true order; readers see whole seconds of it. The `asker` polls the
issue, reads the labels and titles, then the bodies (`approval_evidence` is two paginated reads), and starts a session
on the text of the poll. `Assess` and `AssessAuthorship` are the two rules; `remembered` is the worker's memory of
verdicts. Limits: the issue is for one lane at a time; an edit that restores an older text makes a new one; the
association and the rights behind a label are read as they are; `_own_labels_approve`, decided once in a process, is
constant; of the worker and `run-once` one asks. A label applied again between the poll and the reads approves the
polled text, as the code takes it, though whoever applied it may have read a later one. A session's later turns read
the issue anew and are not checked again.

### 2.8 Workspaces

`disk` is what outlives the process: of each issue's directory the tree (`partial` stands for anything a clone or a
removal left half way), the account its files belong to, the account it is open to, and the mark that asks for
removal. `bindings` is the registry's file; `running`, `retries` and `discards` are the worker's memory; `orch` is
where its one task is: idle, or in the steps of a sweep or a removal. Limits: `run-once` beside the worker, an
unreadable registry, a graceful stop and a seal that fails are left out; which of two equally loaded accounts is taken
is open. A clone that was torn in a way that looks complete cannot be told from a whole one.

A removal marks the directory, opens it to its account, unlinks it and, if it *failed*, marks it again and seals it. Two
things can come between a directory and its mark: the disk may refuse the mark, and the code goes on without one
(`MarkFinished`, `_mark_finished`); and the unlink goes in the order the disk lists, so that a kill in the middle of it
may leave the clone with the mark already gone (`Torn`), after which nobody marks it. `lost` is a history field that
records which of the two happened to the directory last, and `FinishedIsAskedFor` exempts those two and nothing else.
What `finished_keys` says of itself is more (section 6).

### 2.9 Turns

One issue's runs in a row. `run` is the task of `run_session` (or `run_triage`): its phase is the await it is at, its
`cancel` the event it looks at in some places only, `hard` a cancelled task. `claude` is a process group: a leader and
a child that may hold the pipe. `record` is `session.json`, `row` what the store was told. The actions `Prepare` to
`Close` are the steps of a run, `Silence`, `DeadlineReached`, `StreamEnds`, `Reaped` and `Terminated` those of
`_read_stream` and of the kill, `StallStops`, `RefreshStops`, `StopRun`, `Forced` and `GiveUp` the worker's. A run that
got no workspace, or whose record could not be written, leaves the record as it was (`fate` is "unsaved"): the next run
resumes the session that record speaks of. Limits: an
error result stands for all of claude's own refusals (usage, authentication, a failed turn); an unreadable record is
left out; attempts are counted in `Orchestrator`; the `claude` of a killed worker dies with its container.

### 2.10 Services and EventLog

One issue stands for the board. `told` is what the newest view or event written says of each field of its row. The tick
reads, tells the bus and the sink, and moves the issue; `sink` and `slack` are the two queues with their drain tasks;
the shutdown closes Slack, then the sink, each within its time. "Lag" is that an answer may miss the worker's own last
write. `EventLog` is an append-only history of numbered events, of which the newest may be there more than once;
`KeepsHistory` states that the events table is one: an event is written again when the answer to its commit was lost, and
then it stands beside itself. Limits: the snapshot slot,
the capture and scrubbing of turn files, the channel to the log and the lengths of delays are left out; failed reads
count against the bound on upsets.

### 2.11 Egress

A client stands for the connections it makes one after another, and an action is the code of `Proxy.handle` between
two awaits. `host` is the far end as the relays know it; `unread` says for which peers the proxy keeps bytes they have
not read. A relay to the host waits in `drain()` and both `_close`s in `wait_closed()` until the peer has read or gone: no
time bounds either. A stop closes the listening socket (`Stop`), drains for a while, and then `asyncio.run` cancels each
handler once (`Cancel`), which leaves those of tunnels and of counted connections in their `finally`; the process ends
only when all of them are done (`Exit`). What a client does is told apart only while the proxy listens to it (`Heard`).
Where a request goes is told apart only by what the proxy answers.

Limits: the bytes that are relayed, the probe, and the resolver's and the parser's work; `asyncio.run` also joins the
resolver's thread, which the system's resolver bounds. A reply and the 200 are taken to fit what the kernel buffers.

### 2.12 Hub

Three parts that go through the store and share nothing else; a behaviour is of one of them (`part`). The two alerts
have the same shape: read, look at the memory, claim it, post, give the claim back. The minutes' memory is one row,
of one month; each of claude's windows has its own. A post that fails may have reached Slack all the same, its answer
late (`PostFails`, `_post_blocking`); a statement that fails may have been committed, its answer lost (`StoreFails`,
`Carried`): a claim that this leaves behind is held for good, and so is one whose process stops before it gives it back.
History variables: `posted` counts the messages Slack answered for, or whose process ended with the claim kept, `unheard`
those that reached it though their post failed, `held` names the periods with a claim held for good. For the refresh,
`asked`: a NOTIFY reached the connection, and no tick has started since; an outage takes from it only what was still on
its way. Limits: the dashboard's throttle and the wait after a refused post are only
time; the row's error text and `/healthz` are left out; thresholds are told apart by their order. A NOTIFY that comes while
nobody listens is lost, though `POST /refresh` answers that it is queued. A `previous` read while another process's
claim was not yet posted may put that claim's threshold back in place of a lower one that was never posted; use goes on
rising, and the next threshold is posted.

## 3. The runs

Each run takes a few minutes at most. `CHECK_DEADLOCK FALSE` is set because the modelled systems really stop: a
worker that was asked to ends in `pc = "down"`, and with the bounds on restarts, runs, clocks and humans nothing may be
left to do. `triage`'s humans may always act on a step, and it is checked for deadlock.

| run | question | bounds, and why they are enough |
|---|---|---|
| `split` | `ExclusiveHold`, `SlotsRespected`, `SweepKeepsTheOrder`: three steps of a split, the middle one an operator's, compete for one slot while GitHub may fail | three issues, so one runs, one waits in a retry and one is in the sweep; the claim's awaits lie between the count of the slot and its use; a poll may lose its read of the parents, or skip it. `SweepKeepsTheOrder` was run once with two steps that humans also reopen while the worker is asked to stop (3.8 million states) |
| `escapes` | `HandedOverStays`, `AnnouncedOnce`, `RunsWithinBudget`, `NoRunUnderHold`, `BouncesBounded`, `KeepsBudget`: every way a session ends, every hold, the bounce, failing calls, a cost cap and a restart | one issue, because these properties are about one issue and the holds; two attempts distinguish the first failure from the last; one bounce suffices to send an escaped issue back; one restart at any step, with a store that may have kept any of its rows |
| `recovers` | `StopsArrive`, `BoardSettles` under `LivingSpec` | one issue, one restart, stalls, failures of GitHub, a stop request, humans who close and relabel for ever |
| `ledger` | `KeepsRecentlyRun` | three issues for two places, so one is evicted, across restarts; four runs; symmetric issues |
| `auto_triage` | `NoneSkipped`, `LabelledOnce`, `FinalOnceStored`, `NewIssuesAreDecided` under `FairSpec` | two issues, in one second or in two: one refused behind a labelled one of its second, one listed late behind a newer one; one switching and one restart, at any step; a clock long enough for an issue to settle twice |
| `triage` | `FiledAsDrafted`, `SessionsBounded`, `StepsStayHeld`, `HandedOverWaits`, `LanesSettle` under `FairSpec` | two drafts, one an operator's, so one is filed when the next request fails; two attempts; one review and one gap round; one act of a human, one fault and one crash, anywhere between two requests. Run once with one draft, two or three acts and three faults (10.6 million states) when the proofs were written |
| `approval` | `RunsApproved`, `LabelsAnswered` under `FairSpec` | three labels and edits over two seconds: what approves, what comes within its second, and what follows; a history of two records is the longest that can be read, so one too long is reached; one fault |
| `workspaces` | `SessionsApart`, `IdleIsSealed`, `WorksInItsOwnClone`, `FinishedIsAskedFor` | three issues for two accounts of each of two pools that share one; as many upsets as make a failed clone and a failed removal meet a kill or a reload, and as take a mark by a kill or a refusal. `FinishedIsAskedFor` was run once with two issues and four upsets |
| `turns` | `ResumesInterrupted`, `EndsWell`, `EndsInTime` under `FairSpec` | two runs, so the second may resume the first; two turns, so there is a between; two upsets. Three runs, three turns and two upsets (11.7 million states) were run once: an earlier form of `ResumesInterrupted` failed only with three runs |
| `services` | `RowIsNewest`, `RestIsStored`, `LossIsCounted`, `KeepsHistory`, `ClosesInTime` under `FairSpec` | four things told, queues of two and of one, two attempts of a post, two upsets: a lost connection under a full queue, a move before a crash |
| `egress` | `SlotsReturned`, `EpisodesLogged`, `EndingsReached` under `EgressFairSpec` | three clients for two connections and one tunnel: one is refused, one tunnels, one waits; each may leave unread what is kept for it. `EndingsReached` is conditional on peers that read or go |
| `hub` | `NotPostedAgain`, `HubDelivers` under `HubFairSpec` | two processes, which is what an upgrade has for a moment, two thresholds, two months, one outage, two failed posts, lost answers or restarts (`NotPostedAgain` once with three, 1.8 million states). Of three processes `NotPostedAgain` would not hold: a claim of the higher threshold, given back, restores what it saw before the lower one was posted, and a third process that read the lower one earlier may post it again |

Each property of a run has a mutant: a plausible bug of the definition it watches, which the run must find.
The mutants stand in the modules beside the definition they change, marked `Mutant:`. A type invariant of each module is
checked or proved in development and kept beside the properties; only the inductive ones are theorems.

Some properties are conjunctions of named parts: `BoardSettles` (`ClosedComesToRest`, `ClaimsAreKept`), `StopsArrive`
(`UnwantedStops`, `StopDrains`), `FiledAsDrafted`, `SessionsBounded` (`RoundsEnd`, `GapsEnd`, `FailsInBounds`),
`LanesSettle` (`RequestAnswered`, `VerdictSettled`, `WatchSettles`), `EndsWell`, `EndsInTime`, `EndingsReached`,
`HubDelivers`.

`HandedOverStays` is a promise of one process. The mark that an escape handed the issue over (`LedgerEntry.escaped`)
is not in the store, so after a restart the conflict bounce may return the issue to `rework`; its own limit then
holds (`BouncesBounded`). The history variable `handed` starts anew with each process.

### Fairness

Safety needs none. What liveness assumes is named one by one in each module.

`Orchestrator` (`LivingSpec`):

* `FairTask`: the asyncio loop runs the task whenever it can run; a tick starts at each deadline, however many exits
  and retries the wait is given (strong fairness of `StartTick`: the wait's own actions would otherwise disable it for
  ever, which its timeout forbids); a session that was told to stop ends (its runner kills the subprocess: `EndsInTime`
  of `Turns`).
* `RefreshAnswers`: a refresh that is asked again and again answers some time. It is needed: a session whose issue is
  closed cannot be stopped by a worker that never hears of it.
* `ExitsHandled`, `RetriesFire`: a wait takes what is in its exit queue and what is due before it
  ends (`_wait_for_next_tick`, O:4141), first in, first out.
* `FailuresEnd` is the hypothesis of `BoardSettles` alone: from some time on GitHub's calls succeed. A close-out that
  fails for ever never ends; the code's answer to a failure is the next sweep.

`AutoTriage`: the task runs and time passes; GitHub answers a read that is asked again and again, and takes a label that
is written again and again. The last is needed: the watermark waits behind a refused issue, so one whose label GitHub
refuses for ever holds up every later one, which is what the code chose over skipping it.

`Triage`: the loop goes on, a session ends (its turn timeout sees to it), a backoff is over. Faults are bounded, which
is the assumption that GitHub recovers.

`Approval`: the worker goes on with its ticks, and a session ends.

`Turns`: the run's awaits return (hooks and GitHub's calls have timeouts of their own, SIGKILL is not refused), the
clock and the shutdown's patience go on. Of `claude` nothing is assumed, but that `DeadlineEnds` has the hypothesis
`OutputEndsLast`: a claude that has closed its output and lives on is waited for without a limit (section 6).

`Services`: only the timers of the shutdown fire; nothing is assumed of Slack or the store.

`Egress`: the proxy's own awaits return, each for its reason: the request and the connection to the host have timeouts, a
reply is written without waiting. A relay, its `drain()` and `_close` go on once their peer has read or gone, and of
the peers nothing is assumed: that the host answers and that what is kept for a peer is read at some time, or dropped as
it goes, are the hypotheses `HostAnswersIt` and `PeersRead` of `EndingsReached`. Without `PeersRead` a stop need not end
(section 6).

`Hub`: a cycle goes on and another follows; GitHub does not answer for the month before for ever (strong fairness of a
poll of this month, of one process at least); the store comes back; the listener's and the worker's tasks go on. The
end of the polling interval is not relied on: `RefreshHeard` would say nothing if it were.

`FinalOnceStored` speaks of the store's watermark and not of the worker's: a process that dies before its record is
written comes back behind what it had decided, and may put back a label taken off in between. `LabelledOnce` is for
the same reason a promise of one process.

No fairness is assumed of humans, agents, or sessions that were not told to stop: a session may run for ever, and
`ClaimsAreKept` does not say otherwise.

## 4. What is proved

`OrchestratorProofs` proves, for every number of issues, slots, attempts, every cap, limit and choice of environment
allowed by `BudgetAssumption` and `OrchestratorAssumption` (the assumptions are: the counts are positive naturals, the
limits naturals, the sets subsets of the values the model knows), and with no bound on restarts but `MaxRestarts \in
Nat`:

| theorem | statement |
|---|---|
| `Invariance` | `Spec => []IInv` |
| `TypeCorrect` | `Spec => []TypeOK` |
| `SlotsAreRespected` | `Spec => []SlotsRespected` |
| `HoldIsExclusive` | `Spec => []ExclusiveHold` |
| `RunsAreWithinBudget` | `Spec => RunsWithinBudget` |
| `NoRunStartsUnderHold` | `Spec => NoRunUnderHold` |
| `BouncesAreBounded` | `Spec => []BouncesBounded` |
| `MarksKept` | `Spec => []MarkInv` |
| `AnnouncedAtMostOnce` | `Spec => []AnnouncedOnce` |
| `HandsKept` | `Spec => []HandInv` |
| `HandedOverStaysSo` | `Spec => HandedOverStays` |
| `BudgetIsKept` | `Spec => KeepsBudget` |
| `OrderKept` | `Spec => []OrderInv` |
| `SweepKeepsOrder` | `Spec => SweepKeepsTheOrder` |

**The argument.** `TypeOK` alone is not inductive: the chain stays at or below `MaxAttempts` only because a run never
starts at the ceiling, and the slots are respected only because what the gate found free two awaits ago is still free.
`IInv` strengthens it with

* `OneInHand`: where the task stands decides whether it has an issue in hand, and to which loop it returns;
* `ExclusiveHold`: the issue in hand is neither running nor waiting;
* `ClaimsFit`: at every place between the gate's answer and the run, a slot is still free, no hold is in force and
  the issue in hand is still below both ceilings. This is the fact the code relies on without saying so: only the
  task itself takes slots, raises holds and charges the ledger, and it does so only between ticks;
* `RunsBelowCeiling`: an issue with a run is below the ceiling, so its exit may lengthen the chain by one;
* `SlotsRespected`.

Each conjunct has a lemma "every step preserves it", with one step per group of actions; `Invariance` combines them,
and the theorems follow from it. `BouncesBounded` is inductive once the type of `bounces` is known.

**Escalations.** `MarkInv` relates the history `announced` to the ledger's mark. An issue announced is announced once,
is not running, and is either marked `escalated` or not refusable by the budget any more (`MarkHolds`); the escape in
hand is of an issue the budget still refuses (`RefusedInHand`); and whoever has a run, a figure or an escape owed has an
entry in the ledger (`OwedIsKnown`), so the mark is never written to an entry that is not there.

**Hand-overs.** `HandInv`: an issue handed over and not touched since *rests*: its label is none, `complete` or
`review`; with `review` it bears the mark the bounce looks for; what the task last read of it is no older than that; it
has no run. `ClaimsUnhanded` carries this over the awaits of a claim, and `FinishRests` over a close-out that was
decided before. It is here that a snapshot several awaits old could have undone an escape.

**The order of a split.** `OrderInv` says that while a sweep goes on, each step of a split that it read as `todo`, an
operator's aside, is held back, or was found with no step open before it, or nothing can be started in this sweep at all
(`NothingStarts`: the slots are full, a hold is in force or a stop was asked for). The read of the parents is skipped for
such a reason alone, and the reason lasts until the sweep is over, although the candidates' awaits come between. The step
whose claim is under way (`Placed`) was found foremost. A retry never comes back to the sweep, which is why the promise
is the sweep's alone.

**Refinement.** `BudgetStep` maps each step of `Orchestrator` to a step of `WorkBudget` or a stutter, under the mapping
of section 2.3, given `IInv`. Only `Claim` and `Fire` begin a run; the slot the abstract `Begin` asks for and the
ceilings it names are `ClaimsFit`. Exits, escapes, close-outs and restarts lower or raise a chain as `WorkBudget` allows.

`AutoTriageProofs` proves, for every number of issues, clock, number of switchings and restarts, and every `Settle`,
`Lag` and `ReadTime` with `Lag + ReadTime <= Settle` (`AutoTriageAssumption`):

| theorem | statement |
|---|---|
| `AutoTriageInvariance` | `Spec => []AutoTriageInv` |
| `NoneIsSkipped` | `Spec => []NoneSkipped` |
| `StoredIsFinal` | `Spec => FinalOnceStored` |
| `LabelsOnce` | `Spec => []LabelledOnce` |

**The argument.** `NoneSkipped` speaks of the record of the moment; any record on its way to the store may become that
record after a restart, so all of them must be faithful (`RecordsFaithful`), and must stay so as issues are opened:
nothing is opened at or before a watermark that a scan moved, because it lies at least `Lag` in the past.
`AnswerComplete` says that the answer lists every issue opened at least `Lag` before the read was asked, which is where
`Lag + ReadTime <= Settle` is used; `DecidingInOrder` relates the loop's two watermarks to what is decided and what is
left, and is the reason that a refusal may fall back to `behind`. `StoredBehind` says that no record in the store or on
its way there is ahead of the one a scan starts from; `FinalOnceStored` follows, as a scan labels past its own record.
`LabelledOnce` needs that the process remembers what it labelled (`Remembered`): the loop passes over what it
remembers, and a restart forgets both. `AutoTriageInv` was checked by TLC, under the constants of `auto_triage`, before
it was proved.

`StandaloneProofs` is of three components that share nothing. Its module extends all three, which is why their `Init`,
`Next` and `Spec` bear their names. It proves

* of `Egress`, for any finite set of clients and any two ceilings (`EgressAssumption`);
* of `Ledger`, for any finite set of issues, any `Limit` of one or more, any `SeedLimit` and any number of runs and
  restarts (`LedgerAssumption`);
* of `Hub`, for any number of thresholds and periods (`HubAssumption`), outages and faults, where there are at most two
  web processes (`TwoWebs`, the hypothesis of the theorem):

| theorem | statement |
|---|---|
| `EgressInvariance` | `EgressSpec => []EgressInv` |
| `SlotsAreReturned` | `EgressSpec => []SlotsReturned` |
| `EpisodesAreLogged` | `EgressSpec => []EpisodesLogged` |
| `LedgerKeepsRecent` | `LedgerSpec => []KeepsRecentlyRun` |
| `AlertsNotPostedAgain` | `(TwoWebs /\ HubSpec) => []NotPostedAgain` |

**The argument for the proxy.** Each count is the cardinality of the connections at the places in the code where it
stands for one; a step moves one connection in or out of such a set and the count with it. `low`, the history of the
lowest count since the last line, is never above the count, and below `RecoveredAt` just when the mark was reset.

**The argument for the ledger.** `KeepsRecentlyRun` counts the issues written since one was, the code keeps only an order.
`QueueInv` joins them: whoever stands later in the queue was written later (`Written`), and whoever is not in it saw
`Limit` others written since. The key a write evicts is the first of `Limit + 1`: the others, each named once, are the
`Limit` written after it. A seed satisfies the same because it is sorted on the way in; in the order its reader
produces it would not, which is the mutant. Issues forgotten when they are closed out are not missed.

**The argument for the alerts.** `NotPostedAgain` is not inductive, since nothing in the store says what was posted.
`Remembered` says what stands in for it. Where a threshold was posted and Slack answered for it: nobody holds a claim
of it; if use is still there, the memory is at it or above; so it is for a process that read it earlier and may still
claim it; and a higher claim that may be given back restores at least that threshold. `Excluded` says the same of a
threshold that is claimed and not yet posted, `HighestHeld` that the highest claim is never below what the memory
says, and `LaterMonthsOpen` that the reading that starts a new month's row finds nothing posted or claimed of it. A
release restores what its process saw, so that it keeps the other's reading covered is true only because there is no
third process whose post came between: this is where `TwoWebs` is used, in the post and in the release. A claim that
was committed and its answer lost is nobody's, and never given back: it covers what it covers from then on.

`ApprovalProofs` proves, for any ceiling of a read (`ApprovalAssumption`) and any number of labels, edits, seconds and
faults, whatever the bounds are:

| theorem | statement |
|---|---|
| `Invariance` | `Spec => []IInv` |
| `OnlyApprovedRuns` | `Spec => []RunsApproved` |

**The argument.** The stamps follow the order of the history (`Stamped`), and the text after a record is, field by
field, that of the last edit up to it (`Texts`), so it only moves forward. An asker's snapshot is a text of the history
and its evidence is read later (`Reads`). A verdict, remembered or acted on, has *grounds*: an approving label that the
text is of, or that went on after a record with that very text; or, for triage, a standing author's own edits only.
`ApprovedHasGrounds` is the heart: an edit that came after the label bears a stamp no earlier than the label's, so
`assess` refuses it unless it is the approver's own, also where the second hides the order. Grounds never lapse, as the
history is only added to, and a verdict remembered under the same text and standing is a verdict for the same grounds:
that is why `RunsApproved` alone is not inductive and why the memory may answer. A text that was current at a record
before the label and is again at the poll was current at the label, so `RunsApproved` follows.

`WorkspacesProofs` proves, for any issues, accounts and pools of two accounts or more (`WorkspaceAssumption`), any
number of agents and of upsets:

| theorem | statement |
|---|---|
| `Invariance` | `Spec => []IInv` |
| `AccountsApart` | `Spec => []SessionsApart` |
| `OpenOnlyAtWork` | `Spec => []IdleIsSealed` |
| `ClonesOfTheirOwn` | `Spec => []WorksInItsOwnClone` |
| `RestingAsks` | `Spec => []FinishedIsAskedFor` |

**The argument.** `Good` says of one issue how its directory, its run, its state and the removal under way go
together: a clone is as far as its run, a removal is never of an issue with a run, what is about to be unlinked
exists, and an issue at rest has no run. A step concerns one issue (`OneIssue`), and leaves the others as `Good` as
they were, because a removal is given up before the next one begins. `Asks` says of the mark that the work clone of an
issue at rest carries it, or lost it in one of the two ways `lost` records: marking makes it so (`Marked`), opening
keeps it (`OpenedKeeps`), and what an unlink may tear away (`TornIs`) is marked again or counted as lost. A retry
waits only without a run, which `_fire` relies on without asking.

`TurnsProofs` proves, for any number of runs, turns and upsets and any set of the two kinds (`TurnsAssumption`):

| theorem | statement |
|---|---|
| `TurnsInvariance` | `Spec => []TurnsInv` |
| `ResumedWereInterrupted` | `Spec => []ResumesInterrupted` |
| `RunsEndWell` | `Spec => []EndsWell` |

**The argument.** The run going is the newest, its row is open until it is over, and its task is cancelled only in the
kill or past it (`RunIsNewest`): so what `run_session` writes at its end is of the row it began. `RecordTells` joins
`session.json` to the store: a record that lets its session be resumed agrees with the row of that session's last run,
unless that run left the record alone. `ResumesInterrupted` speaks of the store only, the worker reads only the
record; this is what joins them. The proof showed that the run whose clone fails had to be counted among those that
leave the record alone: between two runs of one session it was not seen with two runs, and is with three.

`TriageProofs` proves, for any finite number of drafts, any of them an operator's, and any caps and bounds
(`TriageAssumption`):

| theorem | statement |
|---|---|
| `TriageTyped` | `Spec => []TriageTypeOK` |
| `HandedOverParentWaits` | `Spec => HandedOverWaits` |
| `FiledStepsStayHeld` | `Spec => StepsStayHeld` |
| `VerdictsFiledAsDrafted` | `Spec => []FiledAsDrafted` |
| `SessionsStayBounded` | `Spec => []SessionsBounded` |

**The argument.** `LaneInv` is the type, and `Placed`: which request belongs to which part of the tick, and that a filing
is in hand exactly while one of its requests is under way. `HandInv` says that a parent that is a human's neither asks for
triage nor is watched, and that a request already in hand that may still start a review is not one of such a parent;
`Reviewing` parents have a record, which is why filing a `gap` or a `next` cannot put a fresh, watched record in the
place of one that was handed over; `GapInv` is what the hand-over at the gap limit may rely on. `HoldInv` says of what a
hand-back may be: the issue has no step that was filed, because a triage session starts only without a verdict or review
owed and, unless it saw sub-issues, only on an issue that has none. A human may unlink steps but never makes a filed one.

`FileInv` says what is on GitHub of each verdict still owed. Two verdicts of one batch have the same drafts (`Agree`),
as the one kept for the retry is a copy of the one in hand, and every batch in hand or kept has a number that no later
one gets. What `found` says of the drafts passed so far covers every step of the batch under their titles
(`DraftsOf`): the request about to create a draft is sent only where no step of this batch bears that title, also when
an earlier try was applied and reported as failed, because a try begins by listing the steps again. For a review the
list is compared with the steps its session saw (`Child`), which a triage verdict has none of. The marks of an
operator's steps are set before the swap, and nothing takes one off.

`SessionsBounded` compares history with what the worker keeps, and needs to know what is under way meanwhile.
`SendInv` says of each request which verdict it is sent for and which session may go on beside it: a review is filed
while no session goes on, and the one whose hand-over is being written is still kept as it was. `FailInv`: failures no
human has heard of exceed those in the chain by one at most (`InTime`), unless a note is owed, or a verdict, or the
issue is in nobody's lane (`Excused`), and then no session starts. The one on top is the session under way when a
human takes `triage_todo` off (section 6). `RoundInv`: the reviews acted on and the gap rounds since the last touch
are within those of the watched record, or of the verdict in hand when its move has landed and its record is not
written yet, or nothing of the kind can start before the count starts anew (`Settling`).

`ServicesProofs` proves, for any limits of the two queues, any kinds Slack subscribes to, any number of attempts and
any bounds on what is told and on the upsets (`ServicesAssumption`):

| theorem | statement |
|---|---|
| `StoreInvariance` | `Spec => []StoreInv` |
| `RowsAreNewest` | `Spec => []RowIsNewest` |
| `LossesAreCounted` | `Spec => []LossIsCounted` |
| `RestsAreStored` | `Spec => []RestIsStored` |
| `HistoryIsKept` | `Spec => KeepsHistory`, the refinement of `EventLog` |

**The argument.** One guard, `seen_at`, is over the whole row, and an event tells one field of it; that a field is never
left older than what was written of it needs more than the guard. `SinkInv` says what more: the queue is in the order of
its stamps, behind the work in hand; the pending batch is newer than all that stands before its marker, and than the work
in hand; and each write that waits will find the store wholly behind it (`Behind`) or, when a batch merged after it was
queued has been written before it, wholly past it (`Passed`). A write never finds the row older than itself and one of
its fields newer, because only a batch overtakes, and a batch tells every field. `LossInv` adds that the stamps the sink
was handed and no longer has are at most as many as its two counts, each write that ends without the log growing being
one of them, and that the store's sink is closed only once Slack's task has ended, so that no `NotificationSent` is late.
A shutdown that gives up counts its queue as a whole, the stamps of views among them, which is why the property bounds
the loss and does not equal it.

`RestInv` says of an issue at rest, for its state and for its being closed, that there is a stamp from which on all that
waits agrees with the rest (`Agrees`), and that the row has it already, or an event of that stamp or a batch at least as
new will bring it (`Coming`). The event finds a row: an issue is taken to rest only after the sweep told a view of it, and
that view is stored, in hand or under a marker that stands before the event (`RowBefore`). No view from before the move
comes after it: what GitHub answers late is told only if it has the move, the board's read lists no closed issue, and the
sweep no issue at rest (`AtRest`).

`HistoryIsKept` maps each step to one of `EventLog` or to a stutter; the mapping is the identity on the log.
`HistoryInv` adds to `StoreInv` that the log has no event newer than one that waits in the queue or in hand
(`InTurn`). A write appends the event in hand, which waited and which everything in the queue is newer than
(`InOrder`); if it stays in hand, because the answer to its commit was lost, it is as new as the log's last and may be
appended again. What is told later has a later stamp, and after a restart nothing waits: the queue of the process that
died is lost, not replayed.

The inductive invariants of this section were checked by TLC before they were proved, on instances larger than the
runs' (for `Triage` 1.4 million states, for `Turns` 6.3 million, for `Hub` 4.3 million), `StoreInv`, `RestInv` and
`HistoryInv` on those of `services`. That is also how the triage properties got their present form: with two acts and
three faults the earlier ones were violated by behaviours of the code that section 6 names.

**What is only model-checked.**

* The liveness properties: the prover has no `ENABLED`.

Every other safety property of a run, action properties and the two refinements among them, is a theorem;
`NotPostedAgain` of `Hub` for two processes, of three it is false (section 3).

## 5. Plan

Done: all the modules above, a run of each (three of `Orchestrator`; `EventLog` and `WorkBudget` are checked as the
refinements of the modules that implement them), and the proofs of section 4. What is left: `run-once` beside a worker
over the same workspaces.

Runs are few on purpose: a module has one, and what it shows is in its properties.

## 6. Where the code and its prose differ

Met while modelling; each was seen in a behaviour of the module named, or read at the line. None is a claim that
the code should change, and no run of the project is kept for them. Where the prose states a property of its own, the
module has it as a definition beside the one that holds, and the constants given here let TLC show where it fails.

* `Orchestrator`: `budget_escape` (`actions.py:687`) moves a `todo` or `rework` issue to `review`. The transition table
  (`github/state.py:35`) has no such move for issuebot, and no write of the worker asks `is_allowed`, although
  the design of the GitHub adapter (`docs/superpowers/specs/2026-09-02-phase-2-github-adapter-design.md:208`) says it
  sanity-checks its own writes with it.
* `Orchestrator`: `docs/operations.md:236` says that a `todo` sub-issue of a triaged parent waits while any sub-issue before
  it is open, and names `rework` and resumed steps as the ones never held. `_fire` (O:4027, O:4080) asks the gate without
  the order, so the retry of a step that ran and wears `todo` again by then claims it out of turn; `admission.py:338` and
  `docs/superpowers/plans/2026-10-26-triage-phase-2.md:35` have only the sweep apply the hold. `StepsWaitTheirTurn` states
  the sentence, `SweepKeepsTheOrder` what the code keeps of it. With two steps, one slot, two attempts and humans who set
  `todo` and `in_progress`, and no failures, TLC finds the first violated in 18 states: a human puts the second step in
  progress and it runs as an orphan does, its label is set to `todo` while its session ends, and its retry claims it.
* `Orchestrator`: `queries.ISSUE_LEDGERS` (`db/queries.py:239`) sums every run of its window whether or not the issue was
  closed out in between, so a reopened issue is charged its old runs after a restart; `Ledger.forget`
  (`admission.py:284`) says that a reopened one starts again from nothing.
* `Ledger`: `_record_escape` (O:3940) calls `Ledger.cleared`, which writes through `_put` when it clears a chain,
  so recording an escape moves the entry to the end of the eviction order, against the comment of
  `Ledger.mark_escaped` (`admission.py:250`).
* `AutoTriage`: `_scan_for_auto_triage` counts `SETTLE` from the arrival of its answer (O:2121), so a scan decides an
  issue opened less than `SETTLE` before it when the read takes long enough, although `auto_triage.py:24` says that such
  an issue waits for the next. It skips nothing so long as the read and GitHub's lag fit in `SETTLE` together.
* `Triage`: the comment of `_dispatch_parent_reviews` (O:2831) has a parent with a verdict owed belong to that verdict
  this tick, but `busy` (O:2834, and `_watched_parents` at O:2807) leaves `_triage_pending` out; `_dispatch_triage`
  (O:2241) has it in. So a parent whose *triage* verdict is owed may be reviewed and handed over by the watch; the
  verdict filed later starts the record afresh and the parent is watched again, although `docs/operations.md:365` says
  that the worker stops watching a parent handed over and that the one way back is to add `issuebot/triage-todo`. It
  takes a former parent that is triaged again after its steps were unlinked: TLC finds it in 39 states with one draft, no
  gap round, two acts and three faults, as a violation of
  `[][(handed /\ record.handed) => record'.handed]_vars`. In the same window a `fits` that is handed back unread
  may take the last triage label off a parent whose review has filed steps meanwhile, which releases them.
* `Triage`: the same window costs a note. When a verdict's hand-over is refused, O:2388 drops the parent's entry of
  `_parent_handovers`; its comment speaks of the entry just made, but one may be there that a failed review owed, which the
  watch had started beside the verdict. The human it was for is not told, and the chain of failures begins again. As
  long as GitHub refuses, the failed sessions no human hears of are not bounded: an earlier form of `FailsInBounds` was
  violated with one attempt, two acts and nine faults. In the model the count starts anew where the note is dropped.
* `Triage`: a human who takes `issuebot/triage-todo` off a parent while its triage session is under way leaves a
  session whose failure owes no note for a parent, and the watch (O:2809, O:2852) looks only at `_parent_handovers`.
  It may start a chain of its own, so `max_attempts` failures are exceeded by one before a human hears of them
  (`FailsInBounds`).
* `Workspaces`: `finished_keys` (`workspace.py:603`) says that what is marked is exactly the removals that did not
  complete, across restarts, the record being on disk. `rmtree` may take the record before the rest (`workspace.py:585`),
  and only a removal that fails in the same process puts it back: one cut short by a kill may leave a directory nobody
  asks to have removed. `FinishedKeysIsExact` states the sentence, leaving out marks the disk refused; with one issue and
  two upsets TLC finds it violated in 11 states: a finished issue is closed out, and the worker is killed in the unlink.
* `Workspaces`: `accounts.py:26` says that at most one workspace per account is open at a time; a removal opens one to its
  account while a session of the same account runs in another.
* `Turns`: the README (`README.md:507`) says that a turn still running when the wall clock is spent is killed. A claude
  that has closed its output and lives on is waited for by `run_turn` without a limit (`runner.py:1520`); only a stop or
  the shutdown ends it, and a shutdown that gives up in that wait leaves the process to its container.
* `Turns`: a turn may start after the deadline when it passes during the lookup of the workpad or the sweep of the home. A
  run whose task is cancelled by the shutdown keeps its default outcome "succeeded", so it is not resumed; a
  cancellation during `after_run` skips the record and the seal.
* `Services`: a label write that timed out and was applied, a crash or a full queue between a move and its write leave
  the row of an issue at rest as it was, and nothing reads the issue again. A write that fails with an operational
  error each time is retried for ever and holds up the queue behind it. An event is written twice when the answer to its
  commit is lost. A turn's files captured late may be gone.
* `Egress`: `docs/package-layout.md:133` says that `MAX_TUNNELS` bounds the established relays. The count is compared
  before the await of `open_connection` and raised after it (`egress.py`), so several connections may pass the
  comparison together; `MAX_CONNECTIONS` bounds them all the same.
* `Egress`: `tests/test_cli.py:3959` says that SIGTERM must not be held by a tunnel, which nothing bounds in time, and
  `egress.py:180` likewise. After the bounded drain `asyncio.run` (`cli.py:3049`) cancels the handlers and waits for them;
  a tunnel's handler then awaits `_close` of both sides in its `finally`, whose `wait_closed()` has no timeout, and a peer
  that leaves unread what is kept for it holds the process until it goes. `StopEnds` by itself states the sentence; under
  `EgressFairSpec` with one client TLC finds a behaviour that ends in `cancelling`, `EndingsReached` adds `PeersRead`.
* `Hub`: `web/actions.py:10` says of a threshold that it is never posted twice, `docs/dashboard.md:155` that an alert never
  is. A post whose answer does not come within `POST_TIMEOUT_S` is not ok though Slack may have it (`slack.py:102`), its
  claim is given back (`web/actions.py:239`, `claude_limits.py:240`) and a later cycle posts it again. `PostedOnce` states
  the sentence, of what reached Slack; with one process, one threshold, one period and one fault TLC finds it violated in
  eleven states. `NotPostedAgain` is what holds.
