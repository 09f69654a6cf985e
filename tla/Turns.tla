------------------------------- MODULE Turns -------------------------------
(***************************************************************************)
(* The sessions of one issue: how a run is started, fresh or on the        *)
(* session an earlier run left, its turns, and how the worker supervises   *)
(* the `claude -p` of each (agent/session.py, agent/triage.py,             *)
(* agent/runner.py, and what the orchestrator does at a run's start and    *)
(* exit).                                                                  *)
(*                                                                         *)
(* A run is one task. It awaits the clone, hooks, GitHub and its claude,   *)
(* and at any of these the orchestrator may ask it to stop (an event it    *)
(* looks at in some places only), its wall clock may run out, the shutdown *)
(* may give up on it and cancel the task, or the worker may be killed.     *)
(* claude is a process group of its own: its leader and a child of the     *)
(* leader's that may hold the pipe the worker reads.                       *)
(***************************************************************************)
EXTENDS Integers

CONSTANTS
    Kinds,     \* "work", "triage": which run the issue gets; a review is as triage
    MaxTurns,  \* agent.max_turns, triage.max_turns
    MaxRuns,   \* bound: runs of the issue
    MaxUpsets  \* bound: failures of the disk, a hook or GitHub, acts of humans, kills

ASSUME TurnsAssumption ==
    /\ Kinds \subseteq {"work", "triage"}
    /\ MaxTurns \in Nat \ {0} /\ MaxRuns \in Nat \ {0} /\ MaxUpsets \in Nat

VARIABLES
    kind,      \* the lane the issue is in
    label,     \* "todo", "in_progress" or "moved": what the issue wears (a triage
               \* request is "in_progress" until it is answered)
    held,      \* a retry or a continuation of the issue waits in memory
    worker,    \* "up", "stopping" or "down"
    run,       \* the run going, and what its RunState says
    claude,    \* the processes of its turn
    known,     \* the sessions claude has on its own disk
    record,    \* session.json in the workspace
    row,       \* the runs as their events tell of them: RunStarted, RunEnded
    of,        \* the session of each run
    fate,      \* how the worker lost runs, or the record of their end
    upsets     \* how many of MaxUpsets have happened

issueVars == <<label, held>>
books == <<known, record, row, of, fate>>
vars == <<kind, label, held, worker, run, claude, known, record, row, of, fate, upsets>>

RunIds == 1..MaxRuns
Phases == {"idle", "create", "prepare", "read", "top", "workpad", "start", "turn",
           "kill", "reap", "refresh", "closing", "over"}
Outcomes == {"succeeded", "failed", "timed_out", "cancelled"}

\* Nothing runs. A RunState's outcome is "succeeded" until something fails it.
NoRun == [id |-> 0, session |-> 0, phase |-> "idle", resuming |-> FALSE, turn |-> 0, cancel |-> FALSE,
          cause |-> "none", late |-> FALSE, hard |-> FALSE, verdict |-> "none",
          outcome |-> "succeeded", stop |-> "none"]

\* leader: the process itself, and its status once it is gone; piped: it holds the pipe;
\* child: another of its group lives, and holds the pipe too; said: the result it reported.
NoClaude == [leader |-> "none", piped |-> FALSE, child |-> FALSE, said |-> "nothing"]

NoRecord == [session |-> 0, last |-> "none"]

Live == run.phase \notin {"idle", "over"}
LeaderLives == claude.leader = "live"
Upset == upsets < MaxUpsets /\ upsets' = upsets + 1

----------------------------------------------------------------------------
\* The end of a turn.

OutcomeFor(category) ==
    CASE category \in {"turn_timeout", "run_timeout"} -> "timed_out"
      [] category = "cancelled" -> "cancelled"
      [] OTHER -> "failed"

\* What is made of a turn that was not ended by force, from the result reported and the
\* status of the exit. An error stands for a spent window, a login refused and a task
\* failed, between which only the orchestrator tells.
Classify(said, leader) ==
    CASE said = "budget" -> "budget_exceeded"
      [] said = "error" -> "turn_failed"
      [] said = "nothing" -> "process_exit"
      [] OTHER -> IF leader = "clean" THEN "ok" ELSE "process_exit"

Fail(r, category) ==
    [r EXCEPT !.outcome = OutcomeFor(category), !.phase = "closing",
              !.stop = IF category \in {"cancelled", "run_timeout"} THEN category ELSE "failure"]
Stop(r, reason) == [r EXCEPT !.stop = reason, !.outcome = "succeeded", !.phase = "closing"]
NextTurn(r) == IF r.turn = MaxTurns THEN Stop(r, "max_turns") ELSE [r EXCEPT !.phase = "top"]

\* What the loop does with a finished turn, before it awaits anything again.
AfterTurn(r, category) ==
    IF category \notin {"ok", "budget_exceeded"} THEN Fail(r, category)
    ELSE IF kind = "triage" /\ claude.said = "verdict" THEN Stop(r, "verdict")
    ELSE IF r.cancel THEN Fail(r, "cancelled")
    ELSE IF kind = "triage" THEN NextTurn(r)
    ELSE [r EXCEPT !.phase = "refresh"]

\* The record of the session, which only a work run keeps; last is "none" until the run ends.
Saved(last) == IF kind = "work" THEN [session |-> run.session, last |-> last] ELSE record

----------------------------------------------------------------------------
Init ==
    /\ kind \in Kinds
    /\ label \in {"todo", "in_progress"} /\ held = FALSE
    /\ worker = "up"
    /\ run = NoRun /\ claude = NoClaude
    /\ known = {} /\ record = NoRecord
    /\ row = [r \in RunIds |-> "none"] /\ of = [r \in RunIds |-> 0]
    /\ fate = [r \in RunIds |-> "kept"]
    /\ upsets = 0

----------------------------------------------------------------------------
\* A run starts.

\* The session an orphan resumes: the recorded one, of a run that did not come to an end
\* of its own; 0 for none.
ResumePlan == IF record.last \in {"none", "cancelled"} THEN record.session ELSE 0

\* A retry starts from cold; an issue in progress that nothing in memory knows of is an
\* orphan, and is resumed; triage always starts afresh. RunStarted is published first.
Start ==
    /\ worker = "up" /\ run.phase = "idle" /\ label # "moved"
    /\ \E id \in RunIds :
        /\ row[id] = "none" /\ \A r \in 1..(id - 1) : row[r] # "none"
        /\ LET orphan == kind = "work" /\ label = "in_progress" /\ ~held
               resumed == IF orphan THEN ResumePlan ELSE 0
               session == IF resumed # 0 THEN resumed ELSE id
           IN /\ run' = [NoRun EXCEPT !.id = id, !.session = session, !.phase = "create",
                                      !.resuming = resumed # 0]
              /\ of' = [of EXCEPT ![id] = session]
        /\ row' = [row EXCEPT ![id] = "open"]
    /\ label' = "in_progress" /\ held' = FALSE
    /\ UNCHANGED <<kind, worker, claude, known, record, fate, upsets>>

----------------------------------------------------------------------------
\* A run, up to its turn.

\* A clone that fails, or one that cannot be opened again, ends the run before there is
\* anything to close: what is recorded of the session stays as it is.
Create ==
    /\ run.phase = "create"
    /\ \/ run' = [run EXCEPT !.phase = "prepare"] /\ UNCHANGED <<row, fate, upsets>>
       \/ /\ Upset
          /\ run' = [Fail(run, "workspace_error") EXCEPT !.phase = "over"]
          /\ row' = [row EXCEPT ![run.id] = "failed"]
          /\ fate' = [fate EXCEPT ![run.id] = IF @ = "kept" THEN "unsaved" ELSE @]
    /\ UNCHANGED <<kind, issueVars, worker, claude, known, record, of>>

\* The before_run hook and the prompt's template, then the record of a session at turn 0.
Prepare ==
    /\ run.phase = "prepare"
    /\ \/ run' = [run EXCEPT !.phase = "read"] /\ record' = Saved("none") /\ UNCHANGED upsets
       \/ Upset /\ run' = Fail(run, "hook_error") /\ UNCHANGED record
    /\ UNCHANGED <<kind, issueVars, worker, claude, known, row, of, fate>>

\* The repository's instructions, and the reads of GitHub a run makes once.
Read ==
    /\ run.phase = "read"
    /\ \/ run' = [run EXCEPT !.phase = "top"] /\ UNCHANGED upsets
       \/ Upset /\ run' = Fail(run, "github_error")
    /\ UNCHANGED <<kind, issueVars, worker, claude, books>>

\* The top of the loop: no further turn past the deadline.
Top ==
    /\ run.phase = "top"
    /\ run' = IF run.late THEN Fail(run, "run_timeout") ELSE [run EXCEPT !.phase = "workpad"]
    /\ UNCHANGED <<kind, issueVars, worker, claude, books, upsets>>

\* The workpad's lookup, of a work run, and the sweep of the account's home.
Workpad ==
    /\ run.phase = "workpad"
    /\ \/ run' = [run EXCEPT !.phase = "start"] /\ UNCHANGED upsets
       \/ kind = "work" /\ Upset /\ run' = Fail(run, "github_error")
    /\ UNCHANGED <<kind, issueVars, worker, claude, books>>

Asked == run.cancel

\* The turn ends with this category, and the loop goes on from it.
TurnOver(category) ==
    LET r == [run EXCEPT !.turn = @ + 1, !.verdict = "none"] IN
    /\ run' = AfterTurn(r, category)
    /\ \/ record' = Saved("none") /\ UNCHANGED upsets
       \/ kind = "work" /\ Upset /\ UNCHANGED record

\* A run asked to stop by now starts no claude; another does, unless none can be run.
Spawn ==
    /\ run.phase = "start" /\ ~Asked
    /\ \/ /\ claude' = [NoClaude EXCEPT !.leader = "live", !.piped = TRUE]
          /\ run' = [run EXCEPT !.phase = "turn"]
          /\ UNCHANGED <<record, upsets>>
       \/ /\ Upset
          /\ run' = AfterTurn([run EXCEPT !.turn = @ + 1], "claude_not_found")
          /\ record' = Saved("none")
          /\ UNCHANGED claude
    /\ UNCHANGED <<kind, issueVars, worker, known, row, of, fate>>

NotStarted ==
    /\ run.phase = "start" /\ Asked
    /\ TurnOver("cancelled")
    /\ UNCHANGED <<kind, issueVars, worker, claude, known, row, of, fate>>

----------------------------------------------------------------------------
\* claude itself.

Supervised == LeaderLives /\ run.phase \in {"turn", "kill", "reap"}
Resumes == run.turn > 0 \/ run.resuming
Stranger == Resumes /\ run.session \notin known

\* A session begins or is found again.
ClaudeBegins ==
    /\ Supervised /\ claude.said = "nothing" /\ ~Stranger
    /\ run.session \notin known
    /\ known' = known \cup {run.session}
    /\ UNCHANGED <<kind, issueVars, worker, run, claude, record, row, of, fate, upsets>>

\* It works, and may move the issue on itself.
ClaudeMovesIssue ==
    /\ Supervised /\ kind = "work" /\ run.session \in known /\ label = "in_progress"
    /\ label' = "moved"
    /\ UNCHANGED <<kind, held, worker, run, claude, books, upsets>>

ClaudeForks ==
    /\ Supervised /\ claude.piped /\ ~claude.child /\ run.session \in known
    /\ claude' = [claude EXCEPT !.child = TRUE]
    /\ UNCHANGED <<kind, issueVars, worker, run, books, upsets>>

Results == {"success", "budget", "error"} \cup
           (IF kind = "triage" THEN {"verdict"} ELSE {"blocked"})

ClaudeSays ==
    /\ Supervised /\ claude.piped /\ claude.said = "nothing" /\ run.session \in known
    /\ \E s \in Results : claude' = [claude EXCEPT !.said = s]
    /\ UNCHANGED <<kind, issueVars, worker, run, books, upsets>>

\* It closes its output and goes on.
ClaudeCloses ==
    /\ LeaderLives /\ claude.piped
    /\ claude' = [claude EXCEPT !.piped = FALSE]
    /\ UNCHANGED <<kind, issueVars, worker, run, books, upsets>>

\* It exits; told to resume a session it does not know, it does no more than that.
ClaudeExits ==
    /\ LeaderLives
    /\ \E status \in IF Stranger THEN {"failed"} ELSE {"clean", "failed"} :
          claude' = [claude EXCEPT !.leader = status, !.piped = FALSE]
    /\ UNCHANGED <<kind, issueVars, worker, run, books, upsets>>

ChildExits ==
    /\ claude.child
    /\ claude' = [claude EXCEPT !.child = FALSE]
    /\ UNCHANGED <<kind, issueVars, worker, run, books, upsets>>

----------------------------------------------------------------------------
\* The supervision of a turn: a reader and a waiter for the event, whichever is done first.

Eof == ~claude.piped /\ ~claude.child

Ends(category) ==
    /\ run.phase = "turn"
    /\ run' = [run EXCEPT !.phase = "kill", !.verdict = category]
    /\ UNCHANGED <<kind, issueVars, worker, claude, books, upsets>>

Cancelled == run.cancel /\ Ends("cancelled")

\* Mutant: only silence bounds the wait.
DeadlineUnseen == FALSE

\* The deadline is looked at before each read, and bounds the wait for it.
DeadlineReached == run.late /\ Ends("run_timeout")
Silence == ~run.late /\ ~Eof /\ Ends("turn_timeout")

\* The stream ended before the deadline: what is awaited now is the process, by nothing else.
StreamEnds ==
    /\ run.phase = "turn" /\ Eof /\ ~run.late
    /\ run' = [run EXCEPT !.phase = "reap"]
    /\ UNCHANGED <<kind, issueVars, worker, claude, books, upsets>>

Reaped ==
    /\ run.phase = "reap" /\ ~LeaderLives
    /\ TurnOver(Classify(claude.said, claude.leader))
    /\ UNCHANGED <<kind, issueVars, worker, claude, known, row, of, fate>>

\* SIGTERM, the grace, then SIGKILL for the whole group. A task that is being cancelled
\* goes on to its workspace without another word of the turn.
Terminated ==
    /\ run.phase = "kill"
    /\ claude' = [claude EXCEPT !.leader = IF @ = "live" THEN "failed" ELSE @,
                                !.piped = FALSE, !.child = FALSE]
    /\ IF run.hard
       THEN run' = [run EXCEPT !.phase = "closing"] /\ UNCHANGED <<record, upsets>>
       ELSE TurnOver(run.verdict)
    /\ UNCHANGED <<kind, issueVars, worker, known, row, of, fate>>

----------------------------------------------------------------------------
\* Between turns, and the end of the run.

\* The issue is read again: it moved, the agent said it is blocked, or the next turn.
Refresh ==
    /\ run.phase = "refresh"
    /\ \/ /\ run' = IF label # "in_progress" THEN Stop(run, "issue_moved")
                    ELSE IF claude.said = "blocked" THEN Stop(run, "blocked")
                    ELSE NextTurn(run)
          /\ UNCHANGED upsets
       \/ Upset /\ run' = Fail(run, "github_error")
    /\ claude' = [NoClaude EXCEPT !.child = claude.child]
    /\ UNCHANGED <<kind, issueVars, worker, books>>

\* Mutant: the outcome is not kept.
OutcomeUnsaved == "none"

OutcomeSaved == run.outcome

EndedRow == run.outcome

\* The after_run hook, the outcome for the record, the seal; then RunEnded, unless the task
\* is being cancelled.
Close ==
    /\ run.phase = "closing"
    /\ \/ record' = Saved(OutcomeSaved) /\ UNCHANGED upsets /\ fate' = fate
       \/ /\ kind = "work" /\ Upset /\ UNCHANGED record
          /\ fate' = [fate EXCEPT ![run.id] = IF @ = "kept" THEN "unsaved" ELSE @]
    /\ row' = IF run.hard THEN row ELSE [row EXCEPT ![run.id] = EndedRow]
    /\ run' = [run EXCEPT !.phase = "over"]
    /\ UNCHANGED <<kind, issueVars, worker, claude, known, of>>

\* The orchestrator handles the exit: it releases the issue, hands it over or keeps it.
Released == run.hard \/ run.cause \in {"moved", "shutdown"}
HandsOver ==
    \/ run.stop = "verdict"
    \/ kind = "work" /\ run.cause = "none" /\ run.stop \in {"max_turns", "blocked", "run_timeout"}

Exit ==
    /\ run.phase = "over" /\ worker # "down"
    /\ label' = IF ~Released /\ HandsOver /\ label = "in_progress" THEN "moved" ELSE label
    /\ held' = (~Released /\ ~HandsOver)
    /\ run' = NoRun
    /\ claude' = IF LeaderLives THEN claude ELSE [NoClaude EXCEPT !.child = claude.child]
    /\ UNCHANGED <<kind, worker, books, upsets>>

\* A retry finds the issue moved and lets go of it.
Release ==
    /\ worker = "up" /\ run.phase = "idle" /\ held /\ label = "moved"
    /\ held' = FALSE
    /\ UNCHANGED <<kind, label, worker, run, claude, books, upsets>>

----------------------------------------------------------------------------
\* The orchestrator, the clock and the world.

\* The first cause stays; the event is set.
StopRun(cause) ==
    run' = [run EXCEPT !.cancel = TRUE, !.cause = IF @ = "none" THEN cause ELSE @]

RefreshStops ==
    /\ worker = "up" /\ Live /\ kind = "work" /\ label # "in_progress" /\ run.cause = "none"
    /\ StopRun("moved")
    /\ UNCHANGED <<kind, issueVars, worker, claude, books, upsets>>

StallStops ==
    /\ worker = "up" /\ Live /\ run.cause = "none" /\ Upset
    /\ StopRun("stalled")
    /\ UNCHANGED <<kind, issueVars, worker, claude, books>>

\* The worker is asked to stop, and its shutdown asks the run to.
RequestStop ==
    /\ worker = "up" /\ Upset
    /\ worker' = "stopping"
    /\ IF Live THEN StopRun("shutdown") ELSE UNCHANGED run
    /\ UNCHANGED <<kind, issueVars, claude, books>>

\* Mutant: only what is awaited ends with the task.
ForcedUnsupervised(phase) == IF phase = "create" THEN "over" ELSE "closing"

\* Where a cancelled task goes: through the kill of a turn it supervises, and through the
\* closing of its workspace, where it was not already closing it.
Forced(phase) ==
    CASE phase \in {"create", "closing"} -> "over"
      [] phase \in {"turn", "kill"} -> "kill"
      [] OTHER -> "closing"

Patience == worker = "stopping" /\ Live /\ ~run.hard

\* The shutdown has waited its time, and cancels the task.
GiveUp ==
    /\ Patience
    /\ run' = [run EXCEPT !.hard = TRUE, !.phase = Forced(@)]
    /\ fate' = [fate EXCEPT ![run.id] = IF run.phase = "reap" THEN "abandoned" ELSE "cut"]
    /\ UNCHANGED <<kind, issueVars, worker, claude, known, record, row, of, upsets>>

Stopped ==
    /\ worker = "stopping" /\ run.phase = "idle"
    /\ worker' = "down" /\ held' = FALSE
    /\ UNCHANGED <<kind, label, run, claude, books, upsets>>

\* The worker is killed, and its sessions with it.
Crash ==
    /\ worker # "down" /\ Upset
    /\ worker' = "down" /\ held' = FALSE
    /\ run' = NoRun /\ claude' = NoClaude
    /\ fate' = IF Live THEN [fate EXCEPT ![run.id] = "cut"] ELSE fate
    /\ UNCHANGED <<kind, label, known, record, row, of>>

\* A new process, in a new container.
Restart ==
    /\ worker = "down"
    /\ worker' = "up" /\ claude' = NoClaude
    /\ UNCHANGED <<kind, issueVars, run, books, upsets>>

DeadlinePasses ==
    /\ Live /\ ~run.late
    /\ run' = [run EXCEPT !.late = TRUE]
    /\ UNCHANGED <<kind, issueVars, worker, claude, books, upsets>>

HumanRelabels ==
    /\ Upset
    /\ label' = IF label = "moved" THEN "in_progress" ELSE "moved"
    /\ UNCHANGED <<kind, held, worker, run, claude, books>>

----------------------------------------------------------------------------
\* What the run's task does when it is its turn.
Supervise ==
    \/ Cancelled \/ DeadlineReached \/ StreamEnds \/ Reaped \/ Terminated
Step ==
    \/ Create \/ Prepare \/ Read \/ Top \/ Workpad \/ Spawn \/ NotStarted
    \/ Supervise \/ Refresh \/ Close
Claude ==
    \/ ClaudeBegins \/ ClaudeMovesIssue \/ ClaudeForks \/ ClaudeSays \/ ClaudeCloses
    \/ ClaudeExits \/ ChildExits
World ==
    \/ RefreshStops \/ StallStops \/ RequestStop \/ Crash \/ Restart \/ DeadlinePasses
    \/ HumanRelabels

Next == Start \/ Step \/ Silence \/ Claude \/ Exit \/ Release \/ GiveUp \/ Stopped \/ World

Spec == Init /\ [][Next]_vars

\* The run's awaits return: hooks and GitHub have timeouts of their own, and SIGKILL is
\* not refused. The clock goes on, and the shutdown's patience with it. Of claude nothing
\* is assumed.
FairSpec ==
    /\ Spec /\ WF_vars(Step) /\ WF_vars(DeadlinePasses)
    /\ WF_vars(Exit) /\ WF_vars(GiveUp) /\ WF_vars(Stopped)

----------------------------------------------------------------------------
TurnsTypeOK ==
    /\ kind \in Kinds /\ label \in {"todo", "in_progress", "moved"} /\ held \in BOOLEAN
    /\ worker \in {"up", "stopping", "down"}
    /\ run.phase \in Phases /\ run.outcome \in Outcomes /\ run.turn \in 0..MaxTurns
    /\ claude.leader \in {"none", "live", "clean", "failed"}
    /\ record.session \in 0..MaxRuns
    /\ row \in [RunIds -> {"none", "open"} \cup Outcomes]

\* No claude is started for a run that was asked to stop, whatever it awaited when it was
\* asked: the clone, a hook, GitHub, or the turn before (run_turn, RunState.cancelled).
StopIsHeard == [][claude'.leader = "live" /\ claude.leader # "live" => ~run.cancel]_vars

\* A session that is resumed was interrupted: its last run, as its events tell, was
\* cancelled or never ended, unless the record of its end was not written, for want of a
\* workspace or by a failing disk (_resume_plan, and the record _execute keeps).
Last(r) == {q \in 1..(r - 1) : of[q] = of[r] /\ \A p \in (q + 1)..(r - 1) : of[p] # of[r]}
ResumesInterrupted ==
    \A r \in RunIds : of[r] \notin {0, r} =>
        \A q \in Last(r) : row[q] \in {"open", "cancelled"} \/ fate[q] = "unsaved"

\* No claude is left working behind the run: after its turn, while the after_run hook and
\* the next run use the workspace, the process is gone. The one exception is the code's: a
\* shutdown that gives up on a claude whose output had ended (run_turn's last wait).
NoneLeftBehind ==
    LeaderLives => \/ run.phase \in {"turn", "kill", "reap"}
                   \/ \E r \in RunIds : fate[r] = "abandoned"

\* Every run that started is told to have ended, unless the worker was killed or gave up on
\* it (run_session, run_triage).
EveryRunEnds ==
    \A r \in RunIds : row[r] = "open" => (r = run.id /\ run.phase # "over") \/ fate[r] \in {"cut", "abandoned"}

\* The end of a run is complete: of its process, and of what is told of it.
EndsWell == NoneLeftBehind /\ EveryRunEnds

\* claude exits once its output has ended.
OutputEndsLast == (run.phase = "reap") ~> (run.phase # "reap")

\* A run comes to an end once its wall clock is spent, whatever claude prints or keeps open,
\* if it exits with its output (agent.run_timeout_ms).
DeadlineEnds == OutputEndsLast => ((Live /\ run.late) ~> ~Live)

\* A worker asked to stop stops, whatever claude does (shutdown).
ShutdownEnds == (worker = "stopping") ~> (worker # "stopping")

\* Nothing a claude does keeps a run or the worker for ever, and what was told to stop
\* starts nothing more (_read_stream, shutdown, run_turn).
EndsInTime == DeadlineEnds /\ ShutdownEnds /\ StopIsHeard
=============================================================================
