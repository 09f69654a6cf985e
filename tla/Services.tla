------------------------------ MODULE Services ------------------------------
(***************************************************************************)
(* What leaves the worker: the bus, the Slack sink and the PostgreSQL sink *)
(* with their queues and drain tasks, the writes of the store, and their   *)
(* shutdown (events/bus.py, notifications/slack.py, db/sink.py,            *)
(* db/store.py, cli.py).                                                   *)
(*                                                                         *)
(* One issue stands for the board. The ticks of the worker read it, from a *)
(* GitHub whose answers may miss the worker's own last write, and tell the *)
(* sinks of it: as events, of which each is one field of the issue's row,  *)
(* and as snapshots, which are the whole row. Humans, and the agents, move *)
(* the issue at any time; a triage run files its verdict at any time.      *)
(***************************************************************************)
EXTENDS Integers, Sequences, FiniteSets, SequencesExt

CONSTANTS
    QueueLimit,   \* QUEUE_LIMIT of db/sink.py
    SlackLimit,   \* QUEUE_LIMIT of notifications/slack.py
    SlackKinds,   \* the kinds of events subscribed to
    MaxAttempts,  \* MAX_ATTEMPTS of notifications/slack.py
    MaxTold,      \* bound: events published and snapshots recorded
    MaxUpsets     \* bound: acts of humans and agents, requests that fail, deaths and starts

ASSUME ServicesAssumption ==
    /\ QueueLimit \in Nat \ {0} /\ SlackLimit \in Nat \ {0} /\ MaxAttempts \in Nat \ {0}
    /\ SlackKinds \subseteq {"moved", "triaged", "completed", "cancelled"}
    /\ MaxTold \in Nat /\ MaxUpsets \in Nat

VARIABLES
    gh,      \* the issue on GitHub
    lag,     \* as it was before the worker's last write to it, which an answer may miss
    pc,      \* where the worker's tick is, and then the process's shutdown
    view,    \* the issue as the tick's last read had it
    track,   \* the issue as the triage track's read of this tick had it
    now,     \* the clock: it moves as something is told, so a stamp names what it is of
    sink,    \* the PostgreSQL sink: PostgresSink's fields, its task's work and step
    slack,   \* the Slack sink: likewise
    log,     \* the store's table of events, each by its stamp
    row,     \* the store's row of the issue
    told,    \* for each field of the row what the latest write of it said, and when
    resting, \* the worker took the issue to rest, and nobody has touched it since
    upsets

vars == <<gh, lag, pc, view, track, now, sink, slack, log, row, told, resting, upsets>>

Rest == {"complete", "none"}
Board == {"todo", "in_progress", "review"}
Issues == [state : Rest \cup Board, open : BOOLEAN, triage : {"none", "todo", "complete"}]
Nothing == [state |-> "none", open |-> FALSE, triage |-> "unread"]
Fields == {"state", "open", "triage"}

\* What a request to GitHub may answer, moments after the worker's own write.
Answers == {gh, lag}
Upset == upsets < MaxUpsets /\ upsets' = upsets + 1

----------------------------------------------------------------------------
\* The side that enqueues: it never waits.

\* What the queue holds: events, the complete reads of the triage track, and the marker
\* that stands for the snapshots pending. `says` is what a write of it sets.
Event(kind, says, at) == [item |-> "event", kind |-> kind, says |-> says, at |-> at]
TrackRead(listed, at) == [item |-> "track", listed |-> listed, at |-> at]
Marker == [item |-> "issues"]
Sentinel == [item |-> "end"]
Idle == [item |-> "idle"]
NoBatch == [at |-> 0, view |-> Nothing]

HandleEvent(s, e) ==
    LET heard == [s EXCEPT !.handled = @ \cup {e.at}]
    IN IF s.closed THEN [heard EXCEPT !.dropped = @ + 1, !.late = TRUE]
       ELSE IF Len(s.queue) >= QueueLimit THEN [heard EXCEPT !.dropped = @ + 1]
       ELSE [heard EXCEPT !.queue = Append(@, e)]

\* A marker is not counted against the limit: there is at most one of them.
Merge(s, issue, at) ==
    [s EXCEPT !.batch = [at |-> at, view |-> issue],
              !.marked = TRUE,
              !.queue = IF s.marked THEN @ ELSE Append(@, Marker)]

RecordIssues(s, issue, at) == IF s.closed THEN s ELSE Merge(s, issue, at)

RecordTriageTrack(s, issue, at) ==
    LET listed == issue.open /\ issue.triage # "none"
        merged == IF listed THEN Merge(s, issue, at) ELSE s
    IN IF s.closed THEN s
       ELSE IF Len(s.queue) >= QueueLimit THEN [s EXCEPT !.dropped = @ + 1]
       ELSE [merged EXCEPT !.queue = Append(@, TrackRead(listed, at))]

\* The Slack sink formats what is subscribed to, and enqueues it.
HandleSlack(s, e) ==
    IF e.kind \notin SlackKinds THEN s
    ELSE IF s.closed \/ Len(s.queue) >= SlackLimit
         THEN [s EXCEPT !.dropped = @ + 1, !.handled = @ + 1]
         ELSE [s EXCEPT !.queue = Append(@, e), !.handled = @ + 1]

\* EventBus.publish, of one event or of two: a sink that raises takes nothing from the next.
Fanned(sinkAfter, slackAfter) ==
    /\ sink' = sinkAfter
    /\ \/ slack' = slackAfter /\ UNCHANGED upsets
       \/ Upset /\ UNCHANGED slack
Publish(e) == Fanned(HandleEvent(sink, e), HandleSlack(slack, e))
PublishBoth(e, f) ==
    Fanned(HandleEvent(HandleEvent(sink, e), f), HandleSlack(HandleSlack(slack, e), f))

Tick(n) == now + n <= MaxTold /\ now' = now + n

----------------------------------------------------------------------------
\* The ticks: what is read, and what is told of it.

NoSink == [queue |-> <<>>, batch |-> NoBatch, marked |-> FALSE, work |-> Idle, step |-> "get",
           connected |-> FALSE, closed |-> FALSE, failed |-> 0, dropped |-> 0,
           handled |-> {}, late |-> FALSE]
NoSlack == [queue |-> <<>>, work |-> Idle, attempt |-> 0, step |-> "get", closed |-> FALSE,
            sent |-> 0, failed |-> 0, dropped |-> 0, handled |-> 0]
NoRow == [state |-> "none", open |-> FALSE, triage |-> "none", at |-> 0]

Init ==
    /\ gh \in [state : {"todo"}, open : {TRUE}, triage : {"none", "todo"}]
    /\ lag = gh /\ pc = "sweep" /\ view = Nothing /\ track = Nothing /\ now = 0
    /\ sink = NoSink /\ slack = NoSlack
    /\ log = <<>> /\ row = NoRow
    /\ told = [f \in Fields |-> [at |-> 0, val |-> NoRow[f]]]
    /\ resting = FALSE /\ upsets = 0

\* A human, or the agent of a session, moves the issue.
HumanActs ==
    /\ Upset
    /\ \/ \E s \in Board \ {gh.state} : gh' = [gh EXCEPT !.state = s]
       \/ gh' = [gh EXCEPT !.open = ~@]
       \/ gh' = [gh EXCEPT !.triage = IF @ = "todo" THEN "none" ELSE "todo"]
    /\ lag' = gh' /\ resting' = FALSE
    /\ UNCHANGED <<pc, view, track, now, sink, slack, log, row, told>>

\* terminal_sweep's read: closed issues with a label of the board.
Sweep ==
    /\ pc = "sweep"
    /\ \/ \E a \in Answers :
            /\ IF ~a.open /\ a.state \in Board
               THEN /\ Tick(1) /\ sink' = RecordIssues(sink, a, now + 1)
                    /\ view' = a /\ pc' = "finish"
               ELSE pc' = "track" /\ UNCHANGED <<view, now, sink>>
            /\ UNCHANGED upsets
       \/ Upset /\ pc' = "track" /\ UNCHANGED <<view, now, sink>>
    /\ UNCHANGED <<gh, lag, track, slack, log, row, told, resting>>

\* finish_terminal. A write that is refused, or whose answer is lost, tells nothing.
Finish ==
    /\ pc = "finish"
    /\ \E rest \in Rest :
        LET kind == IF rest = "complete" THEN "completed" ELSE "cancelled"
            moved == /\ gh' = [gh EXCEPT !.state = rest]
                     /\ lag' = gh
        IN \/ /\ moved /\ Tick(2)
              /\ PublishBoth(Event("moved", [state |-> rest], now + 1),
                             Event(kind, [open |-> FALSE], now + 2))
              /\ resting' = ~gh.open /\ view' = [view EXCEPT !.state = rest] /\ pc' = "reread"
           \/ /\ Upset /\ (moved \/ UNCHANGED <<gh, lag>>) /\ resting' = FALSE
              /\ pc' = "track" /\ UNCHANGED <<view, now, sink, slack>>
    /\ UNCHANGED <<track, log, row, told>>

\* _report_moved: an answer that does not have the move is not told of.
AnyAnswer(answer, moved) == TRUE
Fresh(answer, moved) == answer.state = moved

ReportMoved ==
    /\ pc = "reread" /\ pc' = "track"
    /\ \/ \E a \in Answers :
            /\ IF Fresh(a, view.state)
               THEN Tick(1) /\ sink' = RecordIssues(sink, a, now + 1)
               ELSE UNCHANGED <<now, sink>>
            /\ UNCHANGED upsets
       \/ Upset /\ UNCHANGED <<now, sink>>
    /\ UNCHANGED <<gh, lag, view, track, slack, log, row, told, resting>>

\* _read_triage_track: before the board's read, or on a tick under a hold after it; a read
\* that fails leaves the track unread too.
ReadTriageTrack ==
    /\ pc = "track" /\ pc' = "poll" /\ view' = Nothing
    /\ track' \in Answers \cup {Nothing}
    /\ UNCHANGED <<gh, lag, now, sink, slack, log, row, told, resting, upsets>>

\* _fetch_issues: the board's read, told to the store.
FetchIssues ==
    /\ pc = "poll"
    /\ \/ \E a \in Answers :
            /\ pc' = "observe"
            /\ IF a.open /\ a.state \in Board
               THEN /\ Tick(1) /\ sink' = RecordIssues(sink, a, now + 1) /\ view' = a
               ELSE UNCHANGED <<now, sink, view>>
            /\ UNCHANGED upsets
       \/ Upset /\ pc' = "wait" /\ UNCHANGED <<now, sink, view>>
    /\ UNCHANGED <<gh, lag, track, slack, log, row, told, resting>>

\* _observe_triage_track: the track as this tick read it, or as it is now.
ObserveTriageTrack ==
    /\ pc = "observe" /\ pc' = "claim"
    /\ \/ \E a \in (IF track = Nothing THEN Answers ELSE {track}) :
            Tick(1) /\ sink' = RecordTriageTrack(sink, a, now + 1) /\ UNCHANGED upsets
       \/ track = Nothing /\ Upset /\ UNCHANGED <<now, sink>>
    /\ track' = Nothing
    /\ UNCHANGED <<gh, lag, view, slack, log, row, told, resting>>

\* Dispatch claims what the poll listed: set_state, and its event.
Claim ==
    /\ pc = "claim" /\ pc' = "wait"
    /\ \/ /\ view.state = "todo" /\ view.open
          /\ gh' = [gh EXCEPT !.state = "in_progress"] /\ lag' = gh /\ Tick(1)
          /\ Publish(Event("moved", [state |-> "in_progress"], now + 1))
          /\ resting' = FALSE
       \/ UNCHANGED <<gh, lag, now, sink, slack, resting, upsets>>
    /\ UNCHANGED <<view, track, log, row, told>>

\* A triage run files its verdict: its task is beside the tick's.
FileVerdict ==
    /\ pc \notin {"slack", "store", "down"} /\ gh.triage = "todo"
    /\ gh' = [gh EXCEPT !.triage = "complete"] /\ lag' = gh /\ Tick(1)
    /\ Publish(Event("triaged", [triage |-> "complete"], now + 1))
    /\ UNCHANGED <<pc, view, track, log, row, told, resting>>

\* The next tick: by then GitHub's answers have the last one's writes.
NextTick ==
    /\ pc = "wait" /\ pc' = "sweep" /\ lag' = gh /\ view' = Nothing /\ track' = Nothing
    /\ UNCHANGED <<gh, now, sink, slack, log, row, told, resting, upsets>>

----------------------------------------------------------------------------
\* The store's writes.

Tell(t, says, at) ==
    [f \in Fields |-> IF f \in DOMAIN says /\ at >= t[f].at
                      THEN [at |-> at, val |-> says[f]] ELSE t[f]]

AnyAge(r, at) == TRUE
\* The guard of every write of the row: seen_at.
NotOlder(r, at) == r.at <= at

\* STATE_CHANGED, TRIAGE_CHANGED, ISSUE_CLOSED: an update of the row that is there.
Updated(r, says, at) ==
    IF r.at # 0 /\ NotOlder(r, at)
    THEN [f \in Fields \cup {"at"} |-> IF f = "at" THEN at
                                       ELSE IF f \in DOMAIN says THEN says[f] ELSE r[f]]
    ELSE r

\* UPSERT_ISSUE, of the batch: the whole row.
Upserted(r, batch) ==
    IF NotOlder(r, batch.at)
    THEN [f \in Fields \cup {"at"} |-> IF f = "at" THEN batch.at ELSE batch.view[f]]
    ELSE r

\* RECONCILE_TRIAGE: an open row the complete read does not have has left the track.
Left(r, listed) == r.at # 0 /\ r.open /\ r.triage # "none" /\ ~listed
Reconciled(r, listed, at) ==
    IF Left(r, listed) /\ NotOlder(r, at) THEN [r EXCEPT !.triage = "none"] ELSE r

\* What a write of the work leaves in the store, in one transaction.
Write(w) ==
    CASE w.item = "event" ->
            /\ log' = Append(log, w.at)
            /\ row' = Updated(row, w.says, w.at)
            /\ told' = IF row.at # 0 THEN Tell(told, w.says, w.at) ELSE told
      [] w.item = "issues" ->
            /\ row' = Upserted(row, w)
            /\ told' = Tell(told, w.view, w.at)
            /\ UNCHANGED log
      [] OTHER ->
            /\ row' = Reconciled(row, w.listed, w.at)
            /\ told' = IF Left(row, w.listed) THEN Tell(told, [triage |-> "none"], w.at) ELSE told
            /\ UNCHANGED log
Unwritten == UNCHANGED <<log, row, told>>

----------------------------------------------------------------------------
\* The sink's task: one work at a time, tried until it is written or refused.

\* _take: the marker becomes the batch that is pending when its turn comes.
Take ==
    /\ sink.step = "get" /\ sink.queue # <<>> /\ pc # "down"
    /\ LET item == Head(sink.queue)
           rest == [sink EXCEPT !.queue = Tail(@)]
       IN sink' = CASE item.item = "end" -> [rest EXCEPT !.step = "done"]
                    [] item.item = "issues" ->
                         [rest EXCEPT !.step = "write", !.batch = NoBatch, !.marked = FALSE,
                                      !.work = [item |-> "issues", at |-> sink.batch.at,
                                                view |-> sink.batch.view]]
                    [] OTHER -> [rest EXCEPT !.step = "write", !.work = item]
    /\ UNCHANGED <<gh, lag, pc, view, track, now, slack, log, row, told, resting, upsets>>

\* _ensure_connected: tried until the store answers.
Connect ==
    /\ sink.step = "write" /\ ~sink.connected /\ pc # "down"
    /\ sink' = [sink EXCEPT !.connected = TRUE]
    /\ UNCHANGED <<gh, lag, pc, view, track, now, slack, log, row, told, resting, upsets>>

\* A lost connection leaves the work in the task's hands.
Requeued(s) == [s EXCEPT !.connected = FALSE, !.step = "get", !.work = Idle,
                         !.queue = Append(@, s.work)]
Kept(s) == [s EXCEPT !.connected = FALSE]

\* A write, and its end: written; refused by the store, which drops it; or the connection
\* is lost, before the commit or after it, and the same work is tried again.
Apply ==
    /\ sink.step = "write" /\ sink.connected /\ pc # "down"
    /\ LET done == [sink EXCEPT !.step = "get", !.work = Idle]
       IN \/ Write(sink.work) /\ sink' = done /\ UNCHANGED upsets
          \/ Upset /\ Unwritten /\ sink' = [done EXCEPT !.failed = @ + 1]
          \/ /\ Upset /\ (Write(sink.work) \/ Unwritten)
             /\ sink' = Kept(sink)
    /\ UNCHANGED <<gh, lag, pc, view, track, now, slack, resting>>

----------------------------------------------------------------------------
\* The Slack sink's task: a message is posted up to MAX_ATTEMPTS times.

SlackTake ==
    /\ slack.step = "get" /\ slack.queue # <<>> /\ pc # "down"
    /\ LET rest == [slack EXCEPT !.queue = Tail(@)]
       IN slack' = IF Head(slack.queue).item = "end" THEN [rest EXCEPT !.step = "done"]
                   ELSE [rest EXCEPT !.step = "post", !.work = Head(slack.queue), !.attempt = 1]
    /\ UNCHANGED <<gh, lag, pc, view, track, now, sink, log, row, told, resting, upsets>>

\* A post: accepted, which is an event of its own; not, and worth another attempt; or not.
Post ==
    /\ slack.step = "post" /\ pc # "down"
    /\ LET done == [slack EXCEPT !.step = "get", !.work = Idle, !.attempt = 0]
       IN \/ /\ Tick(1) /\ slack' = [done EXCEPT !.sent = @ + 1]
             /\ sink' = HandleEvent(sink, Event("sent", <<>>, now + 1))
             /\ UNCHANGED upsets
          \/ /\ Upset /\ slack.attempt < MaxAttempts
             /\ slack' = [slack EXCEPT !.attempt = @ + 1] /\ UNCHANGED <<now, sink>>
          \/ Upset /\ slack' = [done EXCEPT !.failed = @ + 1] /\ UNCHANGED <<now, sink>>
    /\ UNCHANGED <<gh, lag, pc, view, track, log, row, told, resting>>

----------------------------------------------------------------------------
\* The process's end and its next start.

\* The orchestrator's run ends: the sinks are closed in their order, Slack's first.
CloseSlack ==
    /\ pc = "wait" /\ pc' = "slack" /\ view' = Nothing /\ track' = Nothing /\ lag' = gh
    /\ slack' = [slack EXCEPT !.closed = TRUE, !.queue = Append(@, Sentinel)]
    /\ UNCHANGED <<gh, now, sink, log, row, told, resting, upsets>>

Items(queue) == Cardinality({i \in DOMAIN queue : queue[i].item # "end"})

Uncounted(s) ==
    [s EXCEPT !.step = "done", !.work = Idle, !.queue = <<>>, !.dropped = @ + Items(s.queue)]

\* The drain is over, or its time is: then the task is cancelled at its await, and what is
\* left is counted.
Drained(s) == s.step = "done"
GivenUp(s) ==
    [s EXCEPT !.step = "done", !.work = Idle, !.queue = <<>>,
              !.failed = IF s.work = Idle THEN @ ELSE @ + 1,
              !.dropped = @ + Items(s.queue)]

CloseStore(slackAfter) ==
    /\ pc = "slack" /\ pc' = "store" /\ slack' = slackAfter
    /\ sink' = [sink EXCEPT !.closed = TRUE, !.queue = Append(@, Sentinel)]
    /\ UNCHANGED <<gh, lag, view, track, now, log, row, told, resting, upsets>>
SlackDrains == Drained(slack) /\ CloseStore(slack)
SlackWaits == Drained(slack) /\ CloseStore(slack)
SlackTimesOut == ~Drained(slack) /\ CloseStore(GivenUp(slack))

End(sinkAfter) ==
    /\ pc = "store" /\ pc' = "down" /\ sink' = sinkAfter
    /\ UNCHANGED <<gh, lag, view, track, now, slack, resting, upsets>>
SinkDrains == Drained(sink) /\ End(sink) /\ Unwritten
\* A write cancelled on its way may have been committed.
SinkTimesOut ==
    /\ ~Drained(sink) /\ End(GivenUp(sink))
    /\ Unwritten \/ (sink.step = "write" /\ sink.connected /\ Write(sink.work))

\* The process dies: what was queued is lost.
Crash ==
    /\ pc # "down" /\ pc' = "down"
    /\ sink' = NoSink /\ slack' = NoSlack /\ resting' = FALSE
    /\ view' = Nothing /\ track' = Nothing /\ lag' = gh
    /\ UNCHANGED <<gh, now, log, row, told, upsets>>

Restart ==
    /\ Upset /\ pc = "down" /\ pc' = "sweep"
    /\ sink' = NoSink /\ slack' = NoSlack /\ resting' = FALSE
    /\ UNCHANGED <<gh, lag, view, track, now, log, row, told>>

Next ==
    \/ HumanActs
    \/ Sweep \/ Finish \/ ReportMoved \/ ReadTriageTrack \/ FetchIssues \/ ObserveTriageTrack
    \/ Claim \/ FileVerdict \/ NextTick
    \/ Take \/ Connect \/ Apply
    \/ SlackTake \/ Post
    \/ CloseSlack \/ SlackDrains \/ SlackTimesOut \/ SinkDrains \/ SinkTimesOut
    \/ Crash \/ Restart

Spec == Init /\ [][Next]_vars

\* The timers of the shutdown fire. Of Slack and the store nothing is assumed.
FairSpec ==
    /\ Spec
    /\ WF_vars(SlackDrains \/ SlackTimesOut) /\ WF_vars(SinkDrains \/ SinkTimesOut)

----------------------------------------------------------------------------
\* Properties.

\* Each field of the issue's row is what the newest view or event that was written says of
\* it, in whatever order they were queued, merged, retried and written: `seen_at` guards the
\* row as a whole, though an event tells one field of it (db/store.py).
RowIsNewest == row.at # 0 => \A f \in Fields : row[f] = told[f].val

Quiet == sink.queue = <<>> /\ sink.work = Idle
Lossless == sink.failed = 0 /\ sink.dropped = 0

\* An issue the worker took to rest is at rest in the store too, once the sink has nothing
\* left to write and has lost nothing: no tick reads such an issue again, so a view of it
\* from before the move, written last, would stand for ever (_report_moved).
RestIsStored ==
    resting /\ pc \in {"wait", "sweep"} /\ Quiet /\ Lossless =>
        row.at # 0 /\ row.state = gh.state /\ ~row.open

\* The events table is an EventLog: what is written is written in its turn, or once more beside
\* itself when the answer to its commit is lost, and nothing is taken back, by a restart either.
History == INSTANCE EventLog WITH Numbers <- 1..MaxTold
KeepsHistory == History!Spec

\* No event is lost uncounted: what the sink was handed is stored, waiting, in its hands, or
\* among those it counts as dropped or failed; Slack's sums are exact; and none is refused for
\* coming after the close, a NotificationSent of the drain of Slack included.
Waiting == {sink.queue[i].at : i \in {j \in DOMAIN sink.queue : sink.queue[j].item = "event"}}
           \cup (IF sink.work.item = "event" THEN {sink.work.at} ELSE {})
LossIsCounted ==
    /\ Cardinality(sink.handled \ (ToSet(log) \cup Waiting)) <= sink.failed + sink.dropped
    /\ slack.handled = slack.sent + slack.failed + slack.dropped + Items(slack.queue)
                       + (IF slack.work = Idle THEN 0 ELSE 1)
    /\ ~sink.late

\* A shutdown that has begun ends, whatever Slack and the store do.
ClosesInTime == pc = "slack" ~> pc = "down"

ServicesTypeOK ==
    /\ gh \in Issues /\ lag \in Issues /\ now \in 0..MaxTold
    /\ pc \in {"sweep", "finish", "reread", "track", "poll", "observe", "claim", "wait",
               "slack", "store", "down"}
    /\ sink.step \in {"get", "write", "done"} /\ slack.step \in {"get", "post", "done"}
    /\ Len(sink.queue) <= QueueLimit + 2 /\ Len(slack.queue) <= SlackLimit + 1
    /\ (sink.work = Idle) = (sink.step # "write")
=============================================================================
