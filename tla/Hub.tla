---------------------------------- MODULE Hub ----------------------------------
(***************************************************************************)
(* The hub: the web process's two Slack alerts (web/actions.py, the minutes *)
(* of GitHub Actions, and web/claude_limits.py, claude's usage limits), and *)
(* the dashboard's and the command line's request that a worker polls now   *)
(* (web/app.py, db/listen.py, the worker's wait between ticks).  All three  *)
(* go through the store, which has outages, and share nothing else: a       *)
(* behaviour is of one of them.                                             *)
(*                                                                         *)
(* An upgrade starts the new web process while the old one is still going:  *)
(* each of `Webs` reads, claims, posts and gives back step by step.  The    *)
(* worker's tick, its retries and its sessions' exits are in Orchestrator.  *)
(***************************************************************************)
EXTENDS Integers, FiniteSets

CONSTANTS
    Webs,       \* web processes over the one store
    Top,        \* the thresholds are 1..Top; Top is claude's refusal, or 100 %
    MaxPeriods, \* bound: months, or the instances of claude's window
    MaxOutages, \* bound: outages of the store
    MaxFaults   \* bound: posts not known to be delivered, answers lost, restarts

ASSUME HubAssumption == Top \in Nat \ {0} /\ MaxPeriods \in Nat \ {0}

VARIABLES
    part,     \* the part at work, the others at rest: "minutes", "limits" or "refresh"
    now, use, \* the period, and the highest threshold its use has reached
    up, outages, faults,
    alerted,  \* the store's memory: the threshold claimed, by period
    month,    \* the period of the account's row; the minutes' alert only
    web,      \* where each process's cycle is
    posted,   \* history: how often each threshold reached Slack and its claim was kept, by period
    unheard,  \* history: how often it did and its post failed all the same
    held,     \* history: the periods a claim of which was never given back
    listener, \* the worker's connection: "down" or "listening"
    notice,   \* a NOTIFY is on its way to it
    pending,  \* the worker's _refresh_pending
    queued,   \* its queue holds a refresh
    wait,     \* the worker is in a "tick", or waits: too "early" for a refresh, "late"
              \* enough for one, or till "soon", when it will be
    asked     \* history: a NOTIFY reached the connection, no tick since

world   == <<now, use>>
store   == <<up, outages>>
memory  == <<alerted, month>>
sent    == <<posted, unheard>>
alerts  == <<memory, web, sent, held>>
worker  == <<pending, queued, wait>>
refresh == <<listener, notice, worker, asked>>
hubVars == <<part, world, store, faults, alerts, refresh>>

Periods == 1..MaxPeriods
Idle == [at |-> "idle", of |-> 1, target |-> 0, previous |-> 0]

HubInit ==
    /\ part \in {"minutes", "limits", "refresh"}
    /\ now = 1 /\ use = [p \in Periods |-> 0]
    /\ up = TRUE /\ outages = 0 /\ faults = 0
    /\ alerted = [p \in Periods |-> 0] /\ month = 1
    /\ web = [w \in Webs |-> Idle]
    /\ posted = [p \in Periods |-> [t \in 1..Top |-> 0]] /\ unheard = posted
    /\ held = {}
    /\ listener = "down" /\ notice = FALSE
    /\ pending = FALSE /\ queued = FALSE /\ wait = "tick"
    /\ asked = FALSE

Fault == faults < MaxFaults /\ faults' = faults + 1
-----------------------------------------------------------------------------
\* The world, and the store's outages.

UseRises ==
    /\ use[now] < Top
    /\ \E t \in use[now] + 1..Top : use' = [use EXCEPT ![now] = t]
    /\ UNCHANGED <<part, now, store, faults, alerts, refresh>>

\* A window of claude's is remembered by itself, so one of them is enough.
PeriodEnds ==
    /\ part = "minutes"
    /\ now < MaxPeriods /\ now' = now + 1
    /\ UNCHANGED <<part, use, store, faults, alerts, refresh>>

\* The worker's connection breaks with the store, and what was on its way with it.
StoreGoes ==
    /\ up /\ outages < MaxOutages
    /\ up' = FALSE /\ outages' = outages + 1
    /\ listener' = "down" /\ notice' = FALSE
    /\ asked' = (asked /\ (notice => pending \/ wait = "soon"))
    /\ UNCHANGED <<part, world, faults, alerts, worker>>

StoreComes ==
    /\ ~up /\ up' = TRUE
    /\ UNCHANGED <<part, world, outages, faults, alerts, refresh>>
-----------------------------------------------------------------------------
\* The alerts.  A cycle waits its interval, or longer after a refused post.

Step(w, at) == web' = [web EXCEPT ![w].at = at]
Over(w) == web' = [web EXCEPT ![w] = Idle]

\* The periods a reading may be of: GitHub may still answer for the last month, while
\* a window that has reopened is passed over.
ReadingsOf == IF part = "minutes" THEN {p \in Periods : p \in {now - 1, now}} ELSE {now}

\* fetch_actions_usage, or the workers' snapshots with due_alerts.
Poll(w) ==
    /\ web[w].at = "idle"
    /\ part = "limits" => up
    /\ \E p \in ReadingsOf :
          /\ use[p] > 0
          /\ web' = [web EXCEPT ![w] = [Idle EXCEPT !.at = "read", !.of = p, !.target = use[p]]]
    /\ UNCHANGED <<part, world, store, faults, memory, sent, held, refresh>>

\* Mutant: a reading of last month is written over this month's.
AnyMonth(p) == TRUE

\* RECORD_READING's condition: no month before the stored one's.
NotOlder(p) == p >= month

\* record_actions_reading: a new month's row starts its memory again.
Writes(p) == part = "minutes" /\ NotOlder(p)
Before(p) == IF Writes(p) /\ p # month THEN 0 ELSE alerted[p]
Record(p) ==
    /\ month' = IF Writes(p) THEN p ELSE month
    /\ alerted' = [alerted EXCEPT ![p] = Before(p)]

\* record_actions_reading or claude_limit_alerted, with the alert it calls for.  A month
\* that has ended has none.
Look(w) ==
    LET p == web[w].of
        due == (part = "minutes" => Writes(p) /\ p = now) /\ web[w].target > Before(p)
    IN /\ up /\ web[w].at = "read"
       /\ Record(p)
       /\ web' = [web EXCEPT ![w] = IF due THEN [@ EXCEPT !.at = "claim", !.previous = Before(p)]
                                           ELSE Idle]
       /\ UNCHANGED <<part, world, store, faults, sent, held, refresh>>

\* The row a claim is of: the account's is of one month, a window has its own.
Row(p) == part = "minutes" => month = p

\* Mutant: a claim that does not raise the memory is taken too.
Claimable(w) == Row(web[w].of) /\ alerted[web[w].of] <= web[w].target

\* CLAIM_ALERT and CLAIM_CLAUDE_ALERT write only what raises the memory.
Raises(w) == Row(web[w].of) /\ alerted[web[w].of] < web[w].target

Claim(w) ==
    /\ up /\ web[w].at = "claim"
    /\ IF Raises(w)
       THEN /\ alerted' = [alerted EXCEPT ![web[w].of] = web[w].target]
            /\ Step(w, "post")
       ELSE Over(w) /\ UNCHANGED alerted
    /\ UNCHANGED <<part, world, store, faults, month, sent, held, refresh>>

More(h, w) == [h EXCEPT ![web[w].of][web[w].target] = IF @ = 2 THEN 2 ELSE @ + 1]

\* Slack answers that it has the message.
Post(w) ==
    /\ web[w].at = "post"
    /\ posted' = More(posted, w)
    /\ Over(w)
    /\ UNCHANGED <<part, world, store, faults, memory, unheard, held, refresh>>

\* It refuses the message, or does not answer within POST_TIMEOUT_S one it has.
PostFails(w) ==
    /\ web[w].at = "post" /\ Fault
    /\ unheard' \in {unheard, More(unheard, w)}
    /\ Step(w, "release")
    /\ UNCHANGED <<part, world, store, memory, posted, held, refresh>>

\* Mutant: a claim whose post failed is kept.
Keeps(w) == alerted

\* RELEASE_ALERT and RELEASE_CLAUDE_ALERT: only the claim that was taken.
Restored(w) ==
    IF Row(web[w].of) /\ alerted[web[w].of] = web[w].target
    THEN [alerted EXCEPT ![web[w].of] = web[w].previous] ELSE alerted

Release(w) ==
    /\ up /\ web[w].at = "release"
    /\ alerted' = Restored(w)
    /\ Over(w)
    /\ UNCHANGED <<part, world, store, faults, month, sent, held, refresh>>

\* What the statement a cycle waits for does at the store.
Carried(w) ==
    \/ web[w].at = "read" /\ Record(web[w].of)
    \/ /\ web[w].at = "claim" /\ Raises(w)
       /\ alerted' = [alerted EXCEPT ![web[w].of] = web[w].target] /\ UNCHANGED month
    \/ web[w].at = "release" /\ alerted' = Restored(w) /\ UNCHANGED month

\* The connection, or the store, is gone: the statement did not reach it, or its answer is
\* lost.  The cycle is over, and a claim not given back is held for good.
StoreFails(w) ==
    LET kept(at) == IF web[w].at = at THEN held \cup {web[w].of} ELSE held IN
    /\ web[w].at \in {"read", "claim", "release"}
    /\ (~up /\ UNCHANGED faults) \/ (up /\ Fault)
    /\ \/ UNCHANGED memory /\ held' = kept("release")
       \/ up /\ Carried(w) /\ held' = kept("claim")
    /\ Over(w)
    /\ UNCHANGED <<part, world, store, sent, refresh>>

\* The process is stopped and started.  Its task is cancelled wherever it is: a statement
\* on its way may be carried out, a post on its way delivered.
WebRestarts(w) ==
    /\ web[w].at # "idle" /\ Fault
    /\ \/ UNCHANGED <<memory, posted>>
       \/ up /\ Carried(w) /\ UNCHANGED posted
       \/ web[w].at = "post" /\ posted' = More(posted, w) /\ UNCHANGED memory
    /\ held' = IF web[w].at = "read" THEN held ELSE held \cup {web[w].of}
    /\ Over(w)
    /\ UNCHANGED <<part, world, store, unheard, refresh>>
-----------------------------------------------------------------------------
\* A refresh.

\* notify_refresh, of `issuebot refresh` and of the dashboard's POST /refresh, which holds
\* its own back for a while after one: the store passes it on to who listens, and to
\* nobody later.
Notify ==
    /\ up
    /\ notice' = (listener = "listening")
    /\ asked' = (asked \/ listener = "listening")
    /\ UNCHANGED <<part, world, store, faults, alerts, listener, worker>>

\* The listener's connection, made again after every loss.
Listen ==
    /\ up /\ listener = "down" /\ listener' = "listening"
    /\ UNCHANGED <<part, world, store, faults, alerts, notice, worker, asked>>

\* Its callback, request_refresh: one refresh is in the queue at a time.
Hear ==
    /\ notice /\ notice' = FALSE
    /\ pending' = TRUE
    /\ queued' = (queued \/ ~pending)
    /\ UNCHANGED <<part, world, store, faults, alerts, listener, wait, asked>>

\* The tick is over and the wait begins.
TickEnds ==
    /\ part = "refresh" /\ wait = "tick" /\ wait' = "early"
    /\ UNCHANGED <<part, world, store, faults, alerts, listener, notice, pending, queued, asked>>

\* The wait is over.
NextTick == wait' = "tick" /\ asked' = FALSE

\* MIN_REFRESH_INTERVAL_S after the wait began: a refresh put off till then starts a tick.
Admissible ==
    /\ \/ wait = "early" /\ wait' = "late" /\ UNCHANGED asked
       \/ wait = "soon" /\ NextTick
    /\ UNCHANGED <<part, world, store, faults, alerts, listener, notice, pending, queued>>

\* Mutant: that one is pending is not taken back.
PendingStill == pending

\* The queue's refresh: at once, or as soon as one may be.
PendingAfter == FALSE
TakeRefresh ==
    /\ wait # "tick" /\ queued
    /\ queued' = FALSE /\ pending' = PendingAfter
    /\ IF wait = "late" THEN NextTick ELSE wait' = "soon" /\ UNCHANGED asked
    /\ UNCHANGED <<part, world, store, faults, alerts, listener, notice>>

\* The polling interval is over, however long it is.
IntervalOver ==
    /\ wait # "tick" /\ NextTick
    /\ UNCHANGED <<part, world, store, faults, alerts, listener, notice, pending, queued>>

Cycle(w) == Poll(w) \/ Look(w) \/ Claim(w) \/ Post(w) \/ PostFails(w) \/ Release(w) \/ StoreFails(w)
HubNext ==
    \/ StoreGoes \/ StoreComes
    \/ /\ part # "refresh"
       /\ UseRises \/ PeriodEnds \/ (\E w \in Webs : Cycle(w) \/ WebRestarts(w))
    \/ part = "refresh" /\ (Notify \/ Listen \/ Hear)
    \/ part = "refresh" /\ (TickEnds \/ Admissible \/ TakeRefresh \/ IntervalOver)

HubSpec == HubInit /\ [][HubNext]_hubVars

\* A cycle goes on and another follows it, GitHub does not answer for the month before
\* for ever, the store comes back, the listener's and the worker's tasks go on.  The
\* interval's end is not relied on.
HubFairSpec ==
    /\ HubSpec
    /\ \A w \in Webs : WF_hubVars(Cycle(w))
    /\ SF_hubVars(\E w \in Webs : Poll(w) /\ web'[w].of = now)
    /\ WF_hubVars(StoreComes)
    /\ WF_hubVars(Hear) /\ WF_hubVars(TickEnds \/ Admissible) /\ WF_hubVars(TakeRefresh)
-----------------------------------------------------------------------------
\* However the processes' reads, claims and releases interleave, a threshold that Slack
\* answered for, or whose claim outlived its post, is not posted again in its period: not
\* by another process, not after a restart or a lost answer, and not when GitHub still
\* answers for the month before. Of two processes, as an upgrade has, this holds; of three
\* it would not (README).
NotPostedAgain ==
    \A p \in Periods, t \in 1..Top : posted[p][t] > 0 =>
        /\ posted[p][t] = 1
        /\ \A w \in Webs : web[w].at = "post" => <<web[w].of, web[w].target>> # <<p, t>>

\* "never posted twice" (web/actions.py:10, docs/dashboard.md:155), of what reached Slack.
\* It does not hold: urllib_post takes a message whose answer is late for a failed one
\* (slack.py:102), its claim is given back and it is posted again.
PostedOnce == \A p \in Periods, t \in 1..Top : posted[p][t] + unheard[p][t] <= 1

\* What use has reached is posted while its period lasts, and again until Slack answers for
\* it, unless a claim was cut off from its release.
AlertDue == use[now] > 0 /\ now \notin held /\ \A t \in use[now]..Top : posted[now][t] = 0
AlertArrives == AlertDue ~> ~AlertDue

\* A refresh that reached the worker starts a tick, and not only when the interval is over:
\* not one that came while a tick ran, nor one right after another.
RefreshHeard == asked ~> ~asked

\* What the hub is given to deliver arrives.
HubDelivers == AlertArrives /\ RefreshHeard
=============================================================================
