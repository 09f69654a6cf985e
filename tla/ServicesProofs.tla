--------------------------- MODULE ServicesProofs ---------------------------
(***************************************************************************)
(* Proofs about Services: the store's row says what the newest write of it *)
(* said, an issue taken to rest is stored at rest, what is lost is         *)
(* counted, and the history is appended to in its order.                   *)
(***************************************************************************)
EXTENDS Services, FiniteSetTheorems, TLAPS

-----------------------------------------------------------------------------
(* Types *)

Kinds == {"moved", "completed", "cancelled", "triaged", "sent"}
Says == {[state |-> "in_progress"], [state |-> "complete"], [state |-> "none"],
         [open |-> FALSE], [triage |-> "complete"], <<>>}
Views == [state : Rest \cup Board, open : BOOLEAN, triage : {"none", "todo", "complete", "unread"}]
Events == [item : {"event"}, kind : Kinds, says : Says, at : Nat]
Tracks == [item : {"track"}, listed : BOOLEAN, at : Nat]
Batches == [item : {"issues"}, at : Nat, view : Views]
Things == Events \cup Tracks \cup {Marker, Sentinel}
Works == Events \cup Tracks \cup Batches \cup {Idle}
Sinks == [queue : Seq(Things), batch : [at : Nat, view : Views], marked : BOOLEAN, work : Works,
          step : {"get", "write", "done"}, connected : BOOLEAN, closed : BOOLEAN,
          failed : Nat, dropped : Nat, handled : SUBSET Nat, late : BOOLEAN]

\* What is in the store: the row's fields, and what the newest writes of them said.
StoreOK(r, t) == /\ DOMAIN r = Fields \cup {"at"} /\ r.at \in Nat
                 /\ \A f \in Fields : t[f].at \in Nat
                 /\ r.at # 0 => \A f \in Fields : r[f] = t[f].val

\* A write of stamp `at` finds all that is stored older, or all of it newer.
Behind(r, t, at) == r.at <= at /\ \A f \in Fields : t[f].at <= at
Passed(r, t, at) == r.at > at /\ \A f \in Fields : t[f].at > at

\* What has a stamp of its own in the queue; the marker's is the batch's when its turn comes.
Stamped(x) == x.item \in {"event", "track"}

\* The queue is in the order of its stamps, after the work in hand; all before the marker is
\* older than the batch it stands for; and each write will find the store behind it, or, an
\* event or a track that a batch overtook, wholly past it.
InOrder(s, n, r, t) == \A i \in DOMAIN s.queue : Stamped(s.queue[i]) =>
    /\ s.queue[i].at <= n
    /\ Behind(r, t, s.queue[i].at) \/ Passed(r, t, s.queue[i].at)
    /\ Stamped(s.work) => s.work.at < s.queue[i].at
    /\ \A j \in DOMAIN s.queue : i < j =>
         /\ Stamped(s.queue[j]) => s.queue[i].at < s.queue[j].at
         /\ s.queue[j] = Marker => s.queue[i].at < s.batch.at
MarkerStands(s, n, r, t) ==
    /\ s.marked => /\ Behind(r, t, s.batch.at) /\ s.batch.at <= n
                   /\ s.work # Idle => s.work.at < s.batch.at
    /\ \A i, j \in DOMAIN s.queue : s.queue[i] = Marker /\ s.queue[j] = Marker => i = j
    /\ \A i \in DOMAIN s.queue : s.queue[i] = Marker => s.marked
    /\ s.marked /\ s.step # "done" => \E i \in DOMAIN s.queue : s.queue[i] = Marker
WorkInTurn(s, n, r, t) ==
    /\ (s.work = Idle) <=> s.step # "write"
    /\ s.work # Idle =>
         /\ s.work.at <= n
         /\ Behind(r, t, s.work.at) \/ (Stamped(s.work) /\ Passed(r, t, s.work.at))

SinkInv(s, n, r, t) ==
    /\ s \in Sinks /\ n \in Nat /\ StoreOK(r, t) /\ Behind(r, t, n)
    /\ InOrder(s, n, r, t) /\ MarkerStands(s, n, r, t) /\ WorkInTurn(s, n, r, t)

\* The rest of the process, as far as the sink depends on it.
ProcessOK ==
    /\ gh \in Issues /\ lag \in Issues /\ view \in Views /\ track \in Views
    /\ now \in Nat
    /\ pc \in {"sweep", "finish", "reread", "track", "poll", "observe", "claim", "wait",
               "slack", "store", "down"}

StoreInv == ProcessOK /\ SinkInv(sink, now, row, told)
-----------------------------------------------------------------------------
(* The side that enqueues *)

\* A sink is its fields.
LEMMA SinkFields ==
    ASSUME NEW s \in Sinks
    PROVE  /\ s.queue \in Seq(Things) /\ s.batch.at \in Nat /\ s.batch.view \in Views
           /\ s.marked \in BOOLEAN /\ s.work \in Works /\ s.step \in {"get", "write", "done"}
           /\ s.connected \in BOOLEAN /\ s.closed \in BOOLEAN /\ s.failed \in Nat
           /\ s.dropped \in Nat /\ s.handled \in SUBSET Nat /\ s.late \in BOOLEAN
  BY DEF Sinks

\* What the items and the works are told apart by.
LEMMA Kindly ==
    /\ \A x \in Events : x.item = "event" /\ x.at \in Nat /\ x.says \in Says
    /\ \A x \in Tracks : x.item = "track" /\ x.at \in Nat /\ x.listed \in BOOLEAN
    /\ \A x \in Batches : x.item = "issues" /\ x.at \in Nat /\ x.view \in Views
    /\ Marker.item = "issues" /\ Sentinel.item = "end" /\ Idle.item = "idle"
  BY DEF Events, Tracks, Batches, Marker, Sentinel, Idle

\* So what has a stamp is an event or a track's read.
LEMMA StampedThings ==
    /\ \A x \in Things : Stamped(x) <=> x \in Events \cup Tracks
    /\ \A x \in Works : Stamped(x) <=> x \in Events \cup Tracks
    /\ \A x \in Works : x # Idle => x \in Events \cup Tracks \cup Batches
    /\ \A x \in Things : Stamped(x) => x # Marker
    /\ \A x \in Works : Stamped(x) => x # Idle
    /\ \A x \in Things \cup Works : Stamped(x) => x.at \in Nat
    /\ \A x \in Works : x # Idle => x.at \in Nat
  BY Kindly DEF Stamped, Things, Works

\* Nothing that was said of a clock is untrue of a later one.
LEMMA ClockGoesOn ==
    ASSUME NEW s, NEW n, NEW r, NEW t, SinkInv(s, n, r, t), NEW m \in Nat, n <= m
    PROVE  SinkInv(s, m, r, t)
  <1>1. n \in Nat /\ s \in Sinks /\ StoreOK(r, t)
    BY DEF SinkInv
  <1>2. Behind(r, t, m)
    BY <1>1 DEF SinkInv, Behind, StoreOK
  <1>3. InOrder(s, m, r, t)
    BY <1>1, SinkFields, StampedThings DEF SinkInv, InOrder
  <1>4. MarkerStands(s, m, r, t)
    BY <1>1, SinkFields DEF SinkInv, MarkerStands
  <1>5. WorkInTurn(s, m, r, t)
    BY <1>1, SinkFields, StampedThings, Kindly DEF SinkInv, WorkInTurn
  <1> QED BY <1>1, <1>2, <1>3, <1>4, <1>5 DEF SinkInv

\* What the sink's invariant looks at of a sink.
Joins(s, u) == /\ u.batch = s.batch /\ u.marked = s.marked
               /\ u.work = s.work /\ u.step = s.step
Same(s, u) == u.queue = s.queue /\ Joins(s, u)

\* Counts alone break nothing.
LEMMA SameSink ==
    ASSUME NEW s, NEW u \in Sinks, NEW n, NEW r, NEW t, SinkInv(s, n, r, t), Same(s, u)
    PROVE  SinkInv(u, n, r, t)
  BY DEF SinkInv, Same, Joins, InOrder, MarkerStands, WorkInTurn

\* Something newer than all that was told, or without a stamp, joins the queue.
Joined(s, u, x) == u.queue = Append(s.queue, x) /\ Joins(s, u)

\* The queue with it at its end is in order still.
LEMMA ItemJoins ==
    ASSUME NEW s, NEW u \in Sinks, NEW n, NEW r, NEW t, SinkInv(s, n, r, t),
           NEW x \in Things, x # Marker, NEW m \in Nat, n <= m, Joined(s, u, x),
           Stamped(x) => /\ x.at = m /\ Behind(r, t, m)
                         /\ \A i \in DOMAIN s.queue : Stamped(s.queue[i]) => s.queue[i].at < m
                         /\ Stamped(s.work) => s.work.at < m
    PROVE  SinkInv(u, m, r, t)
  <1>1. SinkInv(s, m, r, t)
    BY ClockGoesOn
  <1>2. s \in Sinks /\ s.queue \in Seq(Things)
    BY SinkFields DEF SinkInv
  <1>3. DEFINE q == s.queue
               l == Len(s.queue)
  <1>4. /\ l \in Nat /\ DOMAIN q = 1..l /\ DOMAIN u.queue = 1..(l + 1)
        /\ \A i \in 1..l : u.queue[i] = q[i] /\ u.queue[i] \in Things
        /\ u.queue[l + 1] = x
    BY <1>2 DEF Joined, Joins
  <1>5. InOrder(u, m, r, t)
    <2> SUFFICES ASSUME NEW i \in 1..(l + 1), Stamped(u.queue[i])
                 PROVE  /\ u.queue[i].at <= m
                        /\ Behind(r, t, u.queue[i].at) \/ Passed(r, t, u.queue[i].at)
                        /\ Stamped(u.work) => u.work.at < u.queue[i].at
                        /\ \A j \in 1..(l + 1) : i < j =>
                             /\ Stamped(u.queue[j]) => u.queue[i].at < u.queue[j].at
                             /\ u.queue[j] = Marker => u.queue[i].at < u.batch.at
      BY <1>4 DEF InOrder
    <2>1. CASE i = l + 1
      BY <2>1, <1>4 DEF Joined, Joins
    <2>2. CASE i \in 1..l
      <3>1. u.queue[i] = q[i] /\ Stamped(q[i])
        BY <2>2, <1>4
      <3>2. /\ q[i].at <= m
            /\ Behind(r, t, q[i].at) \/ Passed(r, t, q[i].at)
            /\ Stamped(s.work) => s.work.at < q[i].at
            /\ \A j \in 1..l : i < j => /\ Stamped(q[j]) => q[i].at < q[j].at
                                        /\ q[j] = Marker => q[i].at < s.batch.at
        BY <1>1, <1>4, <3>1, <2>2 DEF SinkInv, InOrder
      <3>3. ASSUME NEW j \in 1..(l + 1), i < j
            PROVE  /\ Stamped(u.queue[j]) => q[i].at < u.queue[j].at
                   /\ u.queue[j] = Marker => q[i].at < u.batch.at
        <4>1. CASE j = l + 1
          BY <4>1, <1>4, <3>1, <2>2
        <4>2. CASE j \in 1..l
          BY <4>2, <1>4, <3>2, <3>3 DEF Joined, Joins
        <4> QED BY <4>1, <4>2, <1>4
      <3> QED BY <3>1, <3>2, <3>3 DEF Joined, Joins
    <2> QED BY <2>1, <2>2, <1>4
  <1>6. MarkerStands(u, m, r, t)
    <2>1. \A i \in 1..(l + 1) : u.queue[i] = Marker => i \in 1..l /\ q[i] = Marker
      BY <1>4
    <2>2. MarkerStands(s, m, r, t)
      BY <1>1 DEF SinkInv
    <2>3. (\E i \in 1..l : q[i] = Marker) => \E i \in 1..(l + 1) : u.queue[i] = Marker
      BY <1>4
    <2> QED BY <1>4, <2>1, <2>2, <2>3 DEF MarkerStands, Joined, Joins
  <1>7. WorkInTurn(u, m, r, t)
    BY <1>1 DEF SinkInv, WorkInTurn, Joined, Joins
  <1> QED BY <1>1, <1>5, <1>6, <1>7 DEF SinkInv

\* Nothing queued or in hand is newer than the clock.
Older(s, n) == /\ \A i \in DOMAIN s.queue : Stamped(s.queue[i]) => s.queue[i].at <= n
               /\ s.work # Idle => s.work.at <= n
\* So it is of a sink that is in order.
LEMMA AllOlder ==
    ASSUME NEW s, NEW n, NEW r, NEW t, SinkInv(s, n, r, t) PROVE Older(s, n)
  BY StampedThings DEF SinkInv, InOrder, WorkInTurn, Older, Sinks

\* A later clock is ahead of all that is stored.
LEMMA StoreIsBehind ==
    ASSUME NEW s, NEW n, NEW r, NEW t, SinkInv(s, n, r, t), NEW m \in Nat, n <= m
    PROVE  Behind(r, t, m)
  BY DEF SinkInv, Behind, StoreOK

\* A field changed is a sink with that field changed.
LEMMA QueueChanges ==
    ASSUME NEW s \in Sinks, NEW q \in Seq(Things), NEW u, u = [s EXCEPT !.queue = q]
    PROVE  u \in Sinks /\ Joins(s, u) /\ u.queue = q
  BY SinkFields DEF Sinks, Joins

\* Another count is the same sink to the store,
LEMMA CountChanges ==
    ASSUME NEW s \in Sinks, NEW d \in Nat, NEW u,
           u = [s EXCEPT !.dropped = d] \/ u = [s EXCEPT !.failed = d]
    PROVE  u \in Sinks /\ Same(s, u)
  BY SinkFields DEF Sinks, Joins, Same
\* as is another set of the stamps it was handed,
LEMMA HandledChanges ==
    ASSUME NEW s \in Sinks, NEW h \in SUBSET Nat, NEW u, u = [s EXCEPT !.handled = h]
    PROVE  u \in Sinks /\ Same(s, u)
  BY SinkFields DEF Sinks, Joins, Same
\* and another flag.
LEMMA FlagChanges ==
    ASSUME NEW s \in Sinks, NEW b \in BOOLEAN, NEW u,
           u = [s EXCEPT !.late = b] \/ u = [s EXCEPT !.connected = b] \/ u = [s EXCEPT !.closed = b]
    PROVE  u \in Sinks /\ Same(s, u)
  BY SinkFields DEF Sinks, Joins, Same

\* An event of its own time joins, or is dropped.
LEMMA EventHandled ==
    ASSUME NEW s, NEW n, NEW r, NEW t, SinkInv(s, n, r, t),
           NEW e \in Events, e.at = n + 1
    PROVE  SinkInv(HandleEvent(s, e), n + 1, r, t)
  <1>1. s \in Sinks /\ n \in Nat /\ n + 1 \in Nat
    BY DEF SinkInv
  <1>2. e \in Things /\ Stamped(e) /\ e # Marker
    BY Kindly, StampedThings DEF Things
  <1>5. [s EXCEPT !.handled = @ \cup {e.at}] = [s EXCEPT !.handled = s.handled \cup {e.at}]
        /\ s.handled \cup {e.at} \in SUBSET Nat
    BY <1>1, SinkFields, Kindly
  <1>3. CASE s.closed \/ Len(s.queue) >= QueueLimit
    <2> DEFINE h == [s EXCEPT !.handled = @ \cup {e.at}]
               d == [h EXCEPT !.dropped = @ + 1]
    <2>1. h \in Sinks /\ Same(s, h)
      BY <1>1, <1>5, HandledChanges
    <2>2. d \in Sinks /\ Same(h, d)
      <3> HIDE DEF h
      <3>1. d = [h EXCEPT !.dropped = h.dropped + 1] /\ h.dropped + 1 \in Nat
        BY <2>1, SinkFields
      <3> HIDE DEF d
      <3> QED BY <2>1, <3>1, CountChanges
    <2>3. [d EXCEPT !.late = TRUE] \in Sinks /\ Same(d, [d EXCEPT !.late = TRUE])
      <3> HIDE DEF d
      <3> QED BY <2>2, FlagChanges
    <2>4. HandleEvent(s, e) \in {d, [d EXCEPT !.late = TRUE]}
      BY <1>3 DEF HandleEvent
    <2>5. HandleEvent(s, e) \in Sinks /\ Same(s, HandleEvent(s, e))
      <3> HIDE DEF h, d
      <3> QED BY <2>1, <2>2, <2>3, <2>4 DEF Same, Joins
    <2> QED BY <1>1, <2>5, SameSink, ClockGoesOn
  <1>4. CASE ~(s.closed \/ Len(s.queue) >= QueueLimit)
    <2> DEFINE h == [s EXCEPT !.handled = @ \cup {e.at}]
    <2>0. HandleEvent(s, e) = [h EXCEPT !.queue = Append(h.queue, e)]
      BY <1>4 DEF HandleEvent
    <2>5. h \in Sinks /\ Same(s, h)
      BY <1>1, <1>5, HandledChanges
    <2>1. HandleEvent(s, e) \in Sinks /\ Joined(s, HandleEvent(s, e), e)
      <3> HIDE DEF h
      <3>1. Append(h.queue, e) \in Seq(Things)
        BY <1>2, <2>5, SinkFields
      <3>2. HandleEvent(s, e) \in Sinks /\ Joined(h, HandleEvent(s, e), e)
        BY <3>1, <2>0, <2>5, QueueChanges DEF Joined
      <3> QED BY <3>2, <2>5 DEF Joined, Same, Joins
    <2>2. /\ \A i \in DOMAIN s.queue : Stamped(s.queue[i]) => s.queue[i].at < n + 1
          /\ Stamped(s.work) => s.work.at < n + 1
      BY <1>1, AllOlder, SinkFields, StampedThings DEF Older
    <2> QED BY <1>1, <1>2, <2>1, <2>2, StoreIsBehind, ItemJoins
  <1> QED BY <1>3, <1>4

\* A view newer than all that was told becomes the batch.
Merged(s, u, m) == /\ u.queue = IF s.marked THEN s.queue ELSE Append(s.queue, Marker)
                   /\ u.batch.at = m /\ u.marked = TRUE /\ u.work = s.work /\ u.step = s.step

\* The batch takes the marker's place in the queue, at its end if there was none.
LEMMA BatchMerges ==
    ASSUME NEW s, NEW u \in Sinks, NEW n, NEW r, NEW t, SinkInv(s, n, r, t),
           NEW m \in Nat, n < m, Merged(s, u, m)
    PROVE  SinkInv(u, m, r, t) /\ Older(u, n)
  <1>1. SinkInv(s, m, r, t) /\ n \in Nat
    BY ClockGoesOn DEF SinkInv
  <1>2. s \in Sinks /\ s.queue \in Seq(Things) /\ Marker \in Things /\ ~Stamped(Marker)
    BY SinkFields, StampedThings DEF SinkInv, Things
  <1>3. Behind(r, t, m) /\ Older(s, n)
    BY <1>1, StoreIsBehind, AllOlder
  <1>4. CASE s.marked
    <2>1. /\ \A i \in DOMAIN s.queue : Stamped(s.queue[i]) => s.queue[i].at < m
          /\ s.work # Idle => s.work.at < m
      BY <1>1, <1>2, <1>3, SinkFields, StampedThings DEF Older
    <2>2. InOrder(u, m, r, t)
      BY <1>1, <1>2, <1>4, <2>1, StampedThings, SinkFields DEF SinkInv, InOrder, Merged
    <2>3. MarkerStands(u, m, r, t)
      BY <1>1, <1>3, <1>4, <2>1 DEF SinkInv, MarkerStands, Merged
    <2>4. WorkInTurn(u, m, r, t)
      BY <1>1 DEF SinkInv, WorkInTurn, Merged
    <2> QED BY <1>1, <1>3, <1>4, <2>2, <2>3, <2>4 DEF SinkInv, Older, Merged
  <1>5. CASE ~s.marked
    <2> DEFINE l == Len(s.queue)
    <2>1. /\ l \in Nat /\ DOMAIN s.queue = 1..l /\ DOMAIN u.queue = 1..(l + 1)
          /\ \A i \in 1..l : u.queue[i] = s.queue[i] /\ s.queue[i] \in Things
          /\ u.queue[l + 1] = Marker
      BY <1>2, <1>5 DEF Merged
    <2>2. \A i \in 1..l : s.queue[i] # Marker
      BY <1>1, <1>5, <2>1 DEF SinkInv, MarkerStands
    <2>3. /\ \A i \in 1..l : Stamped(s.queue[i]) => s.queue[i].at < m
          /\ s.work # Idle => s.work.at < m
      <3>1. \A i \in 1..l : Stamped(s.queue[i]) => s.queue[i].at \in Nat /\ s.queue[i].at <= n
        BY <1>3, <2>1, StampedThings DEF Older
      <3>2. s.work # Idle => s.work.at \in Nat /\ s.work.at <= n
        BY <1>2, <1>3, SinkFields, StampedThings DEF Older
      <3> HIDE DEF l
      <3> QED BY <3>1, <3>2, <1>1
    <2>4. InOrder(u, m, r, t)
      <3> SUFFICES ASSUME NEW i \in 1..(l + 1), Stamped(u.queue[i])
                   PROVE  /\ u.queue[i].at <= m
                          /\ Behind(r, t, u.queue[i].at) \/ Passed(r, t, u.queue[i].at)
                          /\ Stamped(u.work) => u.work.at < u.queue[i].at
                          /\ \A j \in 1..(l + 1) : i < j =>
                               /\ Stamped(u.queue[j]) => u.queue[i].at < u.queue[j].at
                               /\ u.queue[j] = Marker => u.queue[i].at < u.batch.at
        BY <2>1 DEF InOrder
      <3>1. i \in 1..l /\ u.queue[i] = s.queue[i] /\ Stamped(s.queue[i])
        BY <1>2, <2>1
      <3>2. /\ s.queue[i].at <= m
            /\ Behind(r, t, s.queue[i].at) \/ Passed(r, t, s.queue[i].at)
            /\ Stamped(s.work) => s.work.at < s.queue[i].at
            /\ \A j \in 1..l : i < j => (Stamped(s.queue[j]) => s.queue[i].at < s.queue[j].at)
        BY <1>1, <2>1, <3>1 DEF SinkInv, InOrder
      <3>3. \A j \in 1..(l + 1) : i < j =>
               /\ Stamped(u.queue[j]) => s.queue[i].at < u.queue[j].at
               /\ u.queue[j] = Marker => s.queue[i].at < u.batch.at
        <4> SUFFICES ASSUME NEW j \in 1..(l + 1), i < j
                     PROVE  /\ Stamped(u.queue[j]) => s.queue[i].at < u.queue[j].at
                            /\ u.queue[j] = Marker => s.queue[i].at < u.batch.at
          OBVIOUS
        <4>1. u.queue[j] = Marker => s.queue[i].at < u.batch.at
          BY <2>3, <3>1 DEF Merged
        <4>2. Stamped(u.queue[j]) => j \in 1..l
          BY <1>2, <2>1
        <4> QED BY <4>1, <4>2, <3>2, <2>1
      <3> QED BY <3>1, <3>2, <3>3 DEF Merged
    <2>5. MarkerStands(u, m, r, t)
      <3>1. \A i \in 1..(l + 1) : u.queue[i] = Marker => i = l + 1
        BY <2>1, <2>2
      <3>2. \E i \in 1..(l + 1) : u.queue[i] = Marker
        BY <2>1
      <3> QED BY <2>1, <2>3, <3>1, <3>2, <1>3 DEF MarkerStands, Merged
    <2>6. WorkInTurn(u, m, r, t)
      BY <1>1 DEF SinkInv, WorkInTurn, Merged
    <2>7. Older(u, n)
      <3>1. \A i \in 1..(l + 1) : Stamped(u.queue[i]) => i \in 1..l
        BY <1>2, <2>1
      <3> QED BY <3>1, <2>1, <1>3 DEF Older, Merged
    <2> QED BY <1>1, <2>4, <2>5, <2>6, <2>7 DEF SinkInv
  <1> QED BY <1>4, <1>5

\* The three ways the ticks tell the sink.
LEMMA MergeIs ==
    ASSUME NEW s \in Sinks, NEW a \in Views, NEW m \in Nat
    PROVE  Merge(s, a, m) \in Sinks /\ Merged(s, Merge(s, a, m), m)
           /\ Merge(s, a, m).closed = s.closed /\ Merge(s, a, m).batch.view = a
  <1>1. Append(s.queue, Marker) \in Seq(Things)
    BY SinkFields DEF Things
  <1> QED BY <1>1, SinkFields DEF Merge, Merged, Sinks

\* A snapshot, of the board or of a single issue.
LEMMA IssuesRecorded ==
    ASSUME NEW s, NEW n, NEW r, NEW t, SinkInv(s, n, r, t), NEW a \in Views
    PROVE  SinkInv(RecordIssues(s, a, n + 1), n + 1, r, t)
  <1>1. s \in Sinks /\ n \in Nat /\ n + 1 \in Nat
    BY DEF SinkInv
  <1> QED BY <1>1, MergeIs, BatchMerges, ClockGoesOn DEF RecordIssues

\* The complete read of the track, with the snapshot of what is listed before it.
LEMMA TrackRecorded ==
    ASSUME NEW s, NEW n, NEW r, NEW t, SinkInv(s, n, r, t), NEW a \in Views
    PROVE  SinkInv(RecordTriageTrack(s, a, n + 1), n + 1, r, t)
  <1> DEFINE listed == a.open /\ a.triage # "none"
             merged == IF listed THEN Merge(s, a, n + 1) ELSE s
             x == TrackRead(listed, n + 1)
             u == RecordTriageTrack(s, a, n + 1)
  <1>1. s \in Sinks /\ n \in Nat /\ n + 1 \in Nat
    BY DEF SinkInv
  <1>2. x \in Things /\ Stamped(x) /\ x # Marker /\ x.at = n + 1
    BY <1>1, Kindly, StampedThings DEF Things, Tracks, TrackRead
  <1>3. merged \in Sinks /\ SinkInv(merged, n + 1, r, t) /\ Older(merged, n)
    <2>1. CASE listed
      <3>1. Merge(s, a, n + 1) \in Sinks /\ Merged(s, Merge(s, a, n + 1), n + 1)
        BY <1>1, MergeIs
      <3>2. SinkInv(Merge(s, a, n + 1), n + 1, r, t) /\ Older(Merge(s, a, n + 1), n)
        BY <1>1, <3>1, BatchMerges
      <3> QED BY <2>1, <3>1, <3>2
    <2>2. CASE ~listed
      BY <1>1, <2>2, ClockGoesOn, AllOlder
    <2> QED BY <2>1, <2>2
  <1>4. CASE s.closed
    BY <1>1, <1>4, ClockGoesOn DEF RecordTriageTrack
  <1>5. CASE ~s.closed /\ Len(s.queue) >= QueueLimit
    <2>1. u \in Sinks /\ Same(s, u)
      <3>1. u = [s EXCEPT !.dropped = s.dropped + 1] /\ s.dropped + 1 \in Nat
        BY <1>1, <1>5, SinkFields DEF RecordTriageTrack
      <3> QED BY <3>1, <1>1, CountChanges
    <2> QED BY <1>1, <2>1, SameSink, ClockGoesOn
  <1>6. CASE ~s.closed /\ ~(Len(s.queue) >= QueueLimit)
    <2>1. u = [merged EXCEPT !.queue = Append(@, x)]
      BY <1>6 DEF RecordTriageTrack
    <2> HIDE DEF merged, x
    <2>2. u \in Sinks /\ Joined(merged, u, x)
      <3>1. Append(merged.queue, x) \in Seq(Things)
        BY <1>2, <1>3, SinkFields
      <3> HIDE DEF u
      <3> QED BY <3>1, <1>3, <2>1, QueueChanges DEF Joined
    <2>3. /\ \A i \in DOMAIN merged.queue : Stamped(merged.queue[i]) => merged.queue[i].at < n + 1
          /\ Stamped(merged.work) => merged.work.at < n + 1
      BY <1>1, <1>3, SinkFields, StampedThings DEF Older
    <2>4. Behind(r, t, n + 1)
      BY <1>1, <1>3, StoreIsBehind
    <2> QED BY <1>1, <1>2, <1>3, <2>2, <2>3, <2>4, ItemJoins
  <1> QED BY <1>4, <1>5, <1>6
-----------------------------------------------------------------------------
(* The sink's task *)

\* The queue without its head is in the order it was in.
LEMMA QueueMoves ==
    ASSUME NEW s, NEW u, NEW n, NEW r, NEW t, SinkInv(s, n, r, t), s.queue # <<>>,
           u.queue = Tail(s.queue), u.batch.at = s.batch.at \/ Head(s.queue) = Marker,
           Stamped(u.work) => u.work = Head(s.queue)
    PROVE  InOrder(u, n, r, t)
  <1> DEFINE q == s.queue
             l == Len(s.queue)
  <1>1. q \in Seq(Things) /\ l \in Nat /\ DOMAIN q = 1..l /\ l >= 1
    BY SinkFields DEF SinkInv
  <1>2. /\ Head(q) = q[1] /\ DOMAIN u.queue = 1..(l - 1)
        /\ \A i \in 1..(l - 1) : u.queue[i] = q[i + 1] /\ i + 1 \in 1..l /\ 1 < i + 1
    BY <1>1
  <1>3. InOrder(s, n, r, t)
    BY DEF SinkInv
  <1> SUFFICES ASSUME NEW i \in 1..(l - 1), Stamped(q[i + 1])
               PROVE  /\ q[i + 1].at <= n
                      /\ Behind(r, t, q[i + 1].at) \/ Passed(r, t, q[i + 1].at)
                      /\ Stamped(u.work) => u.work.at < q[i + 1].at
                      /\ \A j \in 1..(l - 1) : i < j =>
                           /\ Stamped(q[j + 1]) => q[i + 1].at < q[j + 1].at
                           /\ q[j + 1] = Marker => q[i + 1].at < u.batch.at
    BY <1>2 DEF InOrder
  <1>4. /\ q[i + 1].at <= n
        /\ Behind(r, t, q[i + 1].at) \/ Passed(r, t, q[i + 1].at)
        /\ \A j \in 1..l : i + 1 < j => /\ Stamped(q[j]) => q[i + 1].at < q[j].at
                                        /\ q[j] = Marker => q[i + 1].at < s.batch.at
    BY <1>1, <1>2, <1>3 DEF InOrder
  <1>5. ASSUME Stamped(u.work) PROVE u.work.at < q[i + 1].at
    <2>1. u.work = q[1] /\ Stamped(q[1])
      BY <1>2, <1>5
    <2>2. \A j \in 1..l : 1 < j /\ Stamped(q[j]) => q[1].at < q[j].at
      BY <1>1, <1>3, <2>1 DEF InOrder
    <2> QED BY <2>1, <2>2, <1>2
  <1>6. Head(q) = Marker => \A j \in 1..(l - 1) : q[j + 1] # Marker
    <2>1. \A j, k \in 1..l : q[j] = Marker /\ q[k] = Marker => j = k
      BY <1>1 DEF SinkInv, MarkerStands
    <2> QED BY <2>1, <1>1, <1>2
  <1>7. ASSUME NEW j \in 1..(l - 1), i < j
        PROVE  /\ Stamped(q[j + 1]) => q[i + 1].at < q[j + 1].at
               /\ q[j + 1] = Marker => q[i + 1].at < u.batch.at
    <2>1. j + 1 \in 1..l /\ i + 1 < j + 1
      BY <1>1, <1>7
    <2> HIDE DEF q, l
    <2> QED BY <2>1, <1>4, <1>6, <1>7 DEF q
  <1> HIDE DEF q, l
  <1> QED BY <1>4, <1>5, <1>7

\* What a Take takes.
TakenFrom(s) ==
    LET item == Head(s.queue)
        rest == [s EXCEPT !.queue = Tail(@)]
    IN CASE item.item = "end" -> [rest EXCEPT !.step = "done"]
         [] item.item = "issues" ->
              [rest EXCEPT !.step = "write", !.batch = NoBatch, !.marked = FALSE,
                           !.work = [item |-> "issues", at |-> s.batch.at, view |-> s.batch.view]]
         [] OTHER -> [rest EXCEPT !.step = "write", !.work = item]

\* The work in hand is the oldest that waits; a batch is the newest of its marker.
LEMMA TakenKeeps ==
    ASSUME NEW s, NEW n, NEW r, NEW t, SinkInv(s, n, r, t), s.step = "get", s.queue # <<>>
    PROVE  SinkInv(TakenFrom(s), n, r, t)
  <1> DEFINE q == s.queue
             l == Len(s.queue)
             u == TakenFrom(s)
             w == [item |-> "issues", at |-> s.batch.at, view |-> s.batch.view]
  <1>1. /\ s \in Sinks /\ q \in Seq(Things) /\ l \in Nat /\ DOMAIN q = 1..l /\ l >= 1
        /\ InOrder(s, n, r, t) /\ MarkerStands(s, n, r, t) /\ WorkInTurn(s, n, r, t)
        /\ n \in Nat /\ StoreOK(r, t) /\ Behind(r, t, n)
    BY SinkFields DEF SinkInv
  <1>2. /\ Head(q) = q[1] /\ q[1] \in Things /\ Tail(q) \in Seq(Things) /\ DOMAIN Tail(q) = 1..(l - 1)
        /\ \A i \in 1..(l - 1) : Tail(q)[i] = q[i + 1] /\ i + 1 \in 1..l /\ 1 < i + 1
    BY <1>1
  <1>3. s.work = Idle /\ ~Stamped(s.work)
    BY <1>1, StampedThings, SinkFields DEF WorkInTurn
  <1>4. \A i, j \in 1..l : q[i] = Marker /\ q[j] = Marker => i = j
    BY <1>1 DEF MarkerStands
  <1>8. \A i, j \in 1..(l - 1) : Tail(q)[i] = Marker /\ Tail(q)[j] = Marker => i = j
    <2> SUFFICES ASSUME NEW i \in 1..(l - 1), NEW j \in 1..(l - 1),
                        Tail(q)[i] = Marker, Tail(q)[j] = Marker
                 PROVE  i = j
      OBVIOUS
    <2>1. i + 1 = j + 1
      BY <1>2, <1>4
    <2> QED BY <2>1
  <1>5. CASE q[1] = Sentinel
    <2>1. u = [s EXCEPT !.queue = Tail(q), !.step = "done"]
      BY <1>2, <1>5, Kindly DEF TakenFrom
    <2>2. /\ u \in Sinks /\ u.queue = Tail(q) /\ u.step = "done" /\ u.work = s.work
          /\ u.batch = s.batch /\ u.marked = s.marked
      BY <1>1, <1>2, <2>1, SinkFields DEF Sinks
    <2>3. InOrder(u, n, r, t)
      BY <2>2, <1>3, QueueMoves
    <2>4. MarkerStands(u, n, r, t)
      <3>1. \A i \in 1..(l - 1) : Tail(q)[i] = Marker => s.marked
        BY <1>1, <1>2 DEF MarkerStands
      <3>2. s.marked => Behind(r, t, s.batch.at) /\ s.batch.at <= n
        BY <1>1 DEF MarkerStands
      <3> HIDE DEF u, q, l
      <3> QED BY <2>2, <3>1, <3>2, <1>2, <1>3, <1>8 DEF MarkerStands
    <2>5. WorkInTurn(u, n, r, t)
      BY <2>2, <1>3 DEF WorkInTurn
    <2> QED BY <1>1, <2>2, <2>3, <2>4, <2>5 DEF SinkInv
  <1>6. CASE q[1] = Marker
    <2>0. w \in Batches /\ w \in Works /\ w.at = s.batch.at /\ ~Stamped(w) /\ w # Idle
      BY <1>1, SinkFields, Kindly DEF Batches, Works, Stamped
    <2>1. u = [s EXCEPT !.queue = Tail(q), !.step = "write", !.batch = NoBatch, !.marked = FALSE,
                        !.work = w]
      BY <1>2, <1>6, Kindly DEF TakenFrom
    <2>2. /\ u \in Sinks /\ u.queue = Tail(q) /\ u.step = "write" /\ u.work = w /\ ~u.marked
      <3>1. NoBatch \in [at : Nat, view : Views]
        BY DEF NoBatch, Nothing, Views, Rest
      <3> DEFINE v == [s EXCEPT !.queue = Tail(q), !.step = "write", !.work = w]
      <3>2. v \in Sinks /\ v.queue = Tail(q) /\ v.step = "write" /\ v.work = w
        <4> HIDE DEF w
        <4> QED BY <1>1, <1>2, <2>0, SinkFields DEF Sinks
      <3>3. u = [v EXCEPT !.batch = NoBatch, !.marked = FALSE]
        <4> HIDE DEF w
        <4> QED BY <1>1, <2>1 DEF Sinks
      <3> HIDE DEF u, v, w
      <3> QED BY <3>1, <3>2, <3>3, SinkFields DEF Sinks
    <2>3. InOrder(u, n, r, t)
      BY <2>0, <2>2, <1>2, <1>6, QueueMoves
    <2>4. MarkerStands(u, n, r, t)
      <3>1. \A i \in 1..(l - 1) : Tail(q)[i] # Marker
        BY <1>2, <1>4, <1>6, <1>1
      <3> HIDE DEF u
      <3> QED BY <2>2, <3>1, <1>2 DEF MarkerStands
    <2>5. WorkInTurn(u, n, r, t)
      <3>1. s.marked
        BY <1>1, <1>6 DEF MarkerStands
      <3>2. Behind(r, t, w.at) /\ w.at <= n
        BY <3>1, <1>1, <2>0 DEF MarkerStands
      <3> HIDE DEF u, w
      <3> QED BY <2>0, <2>2, <3>2 DEF WorkInTurn
    <2> QED BY <1>1, <2>2, <2>3, <2>4, <2>5 DEF SinkInv
  <1>7. CASE q[1] \in Events \cup Tracks
    <2>0. q[1] \in Works /\ Stamped(q[1]) /\ q[1] # Idle
      BY <1>7, StampedThings DEF Works
    <2>1. u = [s EXCEPT !.queue = Tail(q), !.step = "write", !.work = q[1]]
      BY <1>2, <1>7, Kindly DEF TakenFrom
    <2>2. /\ u \in Sinks /\ u.queue = Tail(q) /\ u.step = "write" /\ u.work = q[1]
          /\ u.batch = s.batch /\ u.marked = s.marked
      BY <1>1, <1>2, <2>0, <2>1, SinkFields DEF Sinks
    <2>3. InOrder(u, n, r, t)
      BY <2>2, <1>2, QueueMoves
    <2>4. MarkerStands(u, n, r, t)
      <3>1. \A i \in 1..(l - 1) : Tail(q)[i] = Marker => q[i + 1] = Marker
        BY <1>2
      <3>2. ASSUME s.marked
            PROVE  /\ Behind(r, t, s.batch.at) /\ s.batch.at <= n
                   /\ q[1].at < s.batch.at
                   /\ \E i \in 1..(l - 1) : Tail(q)[i] = Marker
        <4>1. PICK j \in 1..l : q[j] = Marker
          BY <3>2, <1>1 DEF MarkerStands
        <4>2. j # 1
          BY <4>1, <2>0, <1>2, StampedThings
        <4>3. j - 1 \in 1..(l - 1) /\ Tail(q)[j - 1] = q[j]
          BY <4>2, <1>1, <1>2
        <4>4. q[1].at < s.batch.at
          BY <4>1, <4>2, <2>0, <1>1 DEF InOrder
        <4> QED BY <4>1, <4>3, <4>4, <3>2, <1>1 DEF MarkerStands
      <3>3. \A i \in 1..(l - 1) : Tail(q)[i] = Marker => s.marked
        BY <3>1, <1>1, <1>2 DEF MarkerStands
      <3> HIDE DEF u, q, l
      <3> QED BY <2>2, <3>2, <3>3, <1>2, <1>8 DEF MarkerStands
    <2>5. WorkInTurn(u, n, r, t)
      <3>1. q[1].at <= n /\ (Behind(r, t, q[1].at) \/ Passed(r, t, q[1].at))
        BY <2>0, <1>1 DEF InOrder
      <3> HIDE DEF u
      <3> QED BY <2>0, <2>2, <3>1 DEF WorkInTurn
    <2> QED BY <1>1, <2>2, <2>3, <2>4, <2>5 DEF SinkInv
  <1> QED BY <1>5, <1>6, <1>7, <1>2 DEF Things

\* What a write of stamp `at` does to the store: nothing it finds past it moves, what was
\* not newer than it is as new as it at most; a batch takes all.
Moves(r, t, rn, tn, at) ==
    /\ \A a \in Nat : Passed(r, t, a) => Passed(rn, tn, a)
    /\ \A a \in Nat : Behind(r, t, a) /\ at <= a => Behind(rn, tn, a)
Takes(rn, tn, at) == \A a \in Nat : a < at => Passed(rn, tn, a)

\* An event, or a track's read, tells one field of a row that is not newer, or nothing.
LEMMA OneFieldTold ==
    ASSUME NEW r, NEW t, NEW rn, NEW tn, StoreOK(r, t), NEW at \in Nat,
           DOMAIN rn = Fields \cup {"at"},
           \/ rn = r /\ \A f \in Fields : tn[f] = t[f]
           \/ /\ Behind(r, t, at) /\ r.at # 0
              /\ rn.at \in {r.at, at}
              /\ \A f \in Fields : \/ rn[f] = r[f] /\ tn[f] = t[f]
                                   \/ tn[f].at = at /\ tn[f].val = rn[f]
    PROVE  StoreOK(rn, tn) /\ Moves(r, t, rn, tn, at)
  <1>1. /\ r.at \in Nat /\ \A f \in Fields : t[f].at \in Nat
        /\ r.at # 0 => \A f \in Fields : r[f] = t[f].val
    BY DEF StoreOK
  <1>2. CASE rn = r /\ \A f \in Fields : tn[f] = t[f]
    BY <1>1, <1>2 DEF StoreOK, Moves, Passed, Behind
  <1>3. CASE /\ Behind(r, t, at) /\ r.at # 0
             /\ rn.at \in {r.at, at}
             /\ \A f \in Fields : \/ rn[f] = r[f] /\ tn[f] = t[f]
                                  \/ tn[f].at = at /\ tn[f].val = rn[f]
    <2>1. rn.at \in Nat /\ \A f \in Fields : tn[f].at \in Nat /\ rn[f] = tn[f].val
      BY <1>1, <1>3
    <2>2. ASSUME NEW a \in Nat, Passed(r, t, a) PROVE Passed(rn, tn, a)
      <3>1. a < r.at /\ r.at <= at /\ \A f \in Fields : t[f].at > a
        BY <2>2, <1>3 DEF Passed, Behind
      <3> QED BY <1>1, <1>3, <2>1, <3>1 DEF Passed
    <2>3. ASSUME NEW a \in Nat, Behind(r, t, a), at <= a PROVE Behind(rn, tn, a)
      BY <1>1, <1>3, <2>1, <2>3 DEF Behind
    <2> QED BY <1>3, <2>1, <2>2, <2>3 DEF StoreOK, Moves
  <1> QED BY <1>2, <1>3

\* A write of the work in hand, in its turn.
LEMMA WriteStores ==
    ASSUME NEW w \in Works, w # Idle, StoreOK(row, told), Write(w),
           Behind(row, told, w.at) \/ (Stamped(w) /\ Passed(row, told, w.at))
    PROVE  /\ StoreOK(row', told') /\ Moves(row, told, row', told', w.at)
           /\ ~Stamped(w) => Takes(row', told', w.at)
  <1>1. /\ DOMAIN row = Fields \cup {"at"} /\ row.at \in Nat /\ "at" \notin Fields
        /\ \A f \in Fields : told[f].at \in Nat
        /\ row.at # 0 => \A f \in Fields : row[f] = told[f].val
    BY DEF StoreOK, Fields
  <1>2. CASE w \in Events
    <2>1. /\ w.item = "event" /\ w.at \in Nat /\ Stamped(w)
          /\ row' = Updated(row, w.says, w.at)
          /\ told' = IF row.at # 0 THEN Tell(told, w.says, w.at) ELSE told
      BY <1>2, Kindly DEF Write, Stamped
    <2>2. CASE row.at # 0 /\ Behind(row, told, w.at)
      <3>1. /\ row' = [f \in Fields \cup {"at"} |-> IF f = "at" THEN w.at
                                                    ELSE IF f \in DOMAIN w.says THEN w.says[f] ELSE row[f]]
            /\ told' = Tell(told, w.says, w.at)
        BY <2>1, <2>2 DEF Updated, NotOlder, Behind
      <3>2. DOMAIN row' = Fields \cup {"at"} /\ row'.at = w.at
        BY <3>1
      <3>3. \A f \in Fields : \/ row'[f] = row[f] /\ told'[f] = told[f]
                              \/ told'[f].at = w.at /\ told'[f].val = row'[f]
        BY <1>1, <2>1, <2>2, <3>1 DEF Tell, Behind
      <3> QED BY <2>1, <2>2, <3>2, <3>3, OneFieldTold
    <2>3. CASE row.at # 0 /\ Passed(row, told, w.at)
      <3>1. row' = row
        BY <1>1, <2>1, <2>3 DEF Updated, NotOlder, Passed
      <3>2. \A f \in Fields : told'[f] = told[f]
        BY <1>1, <2>1, <2>3 DEF Tell, Passed
      <3>3. DOMAIN row' = Fields \cup {"at"}
        BY <3>1, <1>1
      <3>4. StoreOK(row', told') /\ Moves(row, told, row', told', w.at)
        BY <2>1, <3>1, <3>2, <3>3, OneFieldTold
      <3> QED BY <2>1, <3>4
    <2>4. CASE row.at = 0
      <3>1. row' = row /\ told' = told
        BY <2>1, <2>4 DEF Updated
      <3> QED BY <1>1, <2>1, <3>1, OneFieldTold
    <2> QED BY <2>2, <2>3, <2>4
  <1>3. CASE w \in Tracks
    <2>1. /\ w.item = "track" /\ w.at \in Nat /\ Stamped(w)
          /\ row' = Reconciled(row, w.listed, w.at)
          /\ told' = IF Left(row, w.listed) THEN Tell(told, [triage |-> "none"], w.at) ELSE told
      BY <1>3, Kindly DEF Write, Stamped
    <2>2. CASE Left(row, w.listed) /\ Behind(row, told, w.at)
      <3>1. /\ row' = [row EXCEPT !.triage = "none"] /\ row.at # 0
            /\ told' = Tell(told, [triage |-> "none"], w.at)
        BY <2>1, <2>2 DEF Reconciled, NotOlder, Behind, Left
      <3>2. DOMAIN row' = Fields \cup {"at"} /\ row'.at = row.at
        BY <1>1, <3>1
      <3>3. \A f \in Fields : \/ row'[f] = row[f] /\ told'[f] = told[f]
                              \/ told'[f].at = w.at /\ told'[f].val = row'[f]
        BY <1>1, <2>1, <2>2, <3>1 DEF Tell, Behind, Fields
      <3>4. StoreOK(row', told') /\ Moves(row, told, row', told', w.at)
        <4>1. row'.at \in {row.at, w.at} /\ row.at # 0 /\ Behind(row, told, w.at)
          BY <2>2, <3>1, <3>2
        <4>2. w.at \in Nat /\ DOMAIN row' = Fields \cup {"at"}
          BY <2>1, <3>2
        <4> QED BY <4>1, <4>2, <3>3, OneFieldTold
      <3> QED BY <2>1, <3>4
    <2>3. CASE Left(row, w.listed) /\ Passed(row, told, w.at)
      <3>1. row' = row
        BY <1>1, <2>1, <2>3 DEF Reconciled, NotOlder, Passed
      <3>2. \A f \in Fields : told'[f] = told[f]
        BY <1>1, <2>1, <2>3 DEF Tell, Passed
      <3>3. DOMAIN row' = Fields \cup {"at"}
        BY <3>1, <1>1
      <3>4. StoreOK(row', told') /\ Moves(row, told, row', told', w.at)
        BY <2>1, <3>1, <3>2, <3>3, OneFieldTold
      <3> QED BY <2>1, <3>4
    <2>4. CASE ~Left(row, w.listed)
      <3>1. row' = row /\ told' = told
        BY <2>1, <2>4 DEF Reconciled
      <3> QED BY <1>1, <2>1, <3>1, OneFieldTold
    <2> QED BY <2>2, <2>3, <2>4
  <1>4. CASE w \in Batches
    <2>1. /\ w.item = "issues" /\ w.at \in Nat /\ ~Stamped(w) /\ w.view \in Views
          /\ row' = Upserted(row, w) /\ told' = Tell(told, w.view, w.at)
      BY <1>4, Kindly DEF Write, Stamped
    <2>2. DOMAIN w.view = Fields
      BY <2>1 DEF Views, Fields
    <2>3. row' = [f \in Fields \cup {"at"} |-> IF f = "at" THEN w.at ELSE w.view[f]]
      BY <2>1 DEF Upserted, NotOlder, Behind
    <2>4. \A f \in Fields : told'[f].at = w.at /\ told'[f].val = w.view[f]
      BY <1>1, <2>1, <2>2 DEF Tell, Behind
    <2>5. DOMAIN row' = Fields \cup {"at"} /\ row'.at = w.at /\ \A f \in Fields : row'[f] = w.view[f]
      BY <2>3, <1>1
    <2>6. StoreOK(row', told')
      BY <2>1, <2>4, <2>5 DEF StoreOK
    <2>7. Moves(row, told, row', told', w.at)
      BY <1>1, <2>1, <2>4, <2>5 DEF Moves, Passed, Behind
    <2>8. Takes(row', told', w.at)
      BY <2>1, <2>4, <2>5 DEF Takes, Passed
    <2> QED BY <2>6, <2>7, <2>8
  <1> QED BY <1>2, <1>3, <1>4, StampedThings

\* After a write the work is done, or waits to be tried again.
LEMMA WrittenKeeps ==
    ASSUME NEW u \in Sinks, NEW n, SinkInv(sink, n, row, told), sink.step = "write",
           Write(sink.work), u.queue = sink.queue, u.batch = sink.batch, u.marked = sink.marked,
           \/ u.work = sink.work /\ u.step = "write"
           \/ u.work = Idle /\ u.step = "get"
    PROVE  SinkInv(u, n, row', told')
  <1> DEFINE w == sink.work
             q == sink.queue
  <1>1. /\ sink \in Sinks /\ n \in Nat /\ StoreOK(row, told) /\ Behind(row, told, n)
        /\ InOrder(sink, n, row, told) /\ MarkerStands(sink, n, row, told)
        /\ WorkInTurn(sink, n, row, told)
    BY DEF SinkInv
  <1>2. /\ w \in Works /\ w # Idle /\ w.at <= n /\ w.at \in Nat /\ sink.batch.at \in Nat
        /\ Behind(row, told, w.at) \/ (Stamped(w) /\ Passed(row, told, w.at))
    <2>1. w \in Works /\ w # Idle
      BY <1>1, SinkFields DEF WorkInTurn
    <2> QED BY <2>1, <1>1, SinkFields, StampedThings, Kindly DEF WorkInTurn
  <1>3. /\ StoreOK(row', told') /\ Moves(row, told, row', told', w.at)
        /\ ~Stamped(w) => Takes(row', told', w.at)
    BY <1>1, <1>2, WriteStores
  <1>4. Behind(row', told', n)
    BY <1>1, <1>2, <1>3 DEF Moves
  <1>5. ~Stamped(Idle) /\ \A i \in DOMAIN q : Stamped(q[i]) => q[i].at \in Nat
    BY <1>1, StampedThings, SinkFields, Kindly DEF Stamped
  <1>6. ASSUME NEW i \in DOMAIN q, Stamped(q[i])
        PROVE  Behind(row', told', q[i].at) \/ Passed(row', told', q[i].at)
    <2>1. /\ Behind(row, told, q[i].at) \/ Passed(row, told, q[i].at)
          /\ Stamped(w) => w.at < q[i].at
      BY <1>1, <1>6 DEF InOrder
    <2>2. CASE Stamped(w)
      BY <1>2, <1>3, <1>5, <1>6, <2>1, <2>2 DEF Moves
    <2>3. CASE ~Stamped(w) /\ q[i].at < w.at
      BY <1>3, <1>5, <1>6, <2>3 DEF Takes
    <2>4. CASE ~Stamped(w) /\ ~(q[i].at < w.at)
      BY <1>2, <1>3, <1>5, <1>6, <2>1, <2>4 DEF Moves
    <2> QED BY <2>2, <2>3, <2>4
  <1>7. InOrder(u, n, row', told')
    BY <1>1, <1>5, <1>6 DEF InOrder
  <1>8. sink.marked => Behind(row', told', sink.batch.at)
    <2> SUFFICES ASSUME sink.marked PROVE Behind(row', told', sink.batch.at)
      OBVIOUS
    <2>1. Behind(row, told, sink.batch.at) /\ w.at < sink.batch.at
      BY <1>1, <1>2 DEF MarkerStands
    <2>2. w.at <= sink.batch.at
      BY <2>1, <1>2
    <2> QED BY <2>1, <2>2, <1>2, <1>3 DEF Moves
  <1>9. MarkerStands(u, n, row', told')
    BY <1>1, <1>5, <1>8 DEF MarkerStands
  <1>10. WorkInTurn(u, n, row', told')
    BY <1>2, <1>3 DEF WorkInTurn, Moves
  <1> QED BY <1>1, <1>3, <1>4, <1>7, <1>9, <1>10 DEF SinkInv

\* A work given up, or tried again over a new connection.
LEMMA DoneKeeps ==
    ASSUME NEW s, NEW n, NEW r, NEW t, SinkInv(s, n, r, t), s.step = "write",
           NEW u \in Sinks, u.queue = s.queue, u.batch = s.batch, u.marked = s.marked,
           u.work = Idle, u.step = "get"
    PROVE  SinkInv(u, n, r, t)
  <1>1. ~Stamped(Idle)
    BY Kindly DEF Stamped
  <1> QED BY <1>1 DEF SinkInv, InOrder, MarkerStands, WorkInTurn

\* What is left of a sink whose time was over has nothing to write.
LEMMA EndedKeeps ==
    ASSUME NEW u \in Sinks, NEW n \in Nat, NEW r, NEW t, StoreOK(r, t), Behind(r, t, n),
           u.queue = <<>>, u.work = Idle,
           \/ u.step = "done" /\ (u.marked => Behind(r, t, u.batch.at) /\ u.batch.at <= n)
           \/ u.step = "get" /\ ~u.marked
    PROVE  SinkInv(u, n, r, t)
  <1>1. DOMAIN u.queue = {}
    OBVIOUS
  <1> QED BY <1>1 DEF SinkInv, InOrder, MarkerStands, WorkInTurn

\* A sink that has just started.
LEMMA NoSinkKeeps ==
    ASSUME NEW n \in Nat, NEW r, NEW t, StoreOK(r, t), Behind(r, t, n)
    PROVE  SinkInv(NoSink, n, r, t)
  <1>1. NoBatch \in [at : Nat, view : Views] /\ <<>> \in Seq(Things) /\ Idle \in Works
    BY DEF NoBatch, Nothing, Views, Rest, Works
  <1>2. NoSink \in Sinks
    BY <1>1 DEF NoSink, Sinks
  <1>3. NoSink.queue = <<>> /\ NoSink.work = Idle /\ NoSink.step = "get" /\ ~NoSink.marked
    BY DEF NoSink
  <1> QED BY <1>2, <1>3, EndedKeeps

\* The sink, written, done with its work, or with it in hand again.
LEMMA ApplyFields ==
    ASSUME NEW s \in Sinks, NEW d \in Nat
    PROVE  LET done == [s EXCEPT !.step = "get", !.work = Idle]
           IN /\ done \in Sinks /\ done.queue = s.queue /\ done.batch = s.batch
              /\ done.marked = s.marked /\ done.work = Idle /\ done.step = "get"
              /\ done.failed = s.failed /\ done.dropped = s.dropped /\ done.handled = s.handled
              /\ done.late = s.late /\ done.closed = s.closed
              /\ Kept(s) \in Sinks /\ Same(s, Kept(s))
              /\ Kept(s).failed = s.failed /\ Kept(s).dropped = s.dropped
              /\ Kept(s).handled = s.handled /\ Kept(s).late = s.late /\ Kept(s).closed = s.closed
  BY SinkFields DEF Sinks, Works, Kept, Same, Joins

\* The end: a queue with the sentinel, and what a shutdown gives up on.
LEMMA ItemsAreCounted == ASSUME NEW S, NEW q \in Seq(S) PROVE Items(q) \in Nat
  <1>1. DOMAIN q = 1..Len(q) /\ Len(q) \in Nat
    OBVIOUS
  <1>2. IsFiniteSet(1..Len(q))
    BY <1>1, FS_Interval
  <1>3. IsFiniteSet({i \in DOMAIN q : q[i].item # "end"})
    BY <1>1, <1>2, FS_Subset
  <1> QED BY <1>3, FS_CardinalityType DEF Items

\* A sink given up has an empty queue, and counts what was in it.
LEMMA GivenUpFields ==
    ASSUME NEW s \in Sinks
    PROVE  LET u == GivenUp(s)
           IN /\ u \in Sinks /\ u.queue = <<>> /\ u.work = Idle /\ u.step = "done"
              /\ u.batch = s.batch /\ u.marked = s.marked
              /\ u.failed = (IF s.work = Idle THEN s.failed ELSE s.failed + 1)
              /\ u.dropped = s.dropped + Items(s.queue)
              /\ u.handled = s.handled /\ u.late = s.late
  <1>1. s.dropped + Items(s.queue) \in Nat /\ <<>> \in Seq(Things) /\ Idle \in Works
    BY SinkFields, ItemsAreCounted DEF Works
  <1> DEFINE n == s.dropped + Items(s.queue)
             v == [s EXCEPT !.step = "done", !.work = Idle]
             f == IF s.work = Idle THEN s.failed ELSE s.failed + 1
  <1>2. GivenUp(s) = [v EXCEPT !.queue = <<>>, !.failed = f, !.dropped = n]
    BY SinkFields DEF GivenUp, Sinks
  <1>3. /\ v \in Sinks /\ v.work = Idle /\ v.step = "done" /\ v.batch = s.batch
        /\ v.marked = s.marked /\ v.handled = s.handled /\ v.late = s.late
    BY <1>1, SinkFields DEF Sinks
  <1>4. f \in Nat
    BY SinkFields
  <1> HIDE DEF v, f, n
  <1>5. n \in Nat
    BY <1>1 DEF n
  <1>6. LET u == [v EXCEPT !.queue = <<>>, !.failed = f, !.dropped = n]
        IN /\ u \in Sinks /\ u.queue = <<>> /\ u.work = v.work /\ u.step = v.step
           /\ u.batch = v.batch /\ u.marked = v.marked /\ u.failed = f /\ u.dropped = n
           /\ u.handled = v.handled /\ u.late = v.late
    BY <1>1, <1>3, <1>4, <1>5, SinkFields DEF Sinks
  <1> QED BY <1>2, <1>3, <1>6 DEF f, n
-----------------------------------------------------------------------------
(* The process *)

\* The first process has told the sink nothing.
LEMMA ProcessStarts == Init => StoreInv
  <1> SUFFICES ASSUME Init PROVE StoreInv
    OBVIOUS
  <1>1. ProcessOK
    BY DEF Init, ProcessOK, Issues, Views, Nothing, Rest, Board
  <1>2. StoreOK(row, told) /\ Behind(row, told, now)
    BY DEF Init, StoreOK, Behind, NoRow, Fields
  <1> QED BY <1>1, <1>2, NoSinkKeeps DEF Init, StoreInv, ProcessOK

\* What GitHub answers, and what a tick that reads nothing has, are views.
LEMMA AnswersAreViews ==
    ASSUME ProcessOK
    PROVE  Answers \subseteq Issues /\ Issues \subseteq Views /\ Nothing \in Views
  BY DEF ProcessOK, Answers, Issues, Views, Nothing, Rest

\* The rest of the process keeps its types.
LEMMA ProcessStep == ASSUME ProcessOK, [Next]_vars PROVE ProcessOK'
  <1> USE DEF ProcessOK
  <1>1. Answers \subseteq Issues /\ Issues \subseteq Views /\ Nothing \in Views
    BY AnswersAreViews
  <1>2. /\ \A i \in Issues, s \in Rest \cup Board : [i EXCEPT !.state = s] \in Issues
        /\ \A i \in Issues : [i EXCEPT !.open = ~@] \in Issues
        /\ \A i \in Issues : [i EXCEPT !.triage = IF @ = "todo" THEN "none" ELSE "todo"] \in Issues
        /\ \A i \in Issues : [i EXCEPT !.triage = "complete"] \in Issues
        /\ \A i \in Views, s \in Rest : [i EXCEPT !.state = s] \in Views
    BY DEF Issues, Views
  <1>3. ASSUME Tick(1) \/ Tick(2) PROVE now' \in Nat
    BY <1>3 DEF Tick
  <1>4. CASE HumanActs
    BY <1>2, <1>4 DEF HumanActs
  <1>5. CASE Sweep
    BY <1>1, <1>3, <1>5 DEF Sweep
  <1>6. CASE Finish
    <2>1. gh' \in Issues /\ lag' \in Issues
      BY <1>2, <1>6 DEF Finish
    <2>2. view' \in Views
      BY <1>2, <1>6 DEF Finish
    <2> QED BY <1>3, <1>6, <2>1, <2>2 DEF Finish
  <1>7. CASE ReportMoved
    BY <1>3, <1>7 DEF ReportMoved
  <1>8. CASE ReadTriageTrack
    BY <1>1, <1>8 DEF ReadTriageTrack
  <1>9. CASE FetchIssues
    BY <1>1, <1>3, <1>9 DEF FetchIssues
  <1>10. CASE ObserveTriageTrack
    BY <1>1, <1>3, <1>10 DEF ObserveTriageTrack
  <1>11. CASE Claim
    BY <1>2, <1>3, <1>11 DEF Claim, Board
  <1>12. CASE FileVerdict
    BY <1>2, <1>3, <1>12 DEF FileVerdict
  <1>13. CASE NextTick
    BY <1>1, <1>13 DEF NextTick
  <1>14. CASE Take \/ Connect \/ Apply \/ SlackTake
    BY <1>14 DEF Take, Connect, Apply, SlackTake
  <1>15. CASE Post
    BY <1>3, <1>15 DEF Post
  <1>16. CASE CloseSlack
    BY <1>1, <1>16 DEF CloseSlack
  <1>17. CASE SlackDrains \/ SlackTimesOut
    BY <1>17 DEF SlackDrains, SlackTimesOut, CloseStore
  <1>18. CASE SinkDrains \/ SinkTimesOut
    BY <1>18 DEF SinkDrains, SinkTimesOut, End
  <1>19. CASE Crash
    BY <1>1, <1>19 DEF Crash
  <1>20. CASE Restart
    BY <1>20 DEF Restart
  <1>21. CASE UNCHANGED vars
    BY <1>21 DEF vars
  <1> QED
    BY <1>4, <1>5, <1>6, <1>7, <1>8, <1>9, <1>10, <1>11, <1>12, <1>13, <1>14, <1>15, <1>16,
       <1>17, <1>18, <1>19, <1>20, <1>21 DEF Next

\* What is told of the issue: at most one event or view more, at its own time.
LEMMA Told ==
    ASSUME StoreInv, UNCHANGED <<row, told>>,
           \/ UNCHANGED <<sink, now>>
           \/ /\ now' = now + 1
              /\ \/ \E a \in Views : \/ sink' = RecordIssues(sink, a, now + 1)
                                     \/ sink' = RecordTriageTrack(sink, a, now + 1)
                 \/ \E e \in Events : e.at = now + 1 /\ sink' = HandleEvent(sink, e)
                 \/ sink' = sink
    PROVE  SinkInv(sink, now, row, told)'
  <1>1. SinkInv(sink, now, row, told) /\ now \in Nat
    BY DEF StoreInv, ProcessOK
  <1>2. CASE UNCHANGED <<sink, now>>
    BY <1>1, <1>2
  <1>3. CASE /\ now' = now + 1
             /\ \/ \E a \in Views : \/ sink' = RecordIssues(sink, a, now + 1)
                                    \/ sink' = RecordTriageTrack(sink, a, now + 1)
                \/ \E e \in Events : e.at = now + 1 /\ sink' = HandleEvent(sink, e)
                \/ sink' = sink
    <2>1. SinkInv(sink', now + 1, row, told)
      BY <1>1, <1>3, IssuesRecorded, TrackRecorded, EventHandled, ClockGoesOn
    <2> QED BY <1>3, <2>1
  <1> QED BY <1>2, <1>3

\* The worker's events are events.
LEMMA EventsTyped ==
    ASSUME NEW m \in Nat
    PROVE  /\ \A rest \in Rest : Event("moved", [state |-> rest], m) \in Events
           /\ Event("completed", [open |-> FALSE], m) \in Events
           /\ Event("cancelled", [open |-> FALSE], m) \in Events
           /\ Event("moved", [state |-> "in_progress"], m) \in Events
           /\ Event("triaged", [triage |-> "complete"], m) \in Events
           /\ Event("sent", <<>>, m) \in Events
           /\ \A k, w : Event(k, w, m).at = m
  BY DEF Event, Events, Kinds, Says, Rest

\* Each step keeps the sink in order, and the store as the queue will find it.
LEMMA SinkStep == ASSUME StoreInv, [Next]_vars PROVE SinkInv(sink, now, row, told)'
  <1>1. /\ SinkInv(sink, now, row, told) /\ sink \in Sinks /\ now \in Nat
        /\ StoreOK(row, told) /\ Behind(row, told, now)
        /\ Answers \subseteq Views /\ track \in Views /\ view \in Views
    BY AnswersAreViews DEF StoreInv, SinkInv, ProcessOK
  <1>2. CASE HumanActs \/ ReadTriageTrack \/ NextTick \/ SlackTake \/ CloseSlack
    BY <1>2, Told DEF HumanActs, ReadTriageTrack, NextTick, SlackTake, CloseSlack
  <1>3. CASE Sweep
    BY <1>1, <1>3, Told DEF Sweep, Tick
  <1>4. CASE Finish
    <2>1. CASE UNCHANGED <<now, sink>>
      BY <1>4, <2>1, Told DEF Finish
    <2>2. CASE ~(UNCHANGED <<now, sink>>)
      <3>1. PICK rest \in Rest, e \in Events, f \in Events :
                /\ e.at = now + 1 /\ f.at = now + 2 /\ now' = now + 2
                /\ sink' = HandleEvent(HandleEvent(sink, e), f)
        <4>1. PICK rest \in Rest, kind \in {"completed", "cancelled"} :
                /\ now' = now + 2
                /\ sink' = HandleEvent(HandleEvent(sink, Event("moved", [state |-> rest], now + 1)),
                                       Event(kind, [open |-> FALSE], now + 2))
          BY <1>4, <2>2 DEF Finish, Tick, PublishBoth, Fanned
        <4>2. /\ Event("moved", [state |-> rest], now + 1) \in Events
              /\ Event("moved", [state |-> rest], now + 1).at = now + 1
          BY <1>1, EventsTyped
        <4>3. now + 2 \in Nat
          BY <1>1
        <4>4. /\ Event(kind, [open |-> FALSE], now + 2) \in Events
              /\ Event(kind, [open |-> FALSE], now + 2).at = now + 2
          BY <4>1, <4>3, EventsTyped
        <4> QED BY <4>1, <4>2, <4>4
      <3>2. SinkInv(HandleEvent(sink, e), now + 1, row, told)
        BY <1>1, <3>1, EventHandled
      <3>3. f.at = (now + 1) + 1
        BY <1>1, <3>1
      <3>4. SinkInv(HandleEvent(HandleEvent(sink, e), f), (now + 1) + 1, row, told)
        BY <3>1, <3>2, <3>3, EventHandled
      <3>5. (now + 1) + 1 = now + 2
        BY <1>1
      <3> QED BY <1>4, <3>1, <3>4, <3>5 DEF Finish
    <2> QED BY <2>1, <2>2
  <1>5. CASE ReportMoved
    BY <1>1, <1>5, Told DEF ReportMoved, Tick
  <1>6. CASE FetchIssues
    BY <1>1, <1>6, Told DEF FetchIssues, Tick
  <1>7. CASE ObserveTriageTrack
    BY <1>1, <1>7, Told DEF ObserveTriageTrack, Tick
  <1>8. CASE Claim \/ FileVerdict
    <2>1. now + 1 \in Nat
      BY <1>1
    <2> QED BY <1>1, <1>8, <2>1, EventsTyped, Told DEF Claim, FileVerdict, Tick, Publish, Fanned
  <1>9. CASE Take
    <2>1. sink' = TakenFrom(sink) /\ sink.step = "get" /\ sink.queue # <<>>
      BY <1>9 DEF Take, TakenFrom
    <2>2. UNCHANGED <<row, told, now>>
      BY <1>9 DEF Take
    <2> QED BY <1>1, <2>1, <2>2, TakenKeeps
  <1>10. CASE Connect
    <2>1. sink' \in Sinks /\ Same(sink, sink')
      BY <1>1, <1>10, FlagChanges DEF Connect
    <2>2. UNCHANGED <<row, told, now>>
      BY <1>10 DEF Connect
    <2> QED BY <1>1, <2>1, <2>2, SameSink
  <1>11. CASE Apply
    <2> DEFINE done == [sink EXCEPT !.step = "get", !.work = Idle]
    <2>1. /\ sink.step = "write" /\ now' = now
          /\ \/ Write(sink.work) /\ sink' = done
             \/ Unwritten /\ sink' = [done EXCEPT !.failed = @ + 1]
             \/ (Write(sink.work) \/ Unwritten) /\ sink' = Kept(sink)
      BY <1>11 DEF Apply
    <2>2. /\ done \in Sinks /\ done.queue = sink.queue /\ done.batch = sink.batch
          /\ done.marked = sink.marked /\ done.work = Idle /\ done.step = "get"
          /\ Kept(sink) \in Sinks /\ Same(sink, Kept(sink))
      BY <1>1, ApplyFields
    <2> DEFINE fail == [done EXCEPT !.failed = done.failed + 1]
    <2>3. fail \in Sinks /\ Same(done, fail) /\ fail = [done EXCEPT !.failed = @ + 1]
      <3> HIDE DEF done
      <3>1. fail = [done EXCEPT !.failed = @ + 1]
        BY <2>2
      <3>2. done.failed + 1 \in Nat
        BY <2>2, SinkFields
      <3> QED BY <3>1, <3>2, <2>2, CountChanges
    <2>4. Kept(sink).work = sink.work /\ Kept(sink).step = "write"
      BY <2>1, <2>2 DEF Same, Joins
    <2> HIDE DEF done, fail
    <2>5. CASE Write(sink.work) /\ sink' = done
      BY <1>1, <2>1, <2>2, <2>5, WrittenKeeps
    <2>6. CASE Unwritten /\ sink' = fail
      <3>1. SinkInv(done, now, row, told)
        BY <1>1, <2>1, <2>2, DoneKeeps
      <3>2. SinkInv(fail, now, row, told)
        BY <3>1, <2>3, SameSink
      <3> QED BY <3>2, <2>1, <2>6 DEF Unwritten
    <2>7. CASE Write(sink.work) /\ sink' = Kept(sink)
      BY <1>1, <2>1, <2>2, <2>4, <2>7, WrittenKeeps DEF Same, Joins
    <2>8. CASE Unwritten /\ sink' = Kept(sink)
      BY <1>1, <2>1, <2>2, <2>8, SameSink DEF Unwritten
    <2> QED BY <2>1, <2>3, <2>5, <2>6, <2>7, <2>8
  <1>12. CASE Post
    <2>1. now + 1 \in Nat
      BY <1>1
    <2> QED BY <1>1, <1>12, <2>1, EventsTyped, Told DEF Post, Tick
  <1>13. CASE SlackDrains \/ SlackTimesOut
    <2>1. /\ sink' = [sink EXCEPT !.closed = TRUE, !.queue = Append(@, Sentinel)]
          /\ UNCHANGED <<row, told, now>>
      BY <1>13 DEF SlackDrains, SlackTimesOut, CloseStore
    <2>2. Sentinel \in Things /\ Sentinel # Marker /\ ~Stamped(Sentinel)
      BY Kindly DEF Things, Stamped
    <2>3. sink' \in Sinks /\ Joined(sink, sink', Sentinel)
      <3>1. Append(sink.queue, Sentinel) \in Seq(Things)
        BY <1>1, <2>2, SinkFields
      <3> QED BY <1>1, <2>1, <3>1, SinkFields DEF Sinks, Joined, Joins
    <2>4. SinkInv(sink', now, row, told)
      BY <1>1, <2>2, <2>3, ItemJoins
    <2> QED BY <2>1, <2>4
  <1>14. CASE SinkDrains
    BY <1>1, <1>14 DEF SinkDrains, End, Unwritten
  <1>15. CASE SinkTimesOut
    <2>1. /\ sink' = GivenUp(sink) /\ now' = now
          /\ Unwritten \/ (sink.step = "write" /\ Write(sink.work))
      BY <1>15 DEF SinkTimesOut, End
    <2>2. /\ sink' \in Sinks /\ sink'.queue = <<>> /\ sink'.work = Idle /\ sink'.step = "done"
          /\ sink'.batch = sink.batch /\ sink'.marked = sink.marked
      BY <1>1, <2>1, GivenUpFields
    <2>3. CASE Unwritten
      <3>1. sink.marked => Behind(row, told, sink.batch.at) /\ sink.batch.at <= now
        BY <1>1 DEF SinkInv, MarkerStands
      <3>2. SinkInv(sink', now, row, told)
        BY <1>1, <2>2, <3>1, EndedKeeps
      <3> QED BY <2>1, <2>3, <3>2 DEF Unwritten
    <2>4. CASE sink.step = "write" /\ Write(sink.work)
      <3>1. SinkInv([sink EXCEPT !.step = "get", !.work = Idle], now, row', told')
        BY <1>1, <2>4, ApplyFields, WrittenKeeps
      <3>2. /\ StoreOK(row', told') /\ Behind(row', told', now)
            /\ sink.marked => Behind(row', told', sink.batch.at) /\ sink.batch.at <= now
        BY <1>1, <3>1, ApplyFields DEF SinkInv, MarkerStands
      <3>3. SinkInv(sink', now, row', told')
        BY <1>1, <2>2, <3>2, EndedKeeps
      <3> QED BY <2>1, <3>3
    <2> QED BY <2>1, <2>3, <2>4
  <1>16. CASE Crash \/ Restart
    <2>1. sink' = NoSink /\ UNCHANGED <<row, told, now>>
      BY <1>16 DEF Crash, Restart
    <2> QED BY <1>1, <2>1, NoSinkKeeps
  <1>17. CASE UNCHANGED vars
    BY <1>17, Told DEF vars
  <1> QED
    BY <1>2, <1>3, <1>4, <1>5, <1>6, <1>7, <1>8, <1>9, <1>10, <1>11, <1>12, <1>13, <1>14, <1>15,
       <1>16, <1>17 DEF Next

\* The sink's queue, batch and work are in order, and the store is what they found.
THEOREM StoreInvariance == Spec => []StoreInv
  <1>1. ASSUME StoreInv, [Next]_vars PROVE StoreInv'
    BY <1>1, ProcessStep, SinkStep DEF StoreInv
  <1> QED BY <1>1, ProcessStarts, PTL DEF Spec

\* The store's row is, field by field, what the newest write of it said, in whatever order
\* events, views and tracks were queued, merged, tried again and written.
THEOREM RowsAreNewest == Spec => []RowIsNewest
  <1>1. StoreInv => RowIsNewest
    BY DEF StoreInv, SinkInv, StoreOK, RowIsNewest
  <1> QED BY <1>1, StoreInvariance, PTL
-----------------------------------------------------------------------------
(* What is counted *)

\* How many a queue holds, as it grows and shrinks.
LEMMA ItemsOfAppend ==
    ASSUME NEW S, NEW q \in Seq(S), NEW x \in S
    PROVE  Items(Append(q, x)) = Items(q) + (IF x.item = "end" THEN 0 ELSE 1)
  <1> DEFINE l == Len(q)
             D == {i \in 1..l : q[i].item # "end"}
             p == Append(q, x)
  <1>1. /\ l \in Nat /\ DOMAIN q = 1..l /\ DOMAIN p = 1..(l + 1)
        /\ \A i \in 1..l : p[i] = q[i]
        /\ p[l + 1] = x
    OBVIOUS
  <1>2. IsFiniteSet(D) /\ l + 1 \notin D
    <2>1. IsFiniteSet(1..l)
      BY <1>1, FS_Interval
    <2> QED BY <2>1, <1>1, FS_Subset
  <1>3. Items(q) = Cardinality(D) /\ Cardinality(D) \in Nat
    BY <1>1, <1>2, FS_CardinalityType DEF Items
  <1>4. Items(p) = Cardinality({i \in 1..(l + 1) : p[i].item # "end"})
    BY <1>1 DEF Items
  <1>5. {i \in 1..(l + 1) : p[i].item # "end"} = IF x.item = "end" THEN D ELSE D \cup {l + 1}
    <2> HIDE DEF p
    <2> QED BY <1>1
  <1>6. Cardinality(D \cup {l + 1}) = Cardinality(D) + 1
    BY <1>2, FS_AddElement
  <1>7. Items(p) = IF x.item = "end" THEN Cardinality(D) ELSE Cardinality(D \cup {l + 1})
    BY <1>4, <1>5
  <1> HIDE DEF D, l
  <1> QED BY <1>3, <1>6, <1>7

\* What leaves at the head is one less, but for the sentinel.
LEMMA ItemsOfTail ==
    ASSUME NEW S, NEW q \in Seq(S), q # <<>>
    PROVE  Items(q) = Items(Tail(q)) + (IF Head(q).item = "end" THEN 0 ELSE 1)
  <1> DEFINE l == Len(q)
             p == Tail(q)
             D == {i \in 1..(l - 1) : p[i].item # "end"}
             F == {i \in 2..l : q[i].item # "end"}
             f == [i \in D |-> i + 1]
  <1>1. /\ l \in Nat /\ l >= 1 /\ DOMAIN q = 1..l /\ DOMAIN p = 1..(l - 1)
        /\ \A i \in 1..(l - 1) : p[i] = q[i + 1]
        /\ Head(q) = q[1]
    OBVIOUS
  <1>2. IsFiniteSet(D) /\ IsFiniteSet(F) /\ 1 \notin F
    <2>1. IsFiniteSet(1..(l - 1)) /\ IsFiniteSet(2..l)
      BY <1>1, FS_Interval
    <2>2. IsFiniteSet(D)
      BY <2>1, FS_Subset
    <2>3. IsFiniteSet(F)
      BY <2>1, FS_Subset
    <2>4. 1 \notin F
      BY <1>1
    <2> QED BY <2>2, <2>3, <2>4
  <1>3. f \in Bijection(D, F)
    <2> HIDE DEF p, l
    <2>1. \A i \in D : i + 1 \in F
      BY <1>1
    <2>2. \A j \in F : j - 1 \in D /\ (j - 1) + 1 = j
      BY <1>1
    <2>3. \A i, j \in D : i + 1 = j + 1 => i = j
      BY <1>1
    <2> HIDE DEF D, F
    <2>4. f \in [D -> F]
      BY <2>1
    <2>5. \A i, j \in D : f[i] = f[j] => i = j
      BY <2>3
    <2>6. \A j \in F : \E i \in D : f[i] = j
      BY <2>2
    <2> QED BY <2>4, <2>5, <2>6 DEF Bijection, Injection, Surjection, IsInjective
  <1>4. Cardinality(F) = Cardinality(D)
    <2> HIDE DEF D, F, f
    <2>1. ExistsBijection(D, F)
      BY <1>3 DEF ExistsBijection
    <2> QED BY <1>2, <2>1, FS_Bijection
  <1>5. Items(p) = Cardinality(D) /\ Cardinality(D) \in Nat
    BY <1>1, <1>2, FS_CardinalityType DEF Items
  <1>6. Items(q) = Cardinality(IF q[1].item = "end" THEN F ELSE F \cup {1})
    <2>1. {i \in DOMAIN q : q[i].item # "end"} = IF q[1].item = "end" THEN F ELSE F \cup {1}
      BY <1>1
    <2> QED BY <2>1 DEF Items
  <1>7. Cardinality(F \cup {1}) = Cardinality(F) + 1
    BY <1>2, FS_AddElement
  <1> HIDE DEF D, F, p, l
  <1> QED BY <1>1, <1>4, <1>5, <1>6, <1>7 DEF p

\* An empty queue holds none.
LEMMA NoItems == Items(<<>>) = 0
  <1>1. {i \in DOMAIN <<>> : <<>>[i].item # "end"} = {}
    OBVIOUS
  <1> QED BY <1>1, FS_EmptySet DEF Items

\* Slack's sums: what it was handed was sent, failed or dropped, waits or is being posted.
SlackItems == Events \cup {Sentinel}
Slacks == [queue : Seq(SlackItems), work : Events \cup {Idle}, attempt : Nat,
           step : {"get", "post", "done"}, closed : BOOLEAN,
           sent : Nat, failed : Nat, dropped : Nat, handled : Nat]
InHand(s) == IF s.work = Idle THEN 0 ELSE 1
SlackSums(s) ==
    /\ s \in Slacks
    /\ (s.work = Idle) <=> s.step # "post"
    /\ s.handled = s.sent + s.failed + s.dropped + Items(s.queue) + InHand(s)

\* Slack's sink is its fields.
LEMMA SlackFields ==
    ASSUME NEW s \in Slacks
    PROVE  /\ s.queue \in Seq(SlackItems) /\ s.work \in Events \cup {Idle} /\ s.attempt \in Nat
           /\ s.step \in {"get", "post", "done"} /\ s.closed \in BOOLEAN /\ s.sent \in Nat
           /\ s.failed \in Nat /\ s.dropped \in Nat /\ s.handled \in Nat
           /\ Items(s.queue) \in Nat /\ InHand(s) \in {0, 1}
  <1>1. s.queue \in Seq(SlackItems)
    BY DEF Slacks
  <1> QED BY <1>1, ItemsAreCounted DEF Slacks, InHand

\* An event it subscribes to is queued or dropped, and any other is not its own.
LEMMA SlackHandled ==
    ASSUME NEW s, SlackSums(s), NEW e \in Events
    PROVE  SlackSums(HandleSlack(s, e)) /\ HandleSlack(s, e).step = s.step
  <1>1. s \in Slacks
    BY DEF SlackSums
  <1>5. /\ s.sent \in Nat /\ s.failed \in Nat /\ s.dropped \in Nat /\ s.handled \in Nat
        /\ Items(s.queue) \in Nat /\ InHand(s) \in Nat
    BY <1>1, SlackFields
  <1>2. CASE e.kind \notin SlackKinds
    BY <1>2 DEF HandleSlack
  <1>3. CASE e.kind \in SlackKinds /\ (s.closed \/ Len(s.queue) >= SlackLimit)
    <2> DEFINE d == s.dropped + 1
               h == s.handled + 1
               u == [s EXCEPT !.dropped = d, !.handled = h]
    <2>0. d \in Nat /\ h \in Nat
      BY <1>1, SlackFields
    <2>1. HandleSlack(s, e) = u
      BY <1>1, <1>3 DEF HandleSlack, Slacks
    <2> HIDE DEF d, h
    <2>2. /\ u \in Slacks /\ u.work = s.work /\ u.step = s.step /\ u.queue = s.queue
          /\ u.sent = s.sent /\ u.failed = s.failed
          /\ u.dropped = d /\ u.handled = h
      BY <1>1, <2>0, SlackFields DEF Slacks
    <2> HIDE DEF u
    <2>3. SlackSums(u)
      <3>1. InHand(u) = InHand(s) /\ d = s.dropped + 1 /\ h = s.handled + 1
        BY <2>2 DEF InHand, d, h
      <3> QED BY <1>1, <1>5, <2>2, <3>1 DEF SlackSums
    <2> QED BY <2>1, <2>2, <2>3
  <1>4. CASE e.kind \in SlackKinds /\ ~(s.closed \/ Len(s.queue) >= SlackLimit)
    <2> DEFINE p == Append(s.queue, e)
               h == s.handled + 1
               u == [s EXCEPT !.queue = p, !.handled = h]
    <2>0. h \in Nat
      BY <1>1, SlackFields
    <2>1. HandleSlack(s, e) = u
      BY <1>1, <1>4 DEF HandleSlack, Slacks
    <2>2. e \in SlackItems /\ e.item # "end" /\ s.queue \in Seq(SlackItems)
      BY <1>1, Kindly, SlackFields DEF SlackItems
    <2>3. p \in Seq(SlackItems) /\ Items(p) = Items(s.queue) + 1
      BY <2>2, ItemsOfAppend
    <2> HIDE DEF p, h
    <2>4. /\ u \in Slacks /\ u.work = s.work /\ u.step = s.step /\ u.queue = p
          /\ u.sent = s.sent /\ u.failed = s.failed
          /\ u.dropped = s.dropped /\ u.handled = h
      BY <1>1, <2>0, <2>3, SlackFields DEF Slacks
    <2> HIDE DEF u
    <2>5. SlackSums(u)
      <3>1. InHand(u) = InHand(s) /\ h = s.handled + 1
        BY <2>4 DEF InHand, h
      <3>2. Items(u.queue) = Items(s.queue) + 1
        BY <2>3, <2>4
      <3>3. s.handled = s.sent + s.failed + s.dropped + Items(s.queue) + InHand(s)
        BY DEF SlackSums
      <3>4. u.handled = u.sent + u.failed + u.dropped + Items(u.queue) + InHand(u)
        BY <1>5, <2>4, <3>1, <3>2, <3>3
      <3> QED BY <2>4, <3>4 DEF SlackSums
    <2> QED BY <2>1, <2>4, <2>5
  <1> QED BY <1>2, <1>3, <1>4

\* A shutdown's sentinel, and what it gives up on.
LEMMA SlackCloses ==
    ASSUME NEW s, SlackSums(s)
    PROVE  LET u == [s EXCEPT !.closed = TRUE, !.queue = Append(@, Sentinel)]
           IN SlackSums(u) /\ u.step = s.step
  <1> DEFINE p == Append(s.queue, Sentinel)
             u == [s EXCEPT !.closed = TRUE, !.queue = p]
  <1>1. s \in Slacks /\ s.queue \in Seq(SlackItems) /\ Sentinel \in SlackItems
    BY SlackFields DEF SlackSums, SlackItems
  <1>2. p \in Seq(SlackItems) /\ Items(p) = Items(s.queue)
    <2>1. Items(s.queue) \in Nat
      BY <1>1, SlackFields
    <2> QED BY <1>1, <2>1, ItemsOfAppend, Kindly
  <1>3. u = [s EXCEPT !.closed = TRUE, !.queue = Append(@, Sentinel)]
    OBVIOUS
  <1> HIDE DEF p
  <1>4. /\ u \in Slacks /\ u.work = s.work /\ u.step = s.step /\ u.queue = p
        /\ u.sent = s.sent /\ u.failed = s.failed
        /\ u.dropped = s.dropped /\ u.handled = s.handled
    BY <1>1, <1>2, SlackFields DEF Slacks
  <1> HIDE DEF u
  <1>5. SlackSums(u)
    BY <1>1, <1>2, <1>4, SlackFields DEF SlackSums, InHand
  <1> QED BY <1>3, <1>4, <1>5

\* Given up, it counts its queue as dropped and its message in hand as failed.
LEMMA SlackGivesUp ==
    ASSUME NEW s, SlackSums(s)
    PROVE  SlackSums(GivenUp(s)) /\ GivenUp(s).step = "done"
  <1> DEFINE n == s.dropped + Items(s.queue)
             f == IF s.work = Idle THEN s.failed ELSE s.failed + 1
             v == [s EXCEPT !.step = "done", !.work = Idle]
             u == [v EXCEPT !.queue = <<>>, !.failed = f, !.dropped = n]
  <1>1. s \in Slacks
    BY DEF SlackSums
  <1>2. n \in Nat /\ f \in Nat /\ f = s.failed + InHand(s)
    BY <1>1, SlackFields DEF InHand
  <1>3. GivenUp(s) = u
    BY <1>1 DEF GivenUp, Slacks
  <1>4. /\ v \in Slacks /\ v.work = Idle /\ v.step = "done" /\ v.sent = s.sent
        /\ v.handled = s.handled
    BY <1>1, SlackFields DEF Slacks
  <1> HIDE DEF v, n, f
  <1>5. /\ u \in Slacks /\ u.work = Idle /\ u.step = "done" /\ u.queue = <<>>
        /\ u.sent = s.sent /\ u.handled = s.handled /\ u.failed = f /\ u.dropped = n
    <2> DEFINE x == [v EXCEPT !.queue = <<>>, !.failed = f]
    <2>1. /\ x \in Slacks /\ x.work = Idle /\ x.step = "done" /\ x.queue = <<>>
          /\ x.sent = s.sent /\ x.handled = s.handled /\ x.failed = f
      <3> DEFINE y == [v EXCEPT !.queue = <<>>]
      <3>1. /\ y \in Slacks /\ y.work = Idle /\ y.step = "done" /\ y.queue = <<>>
            /\ y.sent = s.sent /\ y.handled = s.handled
        <4>1. <<>> \in Seq(SlackItems)
          OBVIOUS
        <4> QED BY <1>4, <4>1, SlackFields DEF Slacks
      <3>2. x = [y EXCEPT !.failed = f]
        BY <1>4 DEF Slacks
      <3> HIDE DEF x, y
      <3> QED BY <1>2, <3>1, <3>2, SlackFields DEF Slacks
    <2>2. u = [x EXCEPT !.dropped = n]
      BY <1>4 DEF Slacks
    <2> HIDE DEF x, u
    <2> QED BY <1>2, <2>1, <2>2, SlackFields DEF Slacks
  <1> HIDE DEF u
  <1>6. InHand(u) = 0 /\ Items(u.queue) = 0 /\ n = s.dropped + Items(s.queue)
    BY <1>5, NoItems DEF InHand, n
  <1>7. s.handled = s.sent + s.failed + s.dropped + Items(s.queue) + InHand(s)
    BY DEF SlackSums
  <1>8. u.handled = u.sent + u.failed + u.dropped + Items(u.queue) + InHand(u)
    <2>1. /\ s.sent \in Nat /\ s.failed \in Nat /\ s.dropped \in Nat /\ s.handled \in Nat
          /\ Items(s.queue) \in Nat /\ InHand(s) \in Nat
      BY <1>1, SlackFields
    <2>2. s.handled = s.sent + f + n
      BY <1>2, <1>6, <1>7, <2>1
    <2> QED BY <1>2, <1>5, <1>6, <2>1, <2>2
  <1> QED BY <1>3, <1>5, <1>8 DEF SlackSums

\* Slack's task takes a message, and posts it, more than once perhaps.
LEMMA SlackTakes ==
    ASSUME SlackSums(slack), SlackTake
    PROVE  SlackSums(slack')
  <1> DEFINE q == slack.queue
             p == Tail(q)
  <1>1. /\ slack \in Slacks /\ q \in Seq(SlackItems) /\ q # <<>> /\ slack.step = "get"
        /\ slack.work = Idle /\ Head(q) \in SlackItems /\ p \in Seq(SlackItems)
    BY SlackFields DEF SlackSums, SlackTake
  <1>2. Items(q) = Items(p) + (IF Head(q).item = "end" THEN 0 ELSE 1) /\ Items(p) \in Nat
    BY <1>1, ItemsOfTail, ItemsAreCounted
  <1>3. slack.handled = slack.sent + slack.failed + slack.dropped + Items(q)
    BY <1>1, SlackFields DEF SlackSums, InHand
  <1>4. CASE Head(q).item = "end"
    <2>1. slack' = [slack EXCEPT !.queue = p, !.step = "done"]
      BY <1>4 DEF SlackTake
    <2> HIDE DEF p
    <2>2. /\ slack' \in Slacks /\ slack'.work = Idle /\ slack'.step = "done" /\ slack'.queue = p
          /\ slack'.sent = slack.sent /\ slack'.failed = slack.failed
          /\ slack'.dropped = slack.dropped /\ slack'.handled = slack.handled
      BY <1>1, <2>1, SlackFields DEF Slacks
    <2> QED BY <1>1, <1>2, <1>3, <1>4, <2>2, SlackFields DEF SlackSums, InHand
  <1>5. CASE Head(q).item # "end"
    <2>1. slack' = [slack EXCEPT !.queue = p, !.step = "post", !.work = Head(q), !.attempt = 1]
      BY <1>5 DEF SlackTake
    <2>2. Head(q) \in Events /\ Head(q) # Idle
      BY <1>1, <1>5, Kindly DEF SlackItems
    <2> DEFINE h == Head(q)
               v == [slack EXCEPT !.queue = p, !.step = "post"]
    <2>3. /\ v \in Slacks /\ v.step = "post" /\ v.queue = p
          /\ v.sent = slack.sent /\ v.failed = slack.failed
          /\ v.dropped = slack.dropped /\ v.handled = slack.handled
      <3> HIDE DEF p
      <3> QED BY <1>1, SlackFields DEF Slacks
    <2>4. slack' = [v EXCEPT !.work = h, !.attempt = 1]
      <3> HIDE DEF p, h
      <3> QED BY <1>1, <2>1 DEF Slacks, h
    <2>5. /\ slack' \in Slacks /\ slack'.work = h /\ slack'.step = "post" /\ slack'.queue = p
          /\ slack'.sent = slack.sent /\ slack'.failed = slack.failed
          /\ slack'.dropped = slack.dropped /\ slack'.handled = slack.handled
      <3>1. h \in Events
        BY <2>2
      <3> HIDE DEF p, h, v
      <3> QED BY <2>3, <2>4, <3>1, SlackFields DEF Slacks
    <2> QED BY <1>1, <1>2, <1>3, <1>5, <2>2, <2>5, SlackFields DEF SlackSums, InHand
  <1> QED BY <1>4, <1>5

\* A message is sent, given up, or tried once more.
LEMMA SlackPosts ==
    ASSUME SlackSums(slack), Post
    PROVE  SlackSums(slack')
  <1> DEFINE done == [slack EXCEPT !.step = "get", !.work = Idle, !.attempt = 0]
  <1>1. /\ slack \in Slacks /\ slack.step = "post" /\ slack.work # Idle
        /\ slack.handled = slack.sent + slack.failed + slack.dropped + Items(slack.queue) + 1
    BY DEF SlackSums, Post, InHand
  <1>2. /\ done \in Slacks /\ done.step = "get" /\ done.work = Idle
        /\ done.queue = slack.queue /\ done.sent = slack.sent /\ done.failed = slack.failed
        /\ done.dropped = slack.dropped /\ done.handled = slack.handled
    BY <1>1, SlackFields DEF Slacks
  <1>3. CASE slack' = [slack EXCEPT !.attempt = @ + 1]
    <2>1. /\ slack' \in Slacks /\ slack'.step = slack.step /\ slack'.work = slack.work
          /\ slack'.queue = slack.queue /\ slack'.sent = slack.sent /\ slack'.failed = slack.failed
          /\ slack'.dropped = slack.dropped /\ slack'.handled = slack.handled
      BY <1>1, <1>3, SlackFields DEF Slacks
    <2> QED BY <1>1, <2>1, SlackFields DEF SlackSums, InHand
  <1> HIDE DEF done
  <1>4. CASE slack' = [done EXCEPT !.sent = @ + 1]
    <2>1. /\ slack' \in Slacks /\ slack'.step = "get" /\ slack'.work = Idle
          /\ slack'.queue = slack.queue /\ slack'.sent = slack.sent + 1
          /\ slack'.failed = slack.failed
          /\ slack'.dropped = slack.dropped /\ slack'.handled = slack.handled
      BY <1>2, <1>4, SlackFields DEF Slacks
    <2> QED BY <1>1, <2>1, SlackFields DEF SlackSums, InHand
  <1>5. CASE slack' = [done EXCEPT !.failed = @ + 1]
    <2>1. /\ slack' \in Slacks /\ slack'.step = "get" /\ slack'.work = Idle
          /\ slack'.queue = slack.queue /\ slack'.sent = slack.sent
          /\ slack'.failed = slack.failed + 1
          /\ slack'.dropped = slack.dropped /\ slack'.handled = slack.handled
      BY <1>2, <1>5, SlackFields DEF Slacks
    <2>2. /\ slack.sent \in Nat /\ slack.failed \in Nat /\ slack.dropped \in Nat
          /\ Items(slack.queue) \in Nat
      BY <1>1, SlackFields
    <2> QED BY <1>1, <2>1, <2>2 DEF SlackSums, InHand
  <1> QED BY <1>3, <1>4, <1>5 DEF Post, done
\* What the sink was handed and does not have, of a log.
WaitingOf(s) == {s.queue[i].at : i \in {j \in DOMAIN s.queue : s.queue[j].item = "event"}}
                \cup (IF s.work.item = "event" THEN {s.work.at} ELSE {})
Lost(s, lg) == s.handled \ (ToSet(lg) \cup WaitingOf(s))
Counted(s, lg) ==
    /\ s \in Sinks /\ lg \in Seq(Nat) /\ IsFiniteSet(s.handled)
    /\ Cardinality(Lost(s, lg)) <= s.failed + s.dropped

\* What is lost in a step is counted when the counts grow by as much.
LEMMA LossGrows ==
    ASSUME NEW s, NEW lg, Counted(s, lg), NEW u \in Sinks, NEW lgn \in Seq(Nat),
           NEW k \in Nat, NEW X, IsFiniteSet(X), Cardinality(X) <= k,
           IsFiniteSet(u.handled), Lost(u, lgn) \subseteq Lost(s, lg) \cup X,
           s.failed + s.dropped + k <= u.failed + u.dropped
    PROVE  Counted(u, lgn)
  <1>1. s \in Sinks /\ s.failed \in Nat /\ s.dropped \in Nat /\ u.failed \in Nat /\ u.dropped \in Nat
    BY SinkFields DEF Counted
  <1>2. IsFiniteSet(Lost(s, lg))
    BY FS_Subset DEF Counted, Lost
  <1>3. IsFiniteSet(Lost(s, lg) \cup X)
    BY <1>2, FS_Union
  <1>4. Cardinality(Lost(u, lgn)) <= Cardinality(Lost(s, lg) \cup X)
    BY <1>3, FS_Subset
  <1>5. Cardinality(Lost(s, lg) \cup X) <= Cardinality(Lost(s, lg)) + Cardinality(X)
    <2>1. /\ IsFiniteSet(Lost(s, lg) \cap X)
          /\ Cardinality(Lost(s, lg) \cup X) =
               Cardinality(Lost(s, lg)) + Cardinality(X) - Cardinality(Lost(s, lg) \cap X)
      BY <1>2, FS_Union, FS_Subset
    <2>2. /\ Cardinality(Lost(s, lg)) \in Nat /\ Cardinality(X) \in Nat
          /\ Cardinality(Lost(s, lg) \cap X) \in Nat
      BY <1>2, <2>1, FS_CardinalityType
    <2> QED BY <2>1, <2>2
  <1>6. /\ Cardinality(Lost(s, lg)) \in Nat /\ Cardinality(X) \in Nat
        /\ Cardinality(Lost(u, lgn)) \in Nat /\ Cardinality(Lost(s, lg) \cup X) \in Nat
    <2>1. IsFiniteSet(Lost(u, lgn))
      BY <1>3, FS_Subset
    <2> QED BY <1>2, <1>3, <2>1, FS_CardinalityType
  <1>7. Cardinality(Lost(s, lg)) <= s.failed + s.dropped
    BY DEF Counted
  <1>8. Cardinality(Lost(u, lgn)) <= u.failed + u.dropped
    BY <1>1, <1>4, <1>5, <1>6, <1>7
  <1> QED BY <1>8 DEF Counted

\* A step that lets go of nothing keeps the count.
LEMMA NothingLost ==
    ASSUME NEW s, NEW lg, Counted(s, lg), NEW u \in Sinks, NEW lgn \in Seq(Nat),
           u.handled = s.handled, s.failed + s.dropped <= u.failed + u.dropped,
           WaitingOf(s) \subseteq WaitingOf(u) \cup ToSet(lgn), ToSet(lg) \subseteq ToSet(lgn)
    PROVE  Counted(u, lgn)
  <1>1. IsFiniteSet({}) /\ Cardinality({}) = 0
    BY FS_EmptySet
  <1>2. Lost(u, lgn) \subseteq Lost(s, lg) \cup {}
    BY DEF Lost
  <1>3. s.failed \in Nat /\ s.dropped \in Nat /\ u.failed \in Nat /\ u.dropped \in Nat
    BY SinkFields DEF Counted
  <1>4. s.failed + s.dropped + 0 <= u.failed + u.dropped
    BY <1>3
  <1> QED BY <1>1, <1>2, <1>4, LossGrows DEF Counted

\* Once one is lost, one more is counted.
LEMMA OneLost ==
    ASSUME NEW s, NEW lg, Counted(s, lg), NEW u \in Sinks, NEW at \in Nat,
           u.handled = s.handled \/ u.handled = s.handled \cup {at},
           s.failed + s.dropped + 1 <= u.failed + u.dropped,
           WaitingOf(s) \subseteq WaitingOf(u) \cup {at}
    PROVE  Counted(u, lg)
  <1>1. IsFiniteSet({at}) /\ Cardinality({at}) = 1
    BY FS_Singleton
  <1>2. Lost(u, lg) \subseteq Lost(s, lg) \cup {at}
    BY DEF Lost
  <1>3. IsFiniteSet(s.handled \cup {at}) /\ IsFiniteSet(u.handled)
    <2>1. IsFiniteSet(s.handled)
      BY DEF Counted
    <2>2. IsFiniteSet(s.handled \cup {at})
      BY <2>1, <1>1, FS_Union
    <2> QED BY <2>1, <2>2
  <1> QED BY <1>1, <1>2, <1>3, LossGrows DEF Counted

\* The queue's waiting, as it grows and shrinks.
LEMMA WaitingJoins ==
    ASSUME NEW s \in Sinks, NEW u, NEW x, u.queue = Append(s.queue, x), u.work = s.work
    PROVE  WaitingOf(s) \subseteq WaitingOf(u) /\ (x.item = "event" => x.at \in WaitingOf(u))
  <1>1. /\ s.queue \in Seq(Things) /\ Len(s.queue) \in Nat /\ DOMAIN s.queue = 1..Len(s.queue)
    BY SinkFields
  <1>2. /\ DOMAIN u.queue = 1..(Len(s.queue) + 1) /\ u.queue[Len(s.queue) + 1] = x
        /\ \A i \in 1..Len(s.queue) : u.queue[i] = s.queue[i]
    BY <1>1
  <1>3. DOMAIN s.queue \subseteq DOMAIN u.queue /\ Len(s.queue) + 1 \in DOMAIN u.queue
    BY <1>1, <1>2
  <1> QED BY <1>1, <1>2, <1>3 DEF WaitingOf

\* What leaves the queue for the task's hands waits there.
LEMMA WaitingTaken ==
    ASSUME NEW s \in Sinks, s.queue # <<>>, s.work.item # "event", NEW u,
           u.queue = Tail(s.queue), Head(s.queue).item = "event" => u.work = Head(s.queue)
    PROVE  WaitingOf(s) \subseteq WaitingOf(u)
  <1> DEFINE q == s.queue
             l == Len(q)
  <1>1. q \in Seq(Things) /\ l \in Nat /\ DOMAIN q = 1..l /\ l >= 1 /\ Head(q) = q[1]
    BY SinkFields
  <1>2. DOMAIN u.queue = 1..(l - 1) /\ \A i \in 1..(l - 1) : u.queue[i] = q[i + 1]
    BY <1>1
  <1> SUFFICES ASSUME NEW i \in 1..l, q[i].item = "event"
               PROVE  q[i].at \in WaitingOf(u)
    BY <1>1 DEF WaitingOf
  <1>3. CASE i = 1
    BY <1>1, <1>3 DEF WaitingOf
  <1>4. CASE i # 1
    <2>1. i - 1 \in DOMAIN u.queue /\ u.queue[i - 1] = q[i]
      BY <1>1, <1>2, <1>4
    <2> HIDE DEF q, l
    <2> QED BY <2>1 DEF WaitingOf
  <1> QED BY <1>3, <1>4

\* As many as wait are in the queue or in hand.
LEMMA WaitingIsBounded ==
    ASSUME NEW s \in Sinks
    PROVE  /\ IsFiniteSet(WaitingOf(s))
           /\ Cardinality(WaitingOf(s)) <= Items(s.queue) + (IF s.work = Idle THEN 0 ELSE 1)
  <1> DEFINE q == s.queue
             D == {i \in DOMAIN q : q[i].item # "end"}
             E == {i \in DOMAIN q : q[i].item = "event"}
             f == [i \in E |-> q[i].at]
             W == {q[i].at : i \in E}
             h == IF s.work.item = "event" THEN {s.work.at} ELSE {}
  <1>1. q \in Seq(Things) /\ DOMAIN q = 1..Len(q) /\ Len(q) \in Nat
    BY SinkFields
  <1>2. IsFiniteSet(D) /\ E \subseteq D /\ IsFiniteSet(E) /\ Cardinality(E) <= Cardinality(D)
    <2>1. IsFiniteSet(DOMAIN q)
      BY <1>1, FS_Interval
    <2>2. IsFiniteSet(D) /\ E \subseteq D
      BY <2>1, FS_Subset
    <2> HIDE DEF D, E
    <2> QED BY <2>2, FS_Subset
  <1>3. IsFiniteSet(W) /\ Cardinality(W) <= Cardinality(E)
    <2>1. f \in Surjection(E, W)
      BY DEF Surjection
    <2> HIDE DEF f, E, W
    <2> QED BY <2>1, <1>2, FS_Surjection
  <1>4. IsFiniteSet(h) /\ Cardinality(h) <= (IF s.work = Idle THEN 0 ELSE 1) /\ Cardinality(h) \in Nat
    <2>1. IsFiniteSet({s.work.at}) /\ Cardinality({s.work.at}) = 1
      BY FS_Singleton
    <2>2. IsFiniteSet({}) /\ Cardinality({}) = 0
      BY FS_EmptySet
    <2>3. CASE s.work.item = "event"
      <3>1. h = {s.work.at} /\ s.work # Idle
        BY <2>3, Kindly
      <3> HIDE DEF h
      <3> QED BY <2>1, <3>1
    <2>4. CASE s.work.item # "event"
      <3>1. h = {}
        BY <2>4
      <3> HIDE DEF h
      <3> QED BY <2>2, <3>1
    <2> QED BY <2>3, <2>4
  <1>5. WaitingOf(s) = W \cup h
    BY DEF WaitingOf
  <1>6. /\ Items(q) = Cardinality(D) /\ Cardinality(D) \in Nat
        /\ Cardinality(E) \in Nat /\ Cardinality(W) \in Nat
    BY <1>2, <1>3, FS_CardinalityType DEF Items
  <1> HIDE DEF W, h, D, E
  <1>7. /\ IsFiniteSet(W \cup h) /\ IsFiniteSet(W \cap h)
        /\ Cardinality(W \cup h) = Cardinality(W) + Cardinality(h) - Cardinality(W \cap h)
    BY <1>3, <1>4, FS_Union, FS_Subset
  <1>8. Cardinality(W \cup h) \in Nat /\ Cardinality(W \cap h) \in Nat
    BY <1>7, FS_CardinalityType
  <1> DEFINE k == IF s.work = Idle THEN 0 ELSE 1
  <1>9. k \in Nat
    OBVIOUS
  <1> HIDE DEF k
  <1>10. Cardinality(W \cup h) <= Items(q) + k
    BY <1>2, <1>3, <1>4, <1>6, <1>7, <1>8, <1>9 DEF k
  <1> QED BY <1>5, <1>7, <1>10 DEF k
\* What stays of a sink that is told something.
Onward(s, u) == /\ u \in Sinks /\ u.work = s.work /\ u.closed = s.closed /\ u.late = s.late

\* An open sink has the event it is handed, or counts it as dropped.
LEMMA EventCounts ==
    ASSUME NEW s, NEW lg, Counted(s, lg), ~s.closed, NEW e \in Events, NEW u, u = HandleEvent(s, e)
    PROVE  Onward(s, u) /\ Counted(u, lg)
  <1> DEFINE h == s.handled \cup {e.at}
             v == [s EXCEPT !.handled = h]
  <1>1. s \in Sinks /\ h \in SUBSET Nat /\ e.at \in Nat /\ e \in Things /\ e.item = "event"
    BY SinkFields, Kindly DEF Counted, Things
  <1>2. IsFiniteSet(h)
    <2>1. IsFiniteSet(s.handled)
      BY DEF Counted
    <2> QED BY <2>1, FS_AddElement
  <1>3. /\ v \in Sinks /\ v.handled = h /\ v.queue = s.queue /\ v.work = s.work
        /\ v.closed = s.closed /\ v.late = s.late /\ v.failed = s.failed /\ v.dropped = s.dropped
    <2> HIDE DEF h
    <2> QED BY <1>1, SinkFields DEF Sinks
  <1>4. u = IF Len(s.queue) >= QueueLimit THEN [v EXCEPT !.dropped = v.dropped + 1]
            ELSE [v EXCEPT !.queue = Append(v.queue, e)]
    BY <1>1, <1>3 DEF HandleEvent
  <1>5. s.failed \in Nat /\ s.dropped \in Nat
    BY <1>1, SinkFields
  <1> HIDE DEF v, h
  <1>6. CASE Len(s.queue) >= QueueLimit
    <2> DEFINE d == v.dropped + 1
    <2>1. d \in Nat /\ d = s.dropped + 1
      BY <1>3, <1>5
    <2>2. u = [v EXCEPT !.dropped = d]
      BY <1>4, <1>6
    <2> HIDE DEF d
    <2>3. /\ u \in Sinks /\ u.handled = h /\ u.queue = s.queue /\ u.work = s.work
          /\ u.closed = s.closed /\ u.late = s.late /\ u.failed = s.failed /\ u.dropped = d
      BY <1>3, <2>1, <2>2, SinkFields DEF Sinks
    <2>4. WaitingOf(s) \subseteq WaitingOf(u) \cup {e.at}
      BY <2>3 DEF WaitingOf
    <2>5. s.failed + s.dropped + 1 <= u.failed + u.dropped
      BY <1>5, <2>1, <2>3
    <2> QED BY <1>1, <2>3, <2>4, <2>5, OneLost DEF Onward, h
  <1>7. CASE ~(Len(s.queue) >= QueueLimit)
    <2> DEFINE q == Append(v.queue, e)
    <2>1. q \in Seq(Things) /\ q = Append(s.queue, e)
      BY <1>1, <1>3, SinkFields
    <2>2. u = [v EXCEPT !.queue = q]
      BY <1>4, <1>7
    <2> HIDE DEF q
    <2>3. /\ u \in Sinks /\ u.handled = h /\ u.queue = q /\ u.work = s.work
          /\ u.closed = s.closed /\ u.late = s.late /\ u.failed = s.failed /\ u.dropped = s.dropped
      BY <1>3, <2>1, <2>2, SinkFields DEF Sinks
    <2>4. WaitingOf(s) \subseteq WaitingOf(u) /\ e.at \in WaitingOf(u)
      BY <1>1, <2>1, <2>3, WaitingJoins
    <2>5. Lost(u, lg) \subseteq Lost(s, lg) \cup {}
      BY <2>3, <2>4 DEF Lost, h
    <2>6. IsFiniteSet({}) /\ Cardinality({}) <= 0 /\ s.failed + s.dropped + 0 <= u.failed + u.dropped
      <3>1. IsFiniteSet({}) /\ Cardinality({}) = 0
        BY FS_EmptySet
      <3> QED BY <3>1, <1>5, <2>3
    <2>7. lg \in Seq(Nat) /\ IsFiniteSet(u.handled)
      BY <1>2, <2>3 DEF Counted
    <2>8. Counted(u, lg)
      BY <2>3, <2>5, <2>6, <2>7, LossGrows
    <2> QED BY <2>3, <2>8 DEF Onward
  <1> QED BY <1>6, <1>7

\* A view or a track's read is no event, and displaces none.
LEMMA ViewMerges ==
    ASSUME NEW s \in Sinks, NEW a \in Views, NEW m \in Nat, NEW u, u = Merge(s, a, m)
    PROVE  /\ Onward(s, u) /\ u.handled = s.handled /\ u.failed = s.failed
           /\ u.dropped = s.dropped /\ WaitingOf(s) \subseteq WaitingOf(u)
  <1>1. Append(s.queue, Marker) \in Seq(Things)
    BY SinkFields DEF Things
  <1>2. Onward(s, u) /\ u.handled = s.handled /\ u.failed = s.failed /\ u.dropped = s.dropped
    BY <1>1, SinkFields DEF Merge, Sinks, Onward
  <1>3. u.queue = s.queue \/ u.queue = Append(s.queue, Marker)
    BY DEF Merge, Sinks
  <1>4. CASE u.queue = s.queue
    BY <1>2, <1>4 DEF WaitingOf, Onward
  <1>5. CASE u.queue = Append(s.queue, Marker)
    BY <1>2, <1>5, WaitingJoins DEF Onward
  <1> QED BY <1>2, <1>3, <1>4, <1>5

\* So views and tracks keep the count, those that find the queue full among them.
LEMMA ViewCounts ==
    ASSUME NEW s, NEW lg, Counted(s, lg), NEW a \in Views, NEW m \in Nat, NEW u,
           u = RecordIssues(s, a, m) \/ u = RecordTriageTrack(s, a, m)
    PROVE  Onward(s, u) /\ Counted(u, lg)
  <1> DEFINE listed == a.open /\ a.triage # "none"
             merged == IF listed THEN Merge(s, a, m) ELSE s
             x == TrackRead(listed, m)
  <1>1. /\ s \in Sinks /\ lg \in Seq(Nat) /\ s.dropped \in Nat /\ s.failed \in Nat
        /\ x \in Things
    BY SinkFields DEF Counted, Things, Tracks, TrackRead
  <1>2. Onward(s, s)
    BY <1>1 DEF Onward
  <1> HIDE DEF x
  <1>3. /\ merged \in Sinks /\ Onward(s, merged) /\ merged.handled = s.handled
        /\ merged.failed = s.failed
        /\ merged.dropped = s.dropped /\ WaitingOf(s) \subseteq WaitingOf(merged)
    <2>1. CASE listed
      BY <2>1, <1>1, ViewMerges DEF Onward
    <2>2. CASE ~listed
      BY <2>2, <1>1, <1>2
    <2> QED BY <2>1, <2>2
  <1>4. CASE u = s
    BY <1>2, <1>4
  <1>5. CASE u = Merge(s, a, m)
    <2>1. /\ Onward(s, u) /\ u.handled = s.handled /\ u.failed = s.failed
          /\ u.dropped = s.dropped /\ WaitingOf(s) \subseteq WaitingOf(u)
      BY <1>1, <1>5, ViewMerges
    <2>2. s.failed + s.dropped <= u.failed + u.dropped /\ u \in Sinks
      BY <1>1, <2>1 DEF Onward
    <2> QED BY <1>1, <2>1, <2>2, NothingLost
  <1>6. CASE u = [s EXCEPT !.dropped = @ + 1]
    <2> DEFINE d == s.dropped + 1
    <2>1. d \in Nat /\ u = [s EXCEPT !.dropped = d]
      BY <1>1, <1>6
    <2>2. s.dropped <= d
      BY <1>1
    <2> HIDE DEF d
    <2>3. /\ Onward(s, u) /\ u.queue = s.queue /\ u.handled = s.handled /\ u.failed = s.failed
          /\ u.dropped = d
      BY <1>1, <2>1, SinkFields DEF Sinks, Onward
    <2>4. s.failed + s.dropped <= u.failed + u.dropped /\ u \in Sinks
      BY <1>1, <2>1, <2>2, <2>3 DEF Onward
    <2>5. WaitingOf(s) = WaitingOf(u)
      BY <2>3 DEF WaitingOf, Onward
    <2> QED BY <1>1, <2>3, <2>4, <2>5, NothingLost
  <1>7. CASE u = [merged EXCEPT !.queue = Append(@, x)]
    <2> DEFINE q == Append(merged.queue, x)
    <2> HIDE DEF merged
    <2>1. q \in Seq(Things) /\ u = [merged EXCEPT !.queue = q]
      BY <1>1, <1>3, <1>7, SinkFields
    <2> HIDE DEF q
    <2>2. /\ Onward(merged, u) /\ u.queue = q /\ u.handled = s.handled
          /\ u.failed = s.failed /\ u.dropped = s.dropped
      BY <1>3, <2>1, SinkFields DEF Sinks, Onward
    <2>3. WaitingOf(merged) \subseteq WaitingOf(u)
      BY <1>3, <2>2, WaitingJoins DEF q, Onward
    <2>4. s.failed + s.dropped <= u.failed + u.dropped /\ u \in Sinks
      BY <1>1, <2>2 DEF Onward
    <2>5. Counted(u, lg)
      BY <1>1, <1>3, <2>2, <2>3, <2>4, NothingLost
    <2>6. Onward(s, u)
      BY <1>3, <2>2 DEF Onward
    <2> QED BY <2>5, <2>6
  <1> QED BY <1>4, <1>5, <1>6, <1>7 DEF RecordIssues, RecordTriageTrack, x
-----------------------------------------------------------------------------
(* Nothing is lost uncounted *)

\* None comes after the close: the sink is closed when Slack's is drained and given up.
InTime == /\ sink.closed => pc \in {"store", "down"}
          /\ pc = "store" => slack.step = "done"
          /\ ~sink.late
LossInv == StoreInv /\ InTime /\ SlackSums(slack) /\ Counted(sink, log)

\* Nothing has been handed to sinks that have just started.
LEMMA NothingToCount ==
    ASSUME NEW lg \in Seq(Nat)
    PROVE  /\ Counted(NoSink, lg) /\ SlackSums(NoSlack)
           /\ ~NoSink.closed /\ ~NoSink.late
  <1>1. NoSink \in Sinks
    <2>1. NoBatch \in [at : Nat, view : Views] /\ <<>> \in Seq(Things) /\ Idle \in Works
      BY DEF NoBatch, Nothing, Views, Rest, Works
    <2> QED BY <2>1 DEF NoSink, Sinks
  <1>2. /\ NoSink.handled = {} /\ NoSink.failed = 0 /\ NoSink.dropped = 0
        /\ ~NoSink.closed /\ ~NoSink.late
    BY DEF NoSink
  <1>3. IsFiniteSet({}) /\ Cardinality({}) = 0
    BY FS_EmptySet
  <1>4. Lost(NoSink, lg) = {}
    BY <1>2 DEF Lost
  <1>5. Counted(NoSink, lg)
    BY <1>1, <1>2, <1>3, <1>4 DEF Counted
  <1>6. NoSlack \in Slacks
    <2>1. <<>> \in Seq(SlackItems)
      OBVIOUS
    <2> QED BY <2>1 DEF NoSlack, Slacks
  <1>7. /\ NoSlack.queue = <<>> /\ NoSlack.work = Idle /\ NoSlack.step = "get"
        /\ NoSlack.sent = 0 /\ NoSlack.failed = 0 /\ NoSlack.dropped = 0 /\ NoSlack.handled = 0
    BY DEF NoSlack
  <1>8. SlackSums(NoSlack)
    BY <1>6, <1>7, NoItems DEF SlackSums, InHand
  <1> QED BY <1>2, <1>5, <1>8

\* A log that a write lengthens has all it had, and an event written.
LEMMA LogGrows ==
    ASSUME NEW w \in Works, w # Idle, log \in Seq(Nat), Write(w)
    PROVE  /\ log' \in Seq(Nat) /\ ToSet(log) \subseteq ToSet(log')
           /\ w.item = "event" => w.at \in ToSet(log')
  <1>1. w \in Events \cup Tracks \cup Batches
    BY StampedThings
  <1>2. CASE w \in Events
    <2>1. log' = Append(log, w.at) /\ w.at \in Nat
      BY <1>2, Kindly DEF Write
    <2>2. /\ DOMAIN log = 1..Len(log) /\ DOMAIN log' = 1..(Len(log) + 1) /\ Len(log) \in Nat
          /\ \A i \in 1..Len(log) : log'[i] = log[i]
          /\ log'[Len(log) + 1] = w.at
      BY <2>1
    <2>3. log' \in Seq(Nat)
      BY <2>1
    <2>4. DOMAIN log \subseteq DOMAIN log' /\ Len(log) + 1 \in DOMAIN log'
      BY <2>2
    <2> QED BY <2>2, <2>3, <2>4 DEF ToSet
  <1>3. CASE w \in Tracks \cup Batches
    <2>1. log' = log /\ w.item # "event"
      BY <1>3, Kindly DEF Write
    <2> QED BY <2>1
  <1> QED BY <1>1, <1>2, <1>3

\* The task takes a work that waits.
LEMMA TakeCounts ==
    ASSUME NEW s, NEW lg, Counted(s, lg), s.step = "get", s.work = Idle, s.queue # <<>>,
           NEW u \in Sinks, u = TakenFrom(s)
    PROVE  u.closed = s.closed /\ u.late = s.late /\ Counted(u, lg)
  <1>1. s \in Sinks /\ lg \in Seq(Nat) /\ s.work.item # "event" /\ s.failed \in Nat /\ s.dropped \in Nat
    BY SinkFields, Kindly DEF Counted
  <1> DEFINE w == [item |-> "issues", at |-> s.batch.at, view |-> s.batch.view]
             t == Tail(s.queue)
             h == Head(s.queue)
  <1> HIDE DEF w, t, h
  <1>2. \/ h.item = "end" /\ u = [s EXCEPT !.queue = t, !.step = "done"]
        \/ /\ h.item = "issues"
           /\ u = [s EXCEPT !.queue = t, !.step = "write", !.batch = NoBatch, !.marked = FALSE,
                            !.work = w]
        \/ u = [s EXCEPT !.queue = t, !.step = "write", !.work = h]
    BY DEF TakenFrom, w, t, h
  <1>3. /\ u.queue = t /\ u.closed = s.closed /\ u.late = s.late /\ u.handled = s.handled
        /\ u.failed = s.failed /\ u.dropped = s.dropped
        /\ h.item = "event" => u.work = h
    <2>1. CASE h.item = "end" /\ u = [s EXCEPT !.queue = t, !.step = "done"]
      BY <1>1, <2>1 DEF Sinks
    <2>2. CASE u = [s EXCEPT !.queue = t, !.step = "write", !.work = h]
      BY <1>1, <2>2 DEF Sinks
    <2>3. CASE /\ h.item = "issues"
               /\ u = [s EXCEPT !.queue = t, !.step = "write", !.batch = NoBatch, !.marked = FALSE,
                                !.work = w]
      <3> DEFINE v == [s EXCEPT !.queue = t, !.batch = NoBatch, !.marked = FALSE]
      <3>1. /\ v.queue = t /\ v.closed = s.closed /\ v.late = s.late /\ v.handled = s.handled
            /\ v.failed = s.failed /\ v.dropped = s.dropped /\ DOMAIN v = DOMAIN s
        BY <1>1 DEF Sinks
      <3>2. u = [v EXCEPT !.step = "write", !.work = w]
        BY <1>1, <2>3 DEF Sinks
      <3> HIDE DEF v
      <3> QED BY <1>1, <2>3, <3>1, <3>2 DEF Sinks
    <2> QED BY <1>2, <2>1, <2>2, <2>3
  <1>4. WaitingOf(s) \subseteq WaitingOf(u)
    BY <1>1, <1>3, WaitingTaken DEF t, h
  <1> QED BY <1>1, <1>3, <1>4, NothingLost

\* What a write leaves waiting, when its end gives nothing up and when it does.
LEMMA WriteCounts ==
    ASSUME Counted(sink, log), sink.work # Idle, NEW u \in Sinks,
           u.handled = sink.handled, u.failed = sink.failed, u.dropped = sink.dropped,
           u.queue = sink.queue, u.work = sink.work \/ u.work = Idle, Write(sink.work)
    PROVE  Counted(u, log')
  <1>1. /\ sink \in Sinks /\ log \in Seq(Nat) /\ sink.work \in Works
        /\ sink.failed \in Nat /\ sink.dropped \in Nat
    BY SinkFields DEF Counted
  <1>2. /\ log' \in Seq(Nat) /\ ToSet(log) \subseteq ToSet(log')
        /\ sink.work.item = "event" => sink.work.at \in ToSet(log')
    BY <1>1, LogGrows
  <1>3. WaitingOf(sink) \subseteq WaitingOf(u) \cup ToSet(log')
    BY <1>2 DEF WaitingOf
  <1> QED BY <1>1, <1>2, <1>3, NothingLost

\* A sink whose time is over counts all that waited.
LEMMA GivenUpCounts ==
    ASSUME NEW s, NEW lg, Counted(s, lg)
    PROVE  Counted(GivenUp(s), lg)
  <1> DEFINE u == GivenUp(s)
             k == Items(s.queue) + (IF s.work = Idle THEN 0 ELSE 1)
  <1>1. /\ s \in Sinks /\ lg \in Seq(Nat) /\ s.failed \in Nat /\ s.dropped \in Nat
        /\ Items(s.queue) \in Nat
    BY SinkFields, ItemsAreCounted DEF Counted
  <1>2. /\ u \in Sinks /\ u.handled = s.handled
        /\ u.failed = (IF s.work = Idle THEN s.failed ELSE s.failed + 1)
        /\ u.dropped = s.dropped + Items(s.queue)
    BY <1>1, GivenUpFields
  <1>3. IsFiniteSet(WaitingOf(s)) /\ Cardinality(WaitingOf(s)) <= k
    BY <1>1, WaitingIsBounded
  <1> HIDE DEF u
  <1>4. k \in Nat /\ s.failed + s.dropped + k <= u.failed + u.dropped
    BY <1>1, <1>2
  <1>5. Lost(u, lg) \subseteq Lost(s, lg) \cup WaitingOf(s)
    BY <1>2 DEF Lost
  <1>6. IsFiniteSet(u.handled)
    BY <1>2 DEF Counted
  <1> HIDE DEF k
  <1>7. Counted(u, lg)
    BY <1>1, <1>2, <1>3, <1>4, <1>5, <1>6, LossGrows
  <1> QED BY <1>7 DEF u
\* What the ticks tell the sinks keeps the counts of both.
LEMMA TellingCounts ==
    ASSUME LossInv, pc' \notin {"store", "down"}, ~sink.closed, log' = log,
           \/ sink' = sink
           \/ \E a \in Views, m \in Nat : \/ sink' = RecordIssues(sink, a, m)
                                          \/ sink' = RecordTriageTrack(sink, a, m)
           \/ \E e \in Events : sink' = HandleEvent(sink, e)
           \/ \E e, f \in Events : sink' = HandleEvent(HandleEvent(sink, e), f),
           SlackSums(slack')
    PROVE  InTime' /\ SlackSums(slack)' /\ Counted(sink, log)'
  <1>1. Counted(sink, log) /\ ~sink.late
    BY DEF LossInv, InTime
  <1>2. Onward(sink, sink') /\ Counted(sink', log)
    <2>1. CASE sink' = sink
      BY <1>1, <2>1 DEF Onward, Counted
    <2>2. CASE \E a \in Views, m \in Nat : \/ sink' = RecordIssues(sink, a, m)
                                           \/ sink' = RecordTriageTrack(sink, a, m)
      BY <1>1, <2>2, ViewCounts
    <2>3. CASE \E e \in Events : sink' = HandleEvent(sink, e)
      BY <1>1, <2>3, EventCounts
    <2>4. CASE \E e, f \in Events : sink' = HandleEvent(HandleEvent(sink, e), f)
      <3>1. PICK e \in Events, f \in Events : sink' = HandleEvent(HandleEvent(sink, e), f)
        BY <2>4
      <3> DEFINE u == HandleEvent(sink, e)
      <3>2. Onward(sink, u) /\ Counted(u, log)
        BY <1>1, EventCounts
      <3>3. ~u.closed
        BY <3>2 DEF Onward
      <3>4. sink' = HandleEvent(u, f)
        BY <3>1
      <3> HIDE DEF u
      <3>5. Onward(u, sink') /\ Counted(sink', log)
        BY <3>2, <3>3, <3>4, EventCounts
      <3> QED BY <3>2, <3>5 DEF Onward
    <2> QED BY <2>1, <2>2, <2>3, <2>4
  <1> QED BY <1>1, <1>2 DEF InTime, Onward

\* Each step keeps the sums of both sinks, and hands neither an event after its close.
LEMMA CountsStep == ASSUME LossInv, [Next]_vars PROVE InTime' /\ SlackSums(slack)' /\ Counted(sink, log)'
  <1>1. /\ StoreInv /\ InTime /\ SlackSums(slack) /\ Counted(sink, log)
        /\ sink \in Sinks /\ log \in Seq(Nat) /\ now \in Nat
        /\ Answers \subseteq Views /\ track \in Views /\ view \in Views
        /\ WorkInTurn(sink, now, row, told)
    BY AnswersAreViews DEF LossInv, StoreInv, SinkInv, ProcessOK, Counted
  <1>2. ~sink.closed \/ pc \in {"store", "down"}
    BY <1>1 DEF InTime
  <1>3. now + 1 \in Nat /\ now + 2 \in Nat
    BY <1>1
  <1>4. CASE \/ HumanActs /\ pc \notin {"store", "down"}
             \/ ReadTriageTrack \/ NextTick
    BY <1>1, <1>2, <1>4, TellingCounts DEF HumanActs, ReadTriageTrack, NextTick
  <1>5. CASE HumanActs /\ pc \in {"store", "down"}
    BY <1>1, <1>5 DEF HumanActs, InTime
  <1>6. CASE Sweep
    BY <1>1, <1>2, <1>3, <1>6, TellingCounts DEF Sweep, Tick
  <1>7. CASE Finish
    <2>1. pc = "finish" /\ pc' \in {"reread", "track"} /\ log' = log /\ ~sink.closed
      BY <1>2, <1>7 DEF Finish
    <2>2. \/ UNCHANGED <<sink, slack>>
          \/ \E e, f \in Events :
               /\ sink' = HandleEvent(HandleEvent(sink, e), f)
               /\ slack' \in {slack, HandleSlack(HandleSlack(slack, e), f)}
      <3>1. CASE UNCHANGED <<sink, slack>>
        BY <3>1
      <3>2. CASE ~(UNCHANGED <<sink, slack>>)
        <4>1. PICK rest \in Rest, kind \in {"completed", "cancelled"} :
                PublishBoth(Event("moved", [state |-> rest], now + 1),
                            Event(kind, [open |-> FALSE], now + 2))
          BY <1>7, <3>2 DEF Finish
        <4>2. /\ Event("moved", [state |-> rest], now + 1) \in Events
              /\ Event(kind, [open |-> FALSE], now + 2) \in Events
          BY <1>3, <4>1, EventsTyped
        <4> QED BY <4>1, <4>2 DEF PublishBoth, Fanned
      <3> QED BY <3>1, <3>2
    <2>3. SlackSums(slack')
      <3>1. CASE UNCHANGED <<sink, slack>>
        BY <1>1, <3>1
      <3>2. CASE \E e, f \in Events :
               /\ sink' = HandleEvent(HandleEvent(sink, e), f)
               /\ slack' \in {slack, HandleSlack(HandleSlack(slack, e), f)}
        <4>1. PICK e \in Events, f \in Events :
                 slack' \in {slack, HandleSlack(HandleSlack(slack, e), f)}
          BY <3>2
        <4>2. SlackSums(HandleSlack(slack, e))
          BY <1>1, SlackHandled
        <4>3. SlackSums(HandleSlack(HandleSlack(slack, e), f))
          BY <4>2, SlackHandled
        <4> QED BY <1>1, <4>1, <4>3
      <3> QED BY <2>2, <3>1, <3>2
    <2> QED BY <1>1, <2>1, <2>2, <2>3, TellingCounts
  <1>8. CASE ReportMoved
    BY <1>1, <1>2, <1>3, <1>8, TellingCounts DEF ReportMoved, Tick
  <1>9. CASE FetchIssues
    BY <1>1, <1>2, <1>3, <1>9, TellingCounts DEF FetchIssues, Tick
  <1>10. CASE ObserveTriageTrack
    BY <1>1, <1>2, <1>3, <1>10, TellingCounts DEF ObserveTriageTrack, Tick
  <1>11. CASE Claim \/ FileVerdict
    <2>1. /\ pc \notin {"store", "down"} /\ pc' \notin {"store", "down"} /\ log' = log
          /\ \/ UNCHANGED <<sink, slack>>
             \/ \E e \in Events : /\ sink' = HandleEvent(sink, e)
                                  /\ slack' \in {slack, HandleSlack(slack, e)}
      BY <1>3, <1>11, EventsTyped DEF Claim, FileVerdict, Publish, Fanned
    <2>2. SlackSums(slack')
      BY <1>1, <2>1, SlackHandled
    <2> QED BY <1>1, <1>2, <2>1, <2>2, TellingCounts
  <1>12. CASE Take
    <2>1. /\ sink' = TakenFrom(sink) /\ sink.step = "get" /\ sink.queue # <<>>
          /\ UNCHANGED <<pc, slack, log>>
      BY <1>12 DEF Take, TakenFrom
    <2>2. sink.work = Idle
      BY <1>1, <2>1 DEF WorkInTurn
    <2>3. sink' \in Sinks
      BY <1>1, <2>1, TakenKeeps DEF StoreInv, SinkInv
    <2>4. sink'.closed = sink.closed /\ sink'.late = sink.late /\ Counted(sink', log)
      BY <1>1, <2>1, <2>2, <2>3, TakeCounts
    <2> QED BY <1>1, <2>1, <2>4 DEF InTime
  <1>13. CASE Connect
    <2>1. sink' = [sink EXCEPT !.connected = TRUE] /\ UNCHANGED <<pc, slack, log>>
      BY <1>13 DEF Connect
    <2>2. /\ sink' \in Sinks /\ sink'.queue = sink.queue /\ sink'.work = sink.work
          /\ sink'.closed = sink.closed /\ sink'.late = sink.late
          /\ sink'.handled = sink.handled /\ sink'.failed = sink.failed
          /\ sink'.dropped = sink.dropped
      BY <1>1, <2>1, SinkFields DEF Sinks
    <2>3. Counted(sink', log)
      BY <1>1, <2>2 DEF Counted, Lost, WaitingOf
    <2> QED BY <1>1, <2>1, <2>2, <2>3 DEF InTime
  <1>14. CASE Apply
    <2> DEFINE done == [sink EXCEPT !.step = "get", !.work = Idle]
               kept == Kept(sink)
    <2>1. /\ sink.step = "write" /\ UNCHANGED <<pc, slack>>
          /\ \/ Write(sink.work) /\ sink' = done
             \/ Unwritten /\ sink' = [done EXCEPT !.failed = @ + 1]
             \/ (Write(sink.work) \/ Unwritten) /\ sink' = kept
      BY <1>14 DEF Apply
    <2>2. /\ done \in Sinks /\ done.queue = sink.queue /\ done.work = Idle
          /\ done.failed = sink.failed /\ done.dropped = sink.dropped
          /\ done.handled = sink.handled /\ done.late = sink.late /\ done.closed = sink.closed
      BY <1>1, ApplyFields
    <2>3. /\ kept \in Sinks /\ kept.queue = sink.queue /\ kept.work = sink.work
          /\ kept.failed = sink.failed /\ kept.dropped = sink.dropped
          /\ kept.handled = sink.handled /\ kept.late = sink.late /\ kept.closed = sink.closed
      BY <1>1, ApplyFields DEF Same, Joins
    <2>4. sink.work # Idle /\ sink.work \in Works /\ sink.work.at \in Nat
      <3>1. sink.work # Idle /\ sink.work \in Works
        BY <1>1, <2>1, SinkFields DEF WorkInTurn
      <3> QED BY <3>1, StampedThings
    <2> HIDE DEF done, kept
    <2>5. CASE Write(sink.work) /\ sink' \in {done, kept}
      <3>1. Counted(sink', log')
        BY <1>1, <2>2, <2>3, <2>4, <2>5, WriteCounts
      <3> QED BY <1>1, <2>1, <2>2, <2>3, <2>5, <3>1 DEF InTime
    <2>6. CASE Unwritten /\ sink' = kept
      <3>1. Counted(kept, log)
        BY <1>1, <2>3 DEF Counted, Lost, WaitingOf
      <3> QED BY <1>1, <2>1, <2>3, <2>6, <3>1 DEF InTime, Unwritten
    <2>7. CASE Unwritten /\ sink' = [done EXCEPT !.failed = @ + 1]
      <3> DEFINE d == done.failed + 1
      <3>1. d \in Nat /\ d = sink.failed + 1 /\ sink.failed \in Nat /\ sink.dropped \in Nat
        BY <1>1, <2>2, SinkFields
      <3>2. sink' = [done EXCEPT !.failed = d]
        BY <2>2, <2>7
      <3> HIDE DEF d
      <3>3. /\ sink' \in Sinks /\ sink'.queue = sink.queue /\ sink'.work = Idle
            /\ sink'.failed = d /\ sink'.dropped = sink.dropped
            /\ sink'.handled = sink.handled /\ sink'.late = sink.late
            /\ sink'.closed = sink.closed
        BY <2>2, <3>1, <3>2, SinkFields DEF Sinks
      <3>4. WaitingOf(sink) \subseteq WaitingOf(sink') \cup {sink.work.at}
        BY <3>3 DEF WaitingOf
      <3>5. sink.failed + sink.dropped + 1 <= sink'.failed + sink'.dropped
        BY <3>1, <3>3
      <3>6. Counted(sink', log)
        BY <1>1, <2>4, <3>3, <3>4, <3>5, OneLost
      <3> QED BY <1>1, <2>1, <2>7, <3>3, <3>6 DEF InTime, Unwritten
    <2> QED BY <2>1, <2>5, <2>6, <2>7
  <1>15. CASE SlackTake
    <2>1. UNCHANGED <<pc, sink, log>> /\ slack.step = "get"
      BY <1>15 DEF SlackTake
    <2> QED BY <1>1, <1>15, <2>1, SlackTakes DEF InTime
  <1>16. CASE Post
    <2>1. /\ UNCHANGED <<pc, log>> /\ slack.step = "post" /\ pc # "down"
          /\ \/ sink' = sink
             \/ \E e \in Events : sink' = HandleEvent(sink, e)
      BY <1>3, <1>16, EventsTyped DEF Post
    <2>2. pc \notin {"store", "down"}
      BY <1>1, <2>1 DEF InTime
    <2> QED BY <1>1, <1>2, <1>16, <2>1, <2>2, SlackPosts, TellingCounts
  <1>17. CASE CloseSlack
    <2>1. /\ UNCHANGED <<sink, log>> /\ pc = "wait" /\ pc' = "slack"
          /\ slack' = [slack EXCEPT !.closed = TRUE, !.queue = Append(@, Sentinel)]
      BY <1>17 DEF CloseSlack
    <2>2. SlackSums(slack')
      BY <1>1, <2>1, SlackCloses
    <2> QED BY <1>1, <2>1, <2>2 DEF InTime
  <1>18. CASE SlackDrains \/ SlackTimesOut
    <2>1. /\ sink' = [sink EXCEPT !.closed = TRUE, !.queue = Append(@, Sentinel)]
          /\ UNCHANGED log /\ pc' = "store"
          /\ \/ slack' = slack /\ slack.step = "done"
             \/ slack' = GivenUp(slack)
      BY <1>18 DEF SlackDrains, SlackTimesOut, CloseStore, Drained
    <2>2. SlackSums(slack') /\ slack'.step = "done"
      BY <1>1, <2>1, SlackGivesUp
    <2> DEFINE q == Append(sink.queue, Sentinel)
    <2>3. q \in Seq(Things) /\ sink' = [sink EXCEPT !.closed = TRUE, !.queue = q]
      BY <1>1, <2>1, SinkFields DEF Things
    <2> HIDE DEF q
    <2>4. /\ sink' \in Sinks /\ sink'.queue = q /\ sink'.work = sink.work
          /\ sink'.late = sink.late /\ sink'.handled = sink.handled
          /\ sink'.failed = sink.failed /\ sink'.dropped = sink.dropped
      BY <1>1, <2>3, SinkFields DEF Sinks
    <2>5. WaitingOf(sink) \subseteq WaitingOf(sink')
      BY <1>1, <2>4, WaitingJoins DEF q
    <2>6. sink.failed + sink.dropped <= sink'.failed + sink'.dropped
      BY <1>1, <2>4, SinkFields
    <2>7. Counted(sink', log)
      BY <1>1, <2>4, <2>5, <2>6, NothingLost
    <2> QED BY <1>1, <2>1, <2>2, <2>4, <2>7 DEF InTime
  <1>19. CASE SinkDrains
    BY <1>1, <1>19 DEF SinkDrains, End, Unwritten, InTime
  <1>20. CASE SinkTimesOut
    <2>1. /\ sink' = GivenUp(sink) /\ pc' = "down" /\ slack' = slack
          /\ Unwritten \/ (sink.step = "write" /\ Write(sink.work))
      BY <1>20 DEF SinkTimesOut, End
    <2>2. Counted(sink, log')
      <3>1. CASE Unwritten
        BY <1>1, <3>1 DEF Unwritten
      <3>2. CASE sink.step = "write" /\ Write(sink.work)
        <4>1. sink.work # Idle
          BY <1>1, <3>2 DEF WorkInTurn
        <4> QED BY <1>1, <3>2, <4>1, WriteCounts
      <3> QED BY <2>1, <3>1, <3>2
    <2>3. sink'.late = sink.late
      BY <1>1, <2>1, GivenUpFields
    <2> QED BY <1>1, <2>1, <2>2, <2>3, GivenUpCounts DEF InTime
  <1>21. CASE Crash \/ Restart
    BY <1>1, <1>21, NothingToCount DEF Crash, Restart, InTime
  <1>22. CASE UNCHANGED vars
    BY <1>1, <1>22 DEF vars, InTime
  <1> QED
    BY <1>4, <1>5, <1>6, <1>7, <1>8, <1>9, <1>10, <1>11, <1>12, <1>13, <1>14, <1>15,
       <1>16, <1>17, <1>18, <1>19, <1>20, <1>21, <1>22 DEF Next

\* Each event that was handed to the store's sink is stored, waits, is in hand, or is counted as
\* dropped or failed; Slack's sums are exact; and no event comes after the close.
THEOREM LossesAreCounted == Spec => []LossIsCounted
  <1>1. ASSUME Init PROVE LossInv
    <2>1. log \in Seq(Nat)
      BY <1>1 DEF Init
    <2> QED BY <1>1, <2>1, ProcessStarts, NothingToCount DEF Init, LossInv, InTime
  <1>2. ASSUME LossInv, [Next]_vars PROVE LossInv'
    BY <1>2, ProcessStep, SinkStep, CountsStep DEF LossInv, StoreInv
  <1>3. LossInv => LossIsCounted
    <2> SUFFICES ASSUME LossInv PROVE LossIsCounted
      OBVIOUS
    <2>1. Cardinality(Lost(sink, log)) <= sink.failed + sink.dropped /\ ~sink.late
      BY DEF LossInv, InTime, Counted
    <2>2. Lost(sink, log) = sink.handled \ (ToSet(log) \cup Waiting)
      BY DEF Lost, WaitingOf, Waiting
    <2>3. slack.handled = slack.sent + slack.failed + slack.dropped + Items(slack.queue)
                          + (IF slack.work = Idle THEN 0 ELSE 1)
      BY DEF LossInv, SlackSums, InHand
    <2> QED BY <2>1, <2>2, <2>3 DEF LossIsCounted
  <1> QED BY <1>1, <1>2, <1>3, PTL DEF Spec
-----------------------------------------------------------------------------
(* What is at rest is stored at rest *)

\* All that waits of stamp `at` or later says `v` of the field.
Agrees(s, at, f, v) ==
    /\ \A i \in DOMAIN s.queue :
         s.queue[i].item = "event" /\ s.queue[i].at >= at /\ f \in DOMAIN s.queue[i].says
             => s.queue[i].says[f] = v
    /\ (s.work.item = "event" /\ s.work.at >= at /\ f \in DOMAIN s.work.says) => s.work.says[f] = v
    /\ (s.work.item = "issues" /\ s.work.at >= at) => s.work.view[f] = v
    /\ (s.marked /\ s.batch.at >= at) => s.batch.view[f] = v

\* The event of that stamp says it, and there is or will be a row when its turn comes.
Tells(x, at, f, v) == x.item = "event" /\ x.at = at /\ f \in DOMAIN x.says /\ x.says[f] = v
RowBefore(s, r, i) == \/ r.at # 0 \/ s.work.item = "issues"
                      \/ \E j \in DOMAIN s.queue : j < i /\ s.queue[j] = Marker

\* It is stored, or an event or a batch that says it waits.
Coming(s, r, at, f, v) ==
    \/ r.at >= at /\ r[f] = v
    \/ r.at < at /\ \E i \in DOMAIN s.queue : Tells(s.queue[i], at, f, v) /\ RowBefore(s, r, i)
    \/ r.at < at /\ r.at # 0 /\ Tells(s.work, at, f, v)
    \/ s.marked /\ s.batch.at >= at
    \/ s.work.item = "issues" /\ s.work.at >= at
WillBe(s, n, r, f, v) == \E at \in 1..n : Agrees(s, at, f, v) /\ Coming(s, r, at, f, v)

\* What may still be read of an issue at rest.
AtRest ==
    /\ ~gh.open /\ ~lag.open /\ gh.state \in Rest /\ ~track.open /\ pc # "finish"
    /\ pc = "reread" => view.state = gh.state
    /\ pc = "sweep" => lag.state = gh.state

Running == pc \notin {"slack", "store", "down"}
Dated(s) == (s.marked => s.batch.at # 0) /\ (s.work.item = "issues" => s.work.at # 0)
Endless(s) == s.step # "done" /\ \A i \in DOMAIN s.queue : s.queue[i].item # "end"
Rowed(s, r) == r.at # 0 \/ s.work.item = "issues" \/ s.marked

\* A sink that goes on: what holds of its dates and its end holds still, and it has lost no
\* less and has no less of a row to come.
Carries(s, u) ==
    /\ Dated(s) => Dated(u)
    /\ Endless(s) => Endless(u)
    /\ (u.failed = 0 /\ u.dropped = 0) => (s.failed = 0 /\ s.dropped = 0)
    /\ (s.work.item = "issues" \/ s.marked) => (u.work.item = "issues" \/ u.marked)

\* What is no end joins the queue.
LEMMA JoinCarries ==
    ASSUME NEW s \in Sinks, NEW u \in Sinks, NEW x, x.item # "end", Joined(s, u, x),
           u.failed = s.failed, u.dropped = s.dropped
    PROVE  Carries(s, u)
  <1>1. /\ DOMAIN s.queue = 1..Len(s.queue) /\ Len(s.queue) \in Nat
        /\ DOMAIN u.queue = 1..(Len(s.queue) + 1)
        /\ \A i \in 1..Len(s.queue) : u.queue[i] = s.queue[i]
        /\ u.queue[Len(s.queue) + 1] = x
    BY SinkFields DEF Joined
  <1>2. Endless(s) => Endless(u)
    BY <1>1 DEF Endless, Joined, Joins
  <1> QED BY <1>2 DEF Carries, Dated, Joined, Joins

\* What an event does to a sink.
LEMMA EventCarries ==
    ASSUME NEW s \in Sinks, ~s.closed, NEW e \in Events, NEW u, u = HandleEvent(s, e)
    PROVE  /\ u \in Sinks /\ Carries(s, u) /\ ~u.closed
           /\ (u.failed = 0 /\ u.dropped = 0) => Joined(s, u, e)
  <1> DEFINE h == s.handled \cup {e.at}
             v == [s EXCEPT !.handled = h]
  <1>1. h \in SUBSET Nat /\ e \in Things /\ e.item # "end" /\ s.failed \in Nat /\ s.dropped \in Nat
    BY SinkFields, Kindly DEF Things
  <1>2. /\ v \in Sinks /\ Same(s, v) /\ v.closed = s.closed /\ v.failed = s.failed
        /\ v.dropped = s.dropped
    <2> HIDE DEF h
    <2> QED BY <1>1, SinkFields DEF Sinks, Same, Joins
  <1>3. u = IF Len(s.queue) >= QueueLimit THEN [v EXCEPT !.dropped = v.dropped + 1]
            ELSE [v EXCEPT !.queue = Append(v.queue, e)]
    BY <1>1, <1>2 DEF HandleEvent
  <1> HIDE DEF v, h
  <1>4. CASE Len(s.queue) >= QueueLimit
    <2> DEFINE d == v.dropped + 1
    <2>1. d \in Nat /\ d # 0 /\ u = [v EXCEPT !.dropped = d]
      BY <1>1, <1>2, <1>3, <1>4
    <2> HIDE DEF d
    <2>2. u \in Sinks /\ Same(s, u) /\ u.closed = s.closed /\ u.failed = s.failed /\ u.dropped = d
      BY <1>2, <2>1, SinkFields DEF Sinks, Same, Joins
    <2> QED BY <2>1, <2>2 DEF Carries, Dated, Endless, Same, Joins
  <1>5. CASE ~(Len(s.queue) >= QueueLimit)
    <2> DEFINE q == Append(v.queue, e)
    <2>1. q \in Seq(Things) /\ u = [v EXCEPT !.queue = q] /\ q = Append(s.queue, e)
      BY <1>1, <1>2, <1>3, <1>5, SinkFields DEF Same
    <2> HIDE DEF q
    <2>2. /\ u \in Sinks /\ u.queue = q /\ Joins(s, u) /\ u.closed = s.closed
          /\ u.failed = s.failed /\ u.dropped = s.dropped
      BY <1>2, <2>1, SinkFields DEF Sinks, Same, Joins
    <2>3. Joined(s, u, e)
      BY <2>1, <2>2 DEF Joined
    <2> QED BY <1>1, <2>2, <2>3, JoinCarries
  <1> QED BY <1>4, <1>5

\* What a view does to a sink.
LEMMA MergeCarries ==
    ASSUME NEW s \in Sinks, NEW a \in Views, NEW m \in Nat \ {0}, NEW u, u = Merge(s, a, m)
    PROVE  /\ u \in Sinks /\ Carries(s, u) /\ u.marked /\ u.failed = s.failed
           /\ u.dropped = s.dropped
  <1>1. /\ u \in Sinks /\ Merged(s, u, m)
    BY MergeIs
  <1>2. u.failed = s.failed /\ u.dropped = s.dropped
    BY DEF Merge, Sinks
  <1>3. Endless(s) => Endless(u)
    <2>1. CASE u.queue = s.queue
      BY <1>1, <2>1 DEF Endless, Merged
    <2>2. CASE u.queue = Append(s.queue, Marker)
      <3>1. /\ DOMAIN s.queue = 1..Len(s.queue) /\ Len(s.queue) \in Nat
            /\ DOMAIN u.queue = 1..(Len(s.queue) + 1)
            /\ \A i \in 1..Len(s.queue) : u.queue[i] = s.queue[i]
            /\ u.queue[Len(s.queue) + 1] = Marker
        BY <2>2, SinkFields
      <3> QED BY <1>1, <3>1, Kindly DEF Endless, Merged
    <2> QED BY <1>1, <2>1, <2>2 DEF Merged
  <1> QED BY <1>1, <1>2, <1>3 DEF Carries, Dated, Merged

\* What the track's read does to a sink.
LEMMA TrackCarries ==
    ASSUME NEW s \in Sinks, ~s.closed, NEW a \in Views, NEW m \in Nat \ {0}, NEW u,
           u = RecordTriageTrack(s, a, m)
    PROVE  /\ u \in Sinks /\ Carries(s, u)
           /\ (~a.open /\ u.failed = 0 /\ u.dropped = 0) => Joined(s, u, TrackRead(FALSE, m))
  <1> DEFINE listed == a.open /\ a.triage # "none"
             merged == IF listed THEN Merge(s, a, m) ELSE s
             x == TrackRead(listed, m)
  <1>1. /\ x \in Things /\ x.item # "end" /\ s.failed \in Nat /\ s.dropped \in Nat
        /\ a.open \in BOOLEAN
    BY SinkFields DEF Things, Tracks, TrackRead, Views
  <1>2. /\ merged \in Sinks /\ Carries(s, merged) /\ merged.failed = s.failed
        /\ merged.dropped = s.dropped
        /\ ~a.open => merged = s
    <2>1. CASE listed
      BY <2>1, MergeCarries
    <2>2. CASE ~listed
      BY <2>2 DEF Carries
    <2> QED BY <2>1, <2>2
  <1>3. ~a.open => x = TrackRead(FALSE, m)
    BY <1>1
  <1>4. u = IF Len(s.queue) >= QueueLimit THEN [s EXCEPT !.dropped = @ + 1]
            ELSE [merged EXCEPT !.queue = Append(@, x)]
    BY DEF RecordTriageTrack
  <1> HIDE DEF merged, x
  <1>5. CASE Len(s.queue) >= QueueLimit
    <2> DEFINE d == s.dropped + 1
    <2>1. d \in Nat /\ d # 0 /\ u = [s EXCEPT !.dropped = d]
      BY <1>1, <1>4, <1>5
    <2> HIDE DEF d
    <2>2. u \in Sinks /\ Same(s, u) /\ u.failed = s.failed /\ u.dropped = d
      BY <2>1, SinkFields DEF Sinks, Same, Joins
    <2> QED BY <2>1, <2>2 DEF Carries, Dated, Endless, Same, Joins
  <1>6. CASE ~(Len(s.queue) >= QueueLimit)
    <2> DEFINE q == Append(merged.queue, x)
    <2>1. q \in Seq(Things) /\ u = [merged EXCEPT !.queue = q]
      BY <1>1, <1>2, <1>4, <1>6, SinkFields
    <2> HIDE DEF q
    <2>2. /\ u \in Sinks /\ u.queue = q /\ Joins(merged, u)
          /\ u.failed = merged.failed /\ u.dropped = merged.dropped
      BY <1>2, <2>1, SinkFields DEF Sinks, Joins
    <2>3. Joined(merged, u, x)
      BY <2>2 DEF Joined, q
    <2>4. Carries(merged, u)
      BY <1>1, <1>2, <2>2, <2>3, JoinCarries
    <2>5. Carries(s, u)
      BY <1>2, <2>4 DEF Carries
    <2> QED BY <1>2, <1>3, <2>2, <2>3, <2>5
  <1> QED BY <1>5, <1>6

\* The task's hands carry what the queue had, while no end has come.
LEMMA TakeCarries ==
    ASSUME NEW s \in Sinks, NEW u \in Sinks, u = TakenFrom(s), s.queue # <<>>, s.work = Idle,
           Head(s.queue) = Marker => s.marked
    PROVE  Carries(s, u)
  <1> DEFINE w == [item |-> "issues", at |-> s.batch.at, view |-> s.batch.view]
             t == Tail(s.queue)
             h == Head(s.queue)
  <1>1. /\ s.queue \in Seq(Things) /\ Len(s.queue) \in Nat /\ DOMAIN s.queue = 1..Len(s.queue)
        /\ 1 \in DOMAIN s.queue /\ h = s.queue[1] /\ h \in Things
        /\ DOMAIN t = 1..(Len(s.queue) - 1)
        /\ \A i \in DOMAIN t : t[i] = s.queue[i + 1] /\ i + 1 \in DOMAIN s.queue
    BY SinkFields
  <1>2. /\ w.item = "issues" /\ w.at = s.batch.at /\ s.work.item # "issues"
        /\ h.item = "issues" => s.marked
    BY <1>1, Kindly DEF Things
  <1> HIDE DEF w, t, h
  <1>3. CASE h.item = "end"
    <2>1. ~Endless(s)
      BY <1>1, <1>3 DEF Endless
    <2>2. u = [s EXCEPT !.queue = t, !.step = "done"]
      BY <1>3 DEF TakenFrom, t, h
    <2>3. /\ u.failed = s.failed /\ u.dropped = s.dropped /\ u.marked = s.marked
          /\ u.batch = s.batch /\ u.work = s.work
      BY <2>2 DEF Sinks
    <2> QED BY <2>1, <2>3 DEF Carries, Dated
  <1>4. CASE h.item # "end"
    <2>1. u.step # "done" /\ u.queue = t /\ u.failed = s.failed /\ u.dropped = s.dropped
          /\ \/ h.item = "issues" /\ u.work = w /\ ~u.marked
             \/ h.item # "issues" /\ u.work = h /\ u.marked = s.marked /\ u.batch = s.batch
      <3>1. CASE h.item = "issues"
        <4>1. u = [s EXCEPT !.queue = t, !.step = "write", !.batch = NoBatch, !.marked = FALSE,
                            !.work = w]
          BY <1>4, <3>1 DEF TakenFrom, t, h, w
        <4> DEFINE v == [s EXCEPT !.batch = NoBatch, !.marked = FALSE]
        <4>2. /\ v.failed = s.failed /\ v.dropped = s.dropped /\ ~v.marked /\ DOMAIN v = DOMAIN s
          BY DEF Sinks
        <4>3. u = [v EXCEPT !.queue = t, !.step = "write", !.work = w]
          BY <4>1 DEF Sinks
        <4> HIDE DEF v
        <4> QED BY <3>1, <4>2, <4>3 DEF Sinks
      <3>2. CASE h.item # "issues"
        <4>1. u = [s EXCEPT !.queue = t, !.step = "write", !.work = h]
          BY <1>4, <3>2 DEF TakenFrom, t, h
        <4> QED BY <3>2, <4>1 DEF Sinks
      <3> QED BY <3>1, <3>2
    <2>2. Endless(s) => Endless(u)
      BY <1>1, <2>1 DEF Endless
    <2>3. Dated(s) => Dated(u)
      BY <1>2, <2>1 DEF Dated
    <2> QED BY <1>2, <2>1, <2>2, <2>3 DEF Carries
  <1> QED BY <1>3, <1>4

\* What will be told of a field is so still at a later time, of a sink that looks the same.
LEMMA SameWillBe ==
    ASSUME NEW s, NEW u, Same(s, u), NEW n \in Nat, NEW m \in Nat, n <= m, NEW r, NEW f, NEW v,
           WillBe(s, n, r, f, v)
    PROVE  WillBe(u, m, r, f, v)
  <1>1. PICK at \in 1..n : Agrees(s, at, f, v) /\ Coming(s, r, at, f, v)
    BY DEF WillBe
  <1>2. at \in 1..m
    BY <1>1
  <1>3. Agrees(u, at, f, v)
    BY <1>1 DEF Agrees, Same, Joins
  <1>4. Coming(u, r, at, f, v)
    BY <1>1 DEF Coming, RowBefore, Same, Joins
  <1> QED BY <1>2, <1>3, <1>4 DEF WillBe

\* What joins the queue and does not tell of the field changes nothing of it.
LEMMA JoinedWillBe ==
    ASSUME NEW s \in Sinks, NEW u, NEW x, Joined(s, u, x), NEW n \in Nat, NEW m \in Nat, n <= m,
           NEW r, NEW f, NEW v, WillBe(s, n, r, f, v),
           x.item = "event" => f \notin DOMAIN x.says
    PROVE  WillBe(u, m, r, f, v)
  <1> DEFINE l == Len(s.queue)
  <1>1. /\ DOMAIN s.queue = 1..l /\ l \in Nat /\ DOMAIN u.queue = 1..(l + 1)
        /\ \A i \in 1..l : u.queue[i] = s.queue[i]
        /\ u.queue[l + 1] = x
    BY SinkFields DEF Joined
  <1>2. PICK at \in 1..n : Agrees(s, at, f, v) /\ Coming(s, r, at, f, v)
    BY DEF WillBe
  <1>3. at \in 1..m /\ DOMAIN s.queue \subseteq DOMAIN u.queue
    BY <1>1, <1>2
  <1>4. \A i \in DOMAIN u.queue : i \in DOMAIN s.queue \/ u.queue[i] = x
    BY <1>1
  <1> HIDE DEF l
  <1>5. Agrees(u, at, f, v)
    BY <1>1, <1>2, <1>4 DEF Agrees, Joined, Joins
  <1>6. \A i \in DOMAIN s.queue : RowBefore(s, r, i) => RowBefore(u, r, i)
    BY <1>1, <1>3 DEF RowBefore, Joined, Joins
  <1>7. Coming(u, r, at, f, v)
    BY <1>1, <1>2, <1>3, <1>6 DEF Coming, Joined, Joins
  <1> QED BY <1>3, <1>5, <1>7 DEF WillBe

\* A batch that says it brings it.
LEMMA MergedWillBe ==
    ASSUME NEW s \in Sinks, NEW u, NEW n \in Nat, NEW m \in Nat, n < m, Merged(s, u, m),
           NEW r, NEW f, NEW v, WillBe(s, n, r, f, v), u.batch.view[f] = v
    PROVE  WillBe(u, m, r, f, v)
  <1>1. PICK at \in 1..n : Agrees(s, at, f, v)
    BY DEF WillBe
  <1>2. at \in 1..m /\ at <= m
    BY <1>1
  <1>3. \A i \in DOMAIN u.queue : \/ i \in DOMAIN s.queue /\ u.queue[i] = s.queue[i]
                                  \/ u.queue[i] = Marker
    <2>1. CASE u.queue = s.queue
      BY <2>1
    <2>2. CASE u.queue = Append(s.queue, Marker)
      <3>1. /\ DOMAIN s.queue = 1..Len(s.queue) /\ Len(s.queue) \in Nat
            /\ DOMAIN u.queue = 1..(Len(s.queue) + 1)
            /\ \A i \in 1..Len(s.queue) : u.queue[i] = s.queue[i]
            /\ u.queue[Len(s.queue) + 1] = Marker
        BY <2>2, SinkFields
      <3> QED BY <3>1
    <2> QED BY <2>1, <2>2 DEF Merged
  <1>4. Agrees(u, at, f, v)
    BY <1>1, <1>3, Kindly DEF Agrees, Merged
  <1>5. Coming(u, r, at, f, v)
    BY <1>2 DEF Coming, Merged
  <1> QED BY <1>2, <1>4, <1>5 DEF WillBe

\* Taken into hand, it comes as it waited.
LEMMA TakenWillBe ==
    ASSUME NEW s, NEW n, NEW r, NEW t, SinkInv(s, n, r, t), Endless(s), s.work = Idle,
           s.queue # <<>>, NEW f, NEW v, WillBe(s, n, r, f, v), NEW u, u = TakenFrom(s)
    PROVE  WillBe(u, n, r, f, v)
  <1> DEFINE q == s.queue
             l == Len(q)
             w == [item |-> "issues", at |-> s.batch.at, view |-> s.batch.view]
             p == Tail(q)
             h == Head(q)
  <1>1. /\ s \in Sinks /\ q \in Seq(Things) /\ l \in Nat /\ DOMAIN q = 1..l /\ 1 \in DOMAIN q
        /\ h = q[1] /\ h \in Things
        /\ DOMAIN p = 1..(l - 1) /\ \A i \in 1..(l - 1) : p[i] = q[i + 1] /\ i + 1 \in DOMAIN q
    BY SinkFields DEF SinkInv
  <1>2. PICK at \in 1..n : Agrees(s, at, f, v) /\ Coming(s, r, at, f, v)
    BY DEF WillBe
  <1>3. h.item # "end" /\ s.work.item \notin {"event", "issues"}
    BY <1>1, Kindly DEF Endless
  <1>4. \A i \in DOMAIN q : i = 1 \/ (i - 1 \in DOMAIN p /\ p[i - 1] = q[i])
    BY <1>1
  <1>5. \A i \in DOMAIN p : \E j \in DOMAIN q : p[i] = q[j]
    BY <1>1
  <1>6. w.item = "issues" /\ w.at = s.batch.at /\ w.view = s.batch.view
    OBVIOUS
  <1>7. CASE h.item = "issues"
    <2>1. u = [s EXCEPT !.queue = p, !.step = "write", !.batch = NoBatch, !.marked = FALSE,
                        !.work = w]
      BY <1>7 DEF TakenFrom
    <2>2. u.queue = p /\ ~u.marked /\ u.work = w
      <3> DEFINE x == [s EXCEPT !.batch = NoBatch, !.marked = FALSE]
      <3>1. ~x.marked /\ DOMAIN x = DOMAIN s
        BY <1>1 DEF Sinks
      <3>2. u = [x EXCEPT !.queue = p, !.step = "write", !.work = w]
        <4> HIDE DEF p, w
        <4> QED BY <1>1, <2>1 DEF Sinks
      <3> HIDE DEF x, p, w
      <3> QED BY <1>1, <3>1, <3>2 DEF Sinks
    <2>3. s.marked
      <3>1. h = Marker
        BY <1>1, <1>7, Kindly DEF Things
      <3> QED BY <1>1, <3>1 DEF SinkInv, MarkerStands
    <2> HIDE DEF p, w, q, h, l
    <2>4. Agrees(u, at, f, v)
      BY <1>2, <1>5, <1>6, <2>2, <2>3 DEF Agrees, q
    <2>5. \A i \in DOMAIN q : Tells(q[i], at, f, v) => \E j \in DOMAIN p : Tells(p[j], at, f, v)
      BY <1>1, <1>4, <1>7 DEF Tells
    <2>6. Coming(u, r, at, f, v)
      BY <1>2, <1>3, <1>6, <2>2, <2>5 DEF Coming, RowBefore, Tells, q
    <2> QED BY <1>2, <2>4, <2>6 DEF WillBe
  <1>8. CASE h.item # "issues"
    <2>1. u = [s EXCEPT !.queue = p, !.step = "write", !.work = h]
      BY <1>3, <1>8 DEF TakenFrom
    <2>2. u.queue = p /\ u.marked = s.marked /\ u.batch = s.batch /\ u.work = h
      <3> HIDE DEF p, h
      <3> QED BY <1>1, <2>1 DEF Sinks
    <2>3. Agrees(u, at, f, v)
      <3> HIDE DEF p, h, l
      <3> QED BY <1>1, <1>2, <1>5, <1>8, <2>2 DEF Agrees
    <2>4. Coming(u, r, at, f, v)
      <3>1. CASE r.at < at /\ \E i \in DOMAIN q : Tells(q[i], at, f, v) /\ RowBefore(s, r, i)
        <4>1. PICK i \in DOMAIN q : Tells(q[i], at, f, v) /\ RowBefore(s, r, i)
          BY <3>1
        <4>2. CASE i = 1
          <5>1. r.at # 0
            <6>1. ~\E j \in DOMAIN q : j < 1
              BY <1>1
            <6> QED BY <4>1, <4>2, <6>1, <1>3 DEF RowBefore
          <5> QED BY <1>1, <2>2, <3>1, <4>1, <4>2, <5>1 DEF Coming
        <4>3. CASE i # 1
          <5>1. i - 1 \in DOMAIN p /\ Tells(p[i - 1], at, f, v)
            BY <1>4, <4>1, <4>3
          <5>2. RowBefore(u, r, i - 1)
            <6>1. CASE r.at # 0
              BY <6>1 DEF RowBefore
            <6>2. CASE \E j \in DOMAIN q : j < i /\ q[j] = Marker
              <7>1. PICK j \in DOMAIN q : j < i /\ q[j] = Marker
                BY <6>2
              <7>2. j # 1
                BY <1>1, <1>8, <7>1, Kindly
              <7>3. j - 1 \in DOMAIN p /\ p[j - 1] = Marker
                BY <1>4, <7>1, <7>2
              <7>4. j - 1 < i - 1
                BY <1>1, <4>1, <7>1
              <7> HIDE DEF p
              <7> QED BY <2>2, <7>3, <7>4 DEF RowBefore
            <6> QED BY <1>3, <4>1, <6>1, <6>2 DEF RowBefore
          <5> HIDE DEF p
          <5> QED BY <2>2, <3>1, <5>1, <5>2 DEF Coming
        <4> QED BY <4>2, <4>3
      <3>2. CASE (r.at >= at /\ r[f] = v) \/ (s.marked /\ s.batch.at >= at)
        <4> HIDE DEF p, h
        <4> QED BY <2>2, <3>2 DEF Coming
      <3> QED BY <1>2, <1>3, <3>1, <3>2 DEF Coming, Tells
    <2> QED BY <1>2, <2>3, <2>4 DEF WillBe
  <1> QED BY <1>7, <1>8

\* What a write of the work leaves in the row.
LEMMA RowWritten ==
    ASSUME NEW w \in Works, w # Idle, StoreOK(row, told), Write(w), NEW f \in {"state", "open"},
           Behind(row, told, w.at) \/ (Stamped(w) /\ Passed(row, told, w.at))
    PROVE  /\ w.item = "issues" => row'.at = w.at /\ row'[f] = w.view[f]
           /\ w.item # "issues" => /\ row.at # 0 => row'.at # 0
                                   /\ row'.at >= row.at
                                   /\ (row'.at = row.at /\ row'[f] = row[f])
                                      \/ (w.item = "event" /\ row'.at = w.at /\ row.at <= w.at
                                          /\ row'[f] = (IF f \in DOMAIN w.says THEN w.says[f] ELSE row[f]))
           /\ (w.item = "event" /\ row.at # 0 /\ row.at <= w.at) =>
                /\ row'.at = w.at
                /\ row'[f] = (IF f \in DOMAIN w.says THEN w.says[f] ELSE row[f])
  <1>1. /\ DOMAIN row = Fields \cup {"at"} /\ row.at \in Nat /\ f \in Fields /\ f # "at"
        /\ f # "triage" /\ w.at \in Nat
    BY StampedThings DEF StoreOK, Fields
  <1>2. CASE w \in Events
    <2>1. w.item = "event" /\ row' = Updated(row, w.says, w.at)
      BY <1>2, Kindly DEF Write
    <2>2. CASE row.at # 0 /\ row.at <= w.at
      <3>1. row' = [g \in Fields \cup {"at"} |-> IF g = "at" THEN w.at
                                                 ELSE IF g \in DOMAIN w.says THEN w.says[g] ELSE row[g]]
        BY <2>1, <2>2 DEF Updated, NotOlder
      <3> QED BY <1>1, <2>1, <2>2, <3>1
    <2>3. CASE ~(row.at # 0 /\ row.at <= w.at)
      <3>1. row' = row
        BY <2>1, <2>3 DEF Updated, NotOlder
      <3> QED BY <1>1, <2>1, <2>3, <3>1
    <2> QED BY <2>2, <2>3
  <1>3. CASE w \in Tracks
    <2>1. w.item = "track" /\ row' = Reconciled(row, w.listed, w.at)
      BY <1>3, Kindly DEF Write
    <2>2. row'.at = row.at /\ row'[f] = row[f]
      BY <1>1, <2>1 DEF Reconciled
    <2> QED BY <1>1, <2>1, <2>2
  <1>4. CASE w \in Batches
    <2>1. w.item = "issues" /\ row' = Upserted(row, w) /\ ~Stamped(w)
      BY <1>4, Kindly DEF Write, Stamped
    <2>2. row' = [g \in Fields \cup {"at"} |-> IF g = "at" THEN w.at ELSE w.view[g]]
      BY <2>1 DEF Upserted, NotOlder, Behind
    <2> QED BY <1>1, <2>1, <2>2
  <1> QED BY <1>2, <1>3, <1>4, StampedThings

\* After the write of a work that waited, it is stored or comes still.
LEMMA WrittenWillBe ==
    ASSUME NEW n, SinkInv(sink, n, row, told), Dated(sink), sink.step = "write",
           Write(sink.work), NEW f \in {"state", "open"}, NEW v, WillBe(sink, n, row, f, v),
           NEW u, u.queue = sink.queue, u.batch = sink.batch, u.marked = sink.marked,
           u.work = sink.work \/ u.work = Idle
    PROVE  WillBe(u, n, row', f, v)
  <1> DEFINE w == sink.work
  <1>1. /\ w \in Works /\ w # Idle /\ w.at \in Nat /\ row.at \in Nat /\ n \in Nat
        /\ StoreOK(row, told) /\ sink.batch.at \in Nat
        /\ Behind(row, told, w.at) \/ (Stamped(w) /\ Passed(row, told, w.at))
        /\ u.work.item \in {w.item, "idle"} /\ u.work \in {w, Idle}
    <2>1. w \in Works /\ w # Idle /\ StoreOK(row, told) /\ n \in Nat
      BY SinkFields DEF SinkInv, WorkInTurn
    <2>2. w.at \in Nat /\ sink.batch.at \in Nat /\ row.at \in Nat
      BY <2>1, StampedThings, SinkFields DEF SinkInv, StoreOK
    <2> QED BY <2>1, <2>2, Kindly DEF SinkInv, WorkInTurn
  <1>2. PICK at \in 1..n : Agrees(sink, at, f, v) /\ Coming(sink, row, at, f, v)
    BY DEF WillBe
  <1>3. /\ w.item = "issues" => row'.at = w.at /\ row'[f] = w.view[f]
        /\ w.item # "issues" => /\ row.at # 0 => row'.at # 0
                                /\ row'.at >= row.at
                                /\ (row'.at = row.at /\ row'[f] = row[f])
                                   \/ (w.item = "event" /\ row'.at = w.at /\ row.at <= w.at
                                       /\ row'[f] = (IF f \in DOMAIN w.says THEN w.says[f] ELSE row[f]))
        /\ (w.item = "event" /\ row.at # 0 /\ row.at <= w.at) =>
             /\ row'.at = w.at
             /\ row'[f] = (IF f \in DOMAIN w.says THEN w.says[f] ELSE row[f])
    BY <1>1, RowWritten
  <1>4. Agrees(u, at, f, v)
    BY <1>1, <1>2, Kindly DEF Agrees
  <1>5. row'.at \in Nat
    BY <1>1, <1>3
  <1>6. /\ (w.item = "event" /\ w.at >= at /\ f \in DOMAIN w.says) => w.says[f] = v
        /\ (w.item = "issues" /\ w.at >= at) => w.view[f] = v
    BY <1>2 DEF Agrees
  <1>7. w.item = "issues" => w.at # 0
    BY DEF Dated
  <1>8. CASE row.at >= at /\ row[f] = v
    <2>1. row'.at >= at /\ row'[f] = v
      <3>1. CASE w.item = "issues"
        <4>1. row.at <= w.at
          BY <1>1, <3>1 DEF Stamped, Behind
        <4> QED BY <1>1, <1>2, <1>3, <1>6, <1>8, <3>1, <4>1
      <3>2. CASE w.item # "issues"
        BY <1>1, <1>2, <1>3, <1>5, <1>6, <1>8, <3>2
      <3> QED BY <3>1, <3>2
    <2> QED BY <1>2, <1>4, <2>1 DEF WillBe, Coming
  <1>9. CASE row.at < at /\ \E i \in DOMAIN sink.queue : Tells(sink.queue[i], at, f, v)
                                                       /\ RowBefore(sink, row, i)
    <2>1. PICK i \in DOMAIN sink.queue : Tells(sink.queue[i], at, f, v) /\ RowBefore(sink, row, i)
      BY <1>9
    <2>2. RowBefore(u, row', i)
      BY <1>1, <1>3, <1>7, <2>1 DEF RowBefore
    <2>3. CASE row'.at < at
      BY <1>2, <1>4, <2>1, <2>2, <2>3 DEF WillBe, Coming
    <2>4. CASE row'.at >= at
      <3>1. row'[f] = v
        <4>1. Stamped(w) => w.at < sink.queue[i].at
          BY <2>1 DEF SinkInv, InOrder, Tells, Stamped
        <4>2. w.item = "event" => w.at < at
          BY <2>1, <4>1 DEF Tells, Stamped
        <4> QED BY <1>1, <1>2, <1>3, <1>5, <1>6, <1>9, <2>4, <4>2
      <3> QED BY <1>2, <1>4, <2>4, <3>1 DEF WillBe, Coming
    <2> QED BY <1>2, <1>5, <2>3, <2>4
  <1>10. CASE row.at < at /\ row.at # 0 /\ Tells(w, at, f, v)
    <2>1. row'.at = at /\ row'[f] = v
      BY <1>1, <1>2, <1>3, <1>10 DEF Tells
    <2> QED BY <1>2, <1>4, <2>1 DEF WillBe, Coming
  <1>11. CASE sink.marked /\ sink.batch.at >= at
    BY <1>2, <1>4, <1>11 DEF WillBe, Coming
  <1>12. CASE w.item = "issues" /\ w.at >= at
    BY <1>2, <1>3, <1>4, <1>6, <1>12 DEF WillBe, Coming
  <1> QED BY <1>2, <1>8, <1>9, <1>10, <1>11, <1>12 DEF Coming

\* An event newer than all that waits brings what it says, if there is or will be a row.
LEMMA EventWillBe ==
    ASSUME NEW s, NEW n, NEW r, NEW t, SinkInv(s, n, r, t), Endless(s), Rowed(s, r),
           NEW e \in Events, e.at = n + 1, NEW f \in DOMAIN e.says, NEW u, Joined(s, u, e)
    PROVE  WillBe(u, n + 1, r, f, e.says[f])
  <1> DEFINE l == Len(s.queue)
             at == n + 1
  <1>1. /\ s \in Sinks /\ n \in Nat /\ at \in 1..at /\ r.at \in Nat /\ r.at <= n /\ r.at < at
        /\ DOMAIN s.queue = 1..l /\ l \in Nat /\ DOMAIN u.queue = 1..(l + 1)
        /\ \A i \in 1..l : u.queue[i] = s.queue[i] /\ s.queue[i] \in Things
        /\ u.queue[l + 1] = e
    BY SinkFields DEF SinkInv, StoreOK, Behind, Joined
  <1>2. Older(s, n)
    BY AllOlder
  <1>3. \A i \in 1..l : s.queue[i].item = "event" => s.queue[i].at < at
    BY <1>1, <1>2, StampedThings DEF Older, Stamped
  <1>4. s.work.item \in {"event", "issues"} => s.work.at < at
    BY <1>1, <1>2, SinkFields, StampedThings, Kindly DEF Older
  <1>5. s.marked => s.batch.at < at
    BY <1>1, SinkFields DEF SinkInv, MarkerStands
  <1>6. s.work.item \in {"event", "issues"} => s.work.at \in Nat
    BY <1>1, SinkFields, StampedThings, Kindly
  <1>7. Agrees(u, at, f, e.says[f])
    <2>1. \A i \in 1..(l + 1) : (u.queue[i].item = "event" /\ u.queue[i].at >= at) => u.queue[i] = e
      <3> SUFFICES ASSUME NEW i \in 1..(l + 1), u.queue[i].item = "event", u.queue[i].at >= at
                   PROVE  u.queue[i] = e
        OBVIOUS
      <3>1. CASE i \in 1..l
        <4>1. u.queue[i] = s.queue[i] /\ s.queue[i].at < at /\ s.queue[i].at \in Nat
          BY <1>1, <1>3, <3>1, StampedThings DEF Stamped
        <4> QED BY <1>1, <4>1
      <3>2. CASE i = l + 1
        BY <1>1, <3>2
      <3> QED BY <1>1, <3>1, <3>2
    <2>2. u.work = s.work /\ u.marked = s.marked /\ u.batch = s.batch /\ s.batch.at \in Nat
      BY <1>1, SinkFields DEF Joined, Joins
    <2>3. ~(u.work.item \in {"event", "issues"} /\ u.work.at >= at)
      BY <1>1, <1>4, <1>6, <2>2
    <2>4. ~(u.marked /\ u.batch.at >= at)
      BY <1>1, <1>5, <2>2
    <2> HIDE DEF l, at
    <2> QED BY <1>1, <2>1, <2>3, <2>4 DEF Agrees
  <1>8. Tells(u.queue[l + 1], at, f, e.says[f]) /\ l + 1 \in DOMAIN u.queue
    BY <1>1, Kindly DEF Tells
  <1>9. RowBefore(u, r, l + 1)
    <2>1. CASE r.at # 0 \/ s.work.item = "issues"
      BY <2>1 DEF RowBefore, Joined, Joins
    <2>2. CASE s.marked
      <3>1. PICK j \in 1..l : s.queue[j] = Marker
        BY <1>1, <2>2 DEF SinkInv, MarkerStands, Endless
      <3>2. j \in DOMAIN u.queue /\ j < l + 1 /\ u.queue[j] = Marker
        BY <1>1, <3>1
      <3> QED BY <3>2 DEF RowBefore
    <2> QED BY <2>1, <2>2 DEF Rowed
  <1> HIDE DEF l, at
  <1> QED BY <1>1, <1>7, <1>8, <1>9 DEF WillBe, Coming, at

\* finish_terminal tells of the move and of the close, of an issue there is or will be a row of.
LEMMA FinishWillBe ==
    ASSUME NEW s, NEW n, NEW r, NEW t, SinkInv(s, n, r, t), Endless(s), ~s.closed,
           NEW e \in Events, e.at = n + 1, NEW rest \in Rest, e.says = [state |-> rest],
           NEW g \in Events, g.at = n + 2, g.says = [open |-> FALSE],
           NEW u, u = HandleEvent(HandleEvent(s, e), g)
    PROVE  /\ u \in Sinks /\ Carries(s, u)
           /\ (u.failed = 0 /\ u.dropped = 0 /\ Rowed(s, r)) =>
                /\ WillBe(u, n + 2, r, "state", rest)
                /\ WillBe(u, n + 2, r, "open", FALSE)
  <1> DEFINE x == HandleEvent(s, e)
  <1>1. s \in Sinks /\ n \in Nat /\ n + 1 \in Nat /\ n + 2 \in Nat /\ n + 2 = (n + 1) + 1 /\ n + 1 <= n + 2
    BY DEF SinkInv
  <1>2. /\ x \in Sinks /\ Carries(s, x) /\ ~x.closed
        /\ (x.failed = 0 /\ x.dropped = 0) => Joined(s, x, e)
    BY <1>1, EventCarries
  <1>3. SinkInv(x, n + 1, r, t)
    BY EventHandled
  <1>4. u = HandleEvent(x, g)
    OBVIOUS
  <1> HIDE DEF x
  <1>5. /\ u \in Sinks /\ Carries(x, u)
        /\ (u.failed = 0 /\ u.dropped = 0) => Joined(x, u, g)
    BY <1>2, <1>4, EventCarries
  <1>6. Carries(s, u)
    BY <1>2, <1>5 DEF Carries
  <1>7. ASSUME u.failed = 0, u.dropped = 0, Rowed(s, r)
        PROVE  /\ WillBe(u, n + 2, r, "state", rest)
               /\ WillBe(u, n + 2, r, "open", FALSE)
    <2>1. Joined(x, u, g) /\ Joined(s, x, e)
      BY <1>2, <1>5, <1>7 DEF Carries
    <2>2. "state" \in DOMAIN e.says /\ e.says["state"] = rest
      OBVIOUS
    <2>3. WillBe(x, n + 1, r, "state", rest)
      <3>1. WillBe(x, n + 1, r, "state", e.says["state"])
        BY <1>7, <2>1, <2>2, EventWillBe
      <3> QED BY <2>2, <3>1
    <2>4. "state" \notin DOMAIN g.says /\ "open" \in DOMAIN g.says /\ g.says["open"] = FALSE
      OBVIOUS
    <2>5. WillBe(u, n + 2, r, "state", rest)
      BY <1>1, <1>2, <2>1, <2>3, <2>4, JoinedWillBe
    <2>6. Rowed(x, r) /\ Endless(x)
      BY <1>2, <1>7 DEF Carries, Rowed
    <2>7. WillBe(u, n + 2, r, "open", FALSE)
      <3>1. g.at = (n + 1) + 1
        BY <1>1
      <3>2. WillBe(u, (n + 1) + 1, r, "open", g.says["open"])
        BY <1>3, <2>1, <2>4, <2>6, <3>1, EventWillBe
      <3> QED BY <1>1, <2>4, <3>2
    <2> QED BY <2>5, <2>7
  <1> QED BY <1>5, <1>6, <1>7

\* Where the tick is, and what it may still read of an issue at rest.
Placed == pc \in {"sweep", "finish", "slack", "store", "down"} => track = Nothing

\* Until somebody moves it, no tick reads an issue at rest otherwise.
LEMMA AtRestStep ==
    ASSUME ProcessOK, Placed, resting => AtRest, [Next]_vars
    PROVE  Placed' /\ (resting => AtRest)'
  <1> USE DEF Placed, AtRest
  <1>1. Rest \cap Board = {} /\ ~Nothing.open
    BY DEF Rest, Board, Nothing
  <1>2. CASE HumanActs
    BY <1>2 DEF HumanActs
  <1>3. CASE Sweep
    <2>1. resting => pc' = "track"
      BY <1>1, <1>3 DEF Sweep, Answers
    <2> QED BY <1>3, <2>1 DEF Sweep
  <1>4. CASE Finish
    <2>1. CASE resting'
      <3>1. PICK rest \in Rest : /\ gh' = [gh EXCEPT !.state = rest] /\ lag' = gh /\ ~gh.open
                                 /\ view' = [view EXCEPT !.state = rest] /\ pc' = "reread"
                                 /\ track' = track
        BY <1>4, <2>1 DEF Finish
      <3>2. gh'.state = rest /\ ~gh'.open /\ view'.state = rest /\ gh.open \in BOOLEAN
        BY <3>1 DEF ProcessOK, Issues, Views
      <3>3. track = Nothing
        BY <1>4 DEF Finish
      <3> QED BY <1>1, <2>1, <3>1, <3>2, <3>3
    <2>2. CASE ~resting'
      BY <1>4, <2>2 DEF Finish
    <2> QED BY <2>1, <2>2
  <1>5. CASE ReportMoved
    BY <1>5 DEF ReportMoved
  <1>6. CASE ReadTriageTrack
    BY <1>1, <1>6 DEF ReadTriageTrack, Answers
  <1>7. CASE FetchIssues
    BY <1>7 DEF FetchIssues
  <1>8. CASE ObserveTriageTrack
    BY <1>1, <1>8 DEF ObserveTriageTrack
  <1>9. CASE Claim
    BY <1>9 DEF Claim
  <1>10. CASE FileVerdict
    <2>1. /\ gh' = [gh EXCEPT !.triage = "complete"] /\ lag' = gh
          /\ UNCHANGED <<pc, view, track, resting>>
      BY <1>10 DEF FileVerdict
    <2>2. gh'.state = gh.state /\ gh'.open = gh.open
      BY <2>1 DEF ProcessOK, Issues
    <2> QED BY <2>1, <2>2
  <1>11. CASE NextTick
    BY <1>1, <1>11 DEF NextTick
  <1>12. CASE Take \/ Connect \/ Apply \/ SlackTake \/ Post
    BY <1>12 DEF Take, Connect, Apply, SlackTake, Post
  <1>13. CASE CloseSlack
    BY <1>1, <1>13 DEF CloseSlack
  <1>14. CASE SlackDrains \/ SlackTimesOut
    BY <1>14 DEF SlackDrains, SlackTimesOut, CloseStore
  <1>15. CASE SinkDrains \/ SinkTimesOut
    BY <1>15 DEF SinkDrains, SinkTimesOut, End
  <1>16. CASE Crash \/ Restart
    BY <1>16 DEF Crash, Restart
  <1>17. CASE UNCHANGED vars
    BY <1>17 DEF vars
  <1> QED
    BY <1>2, <1>3, <1>4, <1>5, <1>6, <1>7, <1>8, <1>9, <1>10, <1>11, <1>12, <1>13, <1>14, <1>15,
       <1>16, <1>17 DEF Next

\* What RestInv says of the sink, and of the row it will leave.
SinkGoesOn ==
    /\ Dated(sink)
    /\ pc \notin {"store", "down"} => Endless(sink)
    /\ (pc = "finish" /\ Lossless) => Rowed(sink, row)
AllWillBe ==
    (resting /\ Running /\ Lossless) =>
        /\ WillBe(sink, now, row, "state", gh.state)
        /\ WillBe(sink, now, row, "open", FALSE)
RestOK == SinkGoesOn /\ AllWillBe
RestInv == LossInv /\ Placed /\ (resting => AtRest) /\ RestOK

\* A step that only tells the sink something.
LEMMA CarriedOn ==
    ASSUME SinkGoesOn, Carries(sink, sink'), UNCHANGED row,
           pc' \notin {"store", "down"} => pc \notin {"store", "down"},
           pc' = "finish" => pc = "finish" \/ sink'.marked
    PROVE  SinkGoesOn' /\ (Lossless' => Lossless)
  BY DEF SinkGoesOn, Carries, Rowed, Lossless

\* A step that leaves the sink alone.
LEMMA LeftAlone ==
    ASSUME RestOK, UNCHANGED <<sink, row>>, now \in Nat, now' \in Nat, now <= now',
           pc' \notin {"store", "down"} => pc \notin {"store", "down"},
           pc' = "finish" => pc = "finish",
           resting' => (resting /\ gh'.state = gh.state), Running' => Running
    PROVE  RestOK'
  <1>1. Carries(sink, sink') /\ Same(sink, sink')
    BY DEF Carries, Same, Joins
  <1>2. SinkGoesOn' /\ (Lossless' => Lossless)
    BY <1>1, CarriedOn DEF RestOK
  <1>3. ASSUME resting', Running', Lossless'
        PROVE  /\ WillBe(sink', now', row', "state", gh'.state)
               /\ WillBe(sink', now', row', "open", FALSE)
    BY <1>1, <1>2, <1>3, SameWillBe DEF RestOK, AllWillBe
  <1> QED BY <1>2, <1>3 DEF RestOK, AllWillBe

\* A write, its refusal, and its trying again.
LEMMA ApplyGoesOn ==
    ASSUME StoreInv, RestOK, Apply
    PROVE  RestOK'
  <1> DEFINE done == [sink EXCEPT !.step = "get", !.work = Idle]
             kept == Kept(sink)
             w == sink.work
  <1>1. /\ SinkInv(sink, now, row, told) /\ sink \in Sinks /\ now \in Nat /\ now <= now
        /\ WorkInTurn(sink, now, row, told) /\ StoreOK(row, told)
    BY DEF StoreInv, SinkInv, ProcessOK
  <1>2. /\ sink.step = "write" /\ UNCHANGED <<pc, gh, now, resting>>
        /\ \/ Write(w) /\ sink' = done
           \/ Unwritten /\ sink' = [done EXCEPT !.failed = @ + 1]
           \/ (Write(w) \/ Unwritten) /\ sink' = kept
    BY DEF Apply
  <1>3. /\ done \in Sinks /\ done.queue = sink.queue /\ done.batch = sink.batch
        /\ done.marked = sink.marked /\ done.work = Idle /\ done.step = "get"
        /\ done.failed = sink.failed /\ done.dropped = sink.dropped
    BY <1>1, ApplyFields
  <1>4. /\ kept \in Sinks /\ Same(sink, kept)
        /\ kept.failed = sink.failed /\ kept.dropped = sink.dropped
    BY <1>1, ApplyFields
  <1>5. /\ w \in Works /\ w # Idle
        /\ Behind(row, told, w.at) \/ (Stamped(w) /\ Passed(row, told, w.at))
        /\ Idle.item = "idle"
    BY <1>1, <1>2, SinkFields, Kindly DEF WorkInTurn
  <1> HIDE DEF done, kept
  <1>6. CASE Unwritten /\ sink' = kept
    <2>1. Carries(sink, sink')
      BY <1>4, <1>6 DEF Carries, Same, Joins, Dated, Endless
    <2>2. SinkGoesOn' /\ (Lossless' => Lossless)
      BY <1>2, <1>6, <2>1, CarriedOn DEF RestOK, Unwritten
    <2>3. ASSUME resting', Running', Lossless'
          PROVE  /\ WillBe(sink', now', row', "state", gh'.state)
                 /\ WillBe(sink', now', row', "open", FALSE)
      BY <1>1, <1>2, <1>4, <1>6, <2>2, <2>3, SameWillBe DEF RestOK, AllWillBe, Running, Unwritten
    <2> QED BY <2>2, <2>3 DEF RestOK, AllWillBe
  <1>7. CASE Unwritten /\ sink' = [done EXCEPT !.failed = @ + 1]
    <2> DEFINE d == done.failed + 1
    <2>1. d \in Nat /\ d # 0 /\ sink' = [done EXCEPT !.failed = d]
      BY <1>3, <1>7, SinkFields
    <2> HIDE DEF d
    <2>2. /\ sink'.failed = d /\ sink'.queue = sink.queue /\ sink'.batch = sink.batch
          /\ sink'.marked = sink.marked /\ sink'.work = Idle /\ sink'.step = "get"
      BY <1>3, <2>1 DEF Sinks
    <2>3. ~Lossless'
      BY <2>1, <2>2 DEF Lossless
    <2> QED BY <1>2, <1>5, <2>2, <2>3 DEF RestOK, SinkGoesOn, AllWillBe, Dated, Endless
  <1>8. CASE Write(w) /\ sink' \in {done, kept}
    <2>1. /\ sink'.queue = sink.queue /\ sink'.batch = sink.batch /\ sink'.marked = sink.marked
          /\ sink'.work \in {w, Idle} /\ sink'.step # "done"
          /\ sink'.failed = sink.failed /\ sink'.dropped = sink.dropped
      BY <1>2, <1>3, <1>4, <1>8 DEF Same, Joins
    <2>2. /\ w.item = "issues" => row'.at = w.at
          /\ (w.item # "issues" /\ row.at # 0) => row'.at # 0
      BY <1>1, <1>5, <1>8, RowWritten
    <2>3. SinkGoesOn'
      BY <1>2, <1>5, <2>1, <2>2 DEF RestOK, SinkGoesOn, Lossless, Dated, Endless, Rowed
    <2>4. ASSUME resting', Running', Lossless'
          PROVE  /\ WillBe(sink', now', row', "state", gh'.state)
                 /\ WillBe(sink', now', row', "open", FALSE)
      <3>1. resting /\ Running /\ Lossless /\ Dated(sink)
        BY <1>2, <2>1, <2>4 DEF Running, Lossless, RestOK, SinkGoesOn
      <3> QED BY <1>1, <1>2, <1>8, <2>1, <3>1, WrittenWillBe DEF RestOK, AllWillBe
    <2> QED BY <2>3, <2>4 DEF RestOK, AllWillBe
  <1> QED BY <1>2, <1>6, <1>7, <1>8

\* Each step keeps what is coming of an issue at rest.
LEMMA RestStep ==
    ASSUME StoreInv, InTime, Placed, resting => AtRest, RestOK, [Next]_vars
    PROVE  RestOK'
  <1>1. /\ SinkInv(sink, now, row, told) /\ sink \in Sinks /\ now \in Nat /\ ProcessOK
        /\ now + 1 \in Nat \ {0} /\ now <= now + 1 /\ now < now + 1
        /\ Answers \subseteq Views /\ track \in Views /\ view \in Views
        /\ MarkerStands(sink, now, row, told) /\ WorkInTurn(sink, now, row, told)
        /\ pc \notin {"store", "down"} => ~sink.closed
    BY AnswersAreViews DEF StoreInv, SinkInv, ProcessOK, InTime
  <1>2. CASE HumanActs
    <2>1. ~resting' /\ UNCHANGED <<sink, row, pc>>
      BY <1>2 DEF HumanActs
    <2> QED BY <2>1 DEF RestOK, SinkGoesOn, AllWillBe, Lossless
  <1>3. CASE ReadTriageTrack \/ NextTick \/ SlackTake \/ UNCHANGED vars
    <2>1. /\ UNCHANGED <<sink, row, gh, now, resting>>
          /\ pc' \in {"store", "down"} \/ pc \notin {"store", "down"}
          /\ pc' = "finish" => pc = "finish"
          /\ (pc' \notin {"slack", "store", "down"}) => pc \notin {"slack", "store", "down"}
      BY <1>3 DEF ReadTriageTrack, NextTick, SlackTake, vars
    <2> QED BY <1>1, <2>1, LeftAlone DEF Running
  <1>4. CASE Sweep
    <2>1. CASE sink' = sink /\ now' = now /\ pc' = "track"
      BY <1>1, <1>4, <2>1, LeftAlone DEF Sweep, Running
    <2>2. CASE ~(sink' = sink /\ now' = now /\ pc' = "track")
      <3>1. PICK a \in Answers : /\ a.state \in Board /\ pc' = "finish"
                                 /\ sink' = RecordIssues(sink, a, now + 1)
        BY <1>4, <2>2 DEF Sweep
      <3>2. pc = "sweep" /\ UNCHANGED <<row, resting>>
        BY <1>4 DEF Sweep
      <3>3. ~resting
        BY <3>1, <3>2 DEF AtRest, Answers, Rest, Board
      <3>4. Carries(sink, sink') /\ sink'.marked
        BY <1>1, <3>1, <3>2, MergeCarries DEF RecordIssues
      <3>5. SinkGoesOn'
        BY <3>1, <3>2, <3>4, CarriedOn DEF RestOK
      <3> QED BY <3>2, <3>3, <3>5 DEF RestOK, AllWillBe
    <2> QED BY <2>1, <2>2
  <1>5. CASE Finish
    <2>1. pc = "finish" /\ UNCHANGED row
      BY <1>5 DEF Finish
    <2>2. CASE ~resting' /\ pc' = "track" /\ UNCHANGED sink
      BY <2>1, <2>2 DEF RestOK, SinkGoesOn, AllWillBe, Lossless
    <2>3. CASE ~(~resting' /\ pc' = "track" /\ UNCHANGED sink)
      <3>1. PICK rest \in Rest :
              /\ PublishBoth(Event("moved", [state |-> rest], now + 1),
                             Event(IF rest = "complete" THEN "completed" ELSE "cancelled",
                                   [open |-> FALSE], now + 2))
              /\ pc' = "reread" /\ now' = now + 2 /\ gh' = [gh EXCEPT !.state = rest]
        BY <1>5, <2>3 DEF Finish, Tick
      <3> DEFINE e == Event("moved", [state |-> rest], now + 1)
                 g == Event(IF rest = "complete" THEN "completed" ELSE "cancelled",
                            [open |-> FALSE], now + 2)
      <3>2. e \in Events /\ e.at = now + 1 /\ e.says = [state |-> rest]
        BY <1>1, EventsTyped DEF Event
      <3>3. g \in Events /\ g.at = now + 2 /\ g.says = [open |-> FALSE]
        <4>1. now + 2 \in Nat
          BY <1>1
        <4> QED BY <4>1, EventsTyped DEF Event
      <3>4. sink' = HandleEvent(HandleEvent(sink, e), g) /\ gh'.state = rest
        BY <1>1, <3>1 DEF PublishBoth, Fanned, ProcessOK, Issues
      <3> HIDE DEF e, g
      <3>5. /\ Endless(sink) /\ ~sink.closed
            /\ Lossless => Rowed(sink, row)
        BY <1>1, <2>1 DEF RestOK, SinkGoesOn
      <3>6. /\ sink' \in Sinks /\ Carries(sink, sink')
            /\ (sink'.failed = 0 /\ sink'.dropped = 0 /\ Rowed(sink, row)) =>
                 /\ WillBe(sink', now + 2, row, "state", rest)
                 /\ WillBe(sink', now + 2, row, "open", FALSE)
        BY <1>1, <3>2, <3>3, <3>4, <3>5, FinishWillBe
      <3>7. SinkGoesOn' /\ (Lossless' => Lossless)
        BY <2>1, <3>1, <3>6, CarriedOn DEF RestOK
      <3>8. Lossless' => /\ WillBe(sink', now', row', "state", gh'.state)
                         /\ WillBe(sink', now', row', "open", FALSE)
        BY <2>1, <3>1, <3>4, <3>5, <3>6, <3>7 DEF Lossless
      <3> QED BY <3>7, <3>8 DEF RestOK, AllWillBe
    <2> QED BY <2>2, <2>3
  <1>6. CASE ReportMoved
    <2>1. /\ pc = "reread" /\ pc' = "track" /\ UNCHANGED <<gh, row, resting>>
      BY <1>6 DEF ReportMoved
    <2>2. CASE UNCHANGED <<sink, now>>
      BY <1>1, <2>1, <2>2, LeftAlone DEF Running
    <2>3. CASE ~(UNCHANGED <<sink, now>>)
      <3>1. PICK a \in Answers : /\ a.state = view.state /\ now' = now + 1
                                 /\ sink' = RecordIssues(sink, a, now + 1)
        BY <1>6, <2>3 DEF ReportMoved, Fresh, Tick
      <3>2. sink' = Merge(sink, a, now + 1) /\ a \in Views
        BY <1>1, <2>1, <3>1 DEF RecordIssues
      <3>3. /\ Carries(sink, sink') /\ Merged(sink, sink', now + 1)
            /\ sink'.batch.view = a
        BY <1>1, <3>2, MergeCarries, MergeIs
      <3>4. SinkGoesOn' /\ (Lossless' => Lossless)
        BY <2>1, <3>3, CarriedOn DEF RestOK
      <3>5. ASSUME resting', Running', Lossless'
            PROVE  /\ WillBe(sink', now', row', "state", gh'.state)
                   /\ WillBe(sink', now', row', "open", FALSE)
        <4>1. resting /\ Running /\ Lossless
          BY <2>1, <3>4, <3>5 DEF Running
        <4>2. a.state = gh.state /\ a.open = FALSE
          <5>1. AtRest /\ a.open \in BOOLEAN
            BY <3>2, <4>1 DEF Views
          <5> QED BY <2>1, <3>1, <5>1 DEF AtRest, Answers
        <4>3. sink'.batch.view["state"] = gh.state /\ sink'.batch.view["open"] = FALSE
          BY <3>3, <4>2
        <4>4. /\ WillBe(sink, now, row, "state", gh.state)
              /\ WillBe(sink, now, row, "open", FALSE)
          BY <4>1 DEF RestOK, AllWillBe
        <4>5. /\ WillBe(sink', now + 1, row, "state", gh.state)
              /\ WillBe(sink', now + 1, row, "open", FALSE)
          BY <1>1, <3>3, <4>3, <4>4, MergedWillBe
        <4> QED BY <2>1, <3>1, <4>5
      <3> QED BY <3>4, <3>5 DEF RestOK, AllWillBe
    <2> QED BY <2>2, <2>3
  <1>7. CASE FetchIssues
    <2>1. /\ pc = "poll" /\ pc' \in {"observe", "wait"} /\ UNCHANGED <<gh, row, resting>>
      BY <1>7 DEF FetchIssues
    <2>2. CASE UNCHANGED <<sink, now>>
      BY <1>1, <2>1, <2>2, LeftAlone DEF Running
    <2>3. CASE ~(UNCHANGED <<sink, now>>)
      <3>1. PICK a \in Answers : a.open /\ sink' = RecordIssues(sink, a, now + 1)
        BY <1>7, <2>3 DEF FetchIssues
      <3>2. ~resting
        BY <3>1 DEF AtRest, Answers
      <3>3. Carries(sink, sink')
        BY <1>1, <2>1, <3>1, MergeCarries DEF RecordIssues
      <3>4. SinkGoesOn'
        BY <2>1, <3>3, CarriedOn DEF RestOK
      <3> QED BY <2>1, <3>2, <3>4 DEF RestOK, AllWillBe
    <2> QED BY <2>2, <2>3
  <1>8. CASE ObserveTriageTrack
    <2>1. /\ pc = "observe" /\ pc' = "claim" /\ UNCHANGED <<gh, row, resting>>
      BY <1>8 DEF ObserveTriageTrack
    <2>2. CASE UNCHANGED <<sink, now>>
      BY <1>1, <2>1, <2>2, LeftAlone DEF Running
    <2>3. CASE ~(UNCHANGED <<sink, now>>)
      <3>1. PICK a \in Answers \cup {track} :
               now' = now + 1 /\ sink' = RecordTriageTrack(sink, a, now + 1)
        BY <1>8, <2>3 DEF ObserveTriageTrack, Tick
      <3>2. /\ Carries(sink, sink')
            /\ (~a.open /\ sink'.failed = 0 /\ sink'.dropped = 0)
                 => Joined(sink, sink', TrackRead(FALSE, now + 1))
        BY <1>1, <2>1, <3>1, TrackCarries
      <3>3. SinkGoesOn' /\ (Lossless' => Lossless)
        BY <2>1, <3>2, CarriedOn DEF RestOK
      <3>4. ASSUME resting', Running', Lossless'
            PROVE  /\ WillBe(sink', now', row', "state", gh'.state)
                   /\ WillBe(sink', now', row', "open", FALSE)
        <4>1. resting /\ Running /\ Lossless
          BY <2>1, <3>3, <3>4 DEF Running
        <4>2. ~a.open
          BY <3>1, <4>1 DEF AtRest, Answers
        <4>3. Joined(sink, sink', TrackRead(FALSE, now + 1))
          BY <3>2, <3>4, <4>2 DEF Lossless
        <4>4. TrackRead(FALSE, now + 1).item # "event"
          BY DEF TrackRead
        <4>5. /\ WillBe(sink', now + 1, row, "state", gh.state)
              /\ WillBe(sink', now + 1, row, "open", FALSE)
          BY <1>1, <4>1, <4>3, <4>4, JoinedWillBe DEF RestOK, AllWillBe
        <4> QED BY <2>1, <3>1, <4>5
      <3> QED BY <3>3, <3>4 DEF RestOK, AllWillBe
    <2> QED BY <2>2, <2>3
  <1>9. CASE Claim
    <2>1. /\ pc = "claim" /\ pc' = "wait" /\ UNCHANGED row
      BY <1>9 DEF Claim
    <2>2. CASE UNCHANGED <<gh, now, sink, resting>>
      BY <1>1, <2>1, <2>2, LeftAlone DEF Running
    <2>3. CASE ~(UNCHANGED <<gh, now, sink, resting>>)
      <3>1. ~resting' /\ sink' = HandleEvent(sink, Event("moved", [state |-> "in_progress"], now + 1))
        BY <1>9, <2>3 DEF Claim, Publish, Fanned
      <3>2. Carries(sink, sink')
        BY <1>1, <2>1, <3>1, EventsTyped, EventCarries
      <3>3. SinkGoesOn'
        BY <2>1, <3>2, CarriedOn DEF RestOK
      <3> QED BY <3>1, <3>3 DEF RestOK, AllWillBe
    <2> QED BY <2>2, <2>3
  <1>10. ASSUME NEW e \in Events, sink' = HandleEvent(sink, e), now' = now + 1,
                "state" \notin DOMAIN e.says, "open" \notin DOMAIN e.says,
                pc \notin {"store", "down"}, UNCHANGED <<pc, row, resting>>, gh'.state = gh.state
         PROVE  RestOK'
    <2>1. /\ Carries(sink, sink')
          /\ (sink'.failed = 0 /\ sink'.dropped = 0) => Joined(sink, sink', e)
      BY <1>1, <1>10, EventCarries
    <2>2. SinkGoesOn' /\ (Lossless' => Lossless)
      BY <1>10, <2>1, CarriedOn DEF RestOK
    <2>3. ASSUME resting', Running', Lossless'
          PROVE  /\ WillBe(sink', now', row', "state", gh'.state)
                 /\ WillBe(sink', now', row', "open", FALSE)
      <3>1. resting /\ Running /\ Lossless /\ Joined(sink, sink', e)
        BY <1>10, <2>1, <2>2, <2>3 DEF Running, Lossless
      <3>2. /\ WillBe(sink', now + 1, row, "state", gh.state)
            /\ WillBe(sink', now + 1, row, "open", FALSE)
        BY <1>1, <1>10, <3>1, JoinedWillBe DEF RestOK, AllWillBe
      <3> QED BY <1>10, <3>2
    <2> QED BY <2>2, <2>3 DEF RestOK, AllWillBe
  <1>11. CASE FileVerdict
    <2> DEFINE e == Event("triaged", [triage |-> "complete"], now + 1)
    <2>1. /\ pc \notin {"slack", "store", "down"} /\ UNCHANGED <<pc, row, resting>>
          /\ gh' = [gh EXCEPT !.triage = "complete"] /\ now' = now + 1
          /\ sink' = HandleEvent(sink, e)
      BY <1>11 DEF FileVerdict, Publish, Fanned, Tick
    <2>2. gh'.state = gh.state
      BY <1>1, <2>1 DEF ProcessOK, Issues
    <2>3. e \in Events /\ e.says = [triage |-> "complete"]
      BY <1>1, EventsTyped DEF Event
    <2> HIDE DEF e
    <2>4. "state" \notin DOMAIN e.says /\ "open" \notin DOMAIN e.says
      BY <2>3
    <2> QED BY <1>10, <2>1, <2>2, <2>3, <2>4
  <1>12. CASE Post
    <2>1. /\ UNCHANGED <<pc, gh, row, resting>> /\ slack.step = "post" /\ pc # "down"
      BY <1>12 DEF Post
    <2>2. pc # "store"
      BY <2>1 DEF InTime
    <2>3. CASE UNCHANGED <<sink, now>>
      BY <1>1, <2>1, <2>3, LeftAlone DEF Running
    <2>4. CASE ~(UNCHANGED <<sink, now>>)
      <3> DEFINE e == Event("sent", <<>>, now + 1)
      <3>1. sink' = HandleEvent(sink, e) /\ now' = now + 1
        BY <1>12, <2>4 DEF Post, Tick
      <3>2. e \in Events /\ e.says = <<>>
        BY <1>1, EventsTyped DEF Event
      <3> HIDE DEF e
      <3>3. "state" \notin DOMAIN e.says /\ "open" \notin DOMAIN e.says
        <4>1. DOMAIN e.says = {}
          BY <3>2
        <4> QED BY <4>1
      <3> QED BY <1>10, <2>1, <2>2, <3>1, <3>2, <3>3
    <2> QED BY <2>3, <2>4
  <1>13. CASE Take
    <2>1. /\ sink' = TakenFrom(sink) /\ sink.step = "get" /\ sink.queue # <<>>
          /\ UNCHANGED <<pc, gh, now, row, resting>>
      BY <1>13 DEF Take, TakenFrom
    <2>2. sink.work = Idle
      BY <1>1, <2>1 DEF WorkInTurn
    <2>3. sink' \in Sinks
      BY <1>1, <2>1, TakenKeeps DEF SinkInv
    <2>4. Head(sink.queue) = Marker => sink.marked
      <3>1. Head(sink.queue) = sink.queue[1] /\ 1 \in DOMAIN sink.queue
        BY <1>1, <2>1, SinkFields
      <3> QED BY <1>1, <3>1 DEF MarkerStands
    <2>5. Carries(sink, sink')
      BY <1>1, <2>1, <2>2, <2>3, <2>4, TakeCarries
    <2>6. SinkGoesOn' /\ (Lossless' => Lossless)
      BY <2>1, <2>5, CarriedOn DEF RestOK
    <2>7. ASSUME resting', Running', Lossless'
          PROVE  /\ WillBe(sink', now', row', "state", gh'.state)
                 /\ WillBe(sink', now', row', "open", FALSE)
      <3>1. resting /\ Running /\ Lossless /\ Endless(sink)
        BY <2>1, <2>6, <2>7 DEF Running, RestOK, SinkGoesOn
      <3>2. /\ WillBe(sink', now, row, "state", gh.state)
            /\ WillBe(sink', now, row, "open", FALSE)
        BY <1>1, <2>1, <2>2, <3>1, TakenWillBe DEF RestOK, AllWillBe
      <3> QED BY <2>1, <3>2
    <2> QED BY <2>6, <2>7 DEF RestOK, AllWillBe
  <1>14. CASE Connect
    <2>1. sink' = [sink EXCEPT !.connected = TRUE] /\ UNCHANGED <<pc, gh, now, row, resting>>
      BY <1>14 DEF Connect
    <2>2. /\ Same(sink, sink') /\ sink'.failed = sink.failed /\ sink'.dropped = sink.dropped
      BY <1>1, <2>1 DEF Sinks, Same, Joins
    <2>3. Carries(sink, sink')
      BY <2>2 DEF Carries, Same, Joins, Dated, Endless
    <2>4. SinkGoesOn' /\ (Lossless' => Lossless)
      BY <2>1, <2>3, CarriedOn DEF RestOK
    <2>5. ASSUME resting', Running', Lossless'
          PROVE  /\ WillBe(sink', now', row', "state", gh'.state)
                 /\ WillBe(sink', now', row', "open", FALSE)
      <3>1. /\ WillBe(sink, now, row, "state", gh.state)
            /\ WillBe(sink, now, row, "open", FALSE)
        BY <2>1, <2>4, <2>5 DEF Running, RestOK, AllWillBe
      <3>2. now <= now
        BY <1>1
      <3>3. /\ WillBe(sink', now, row, "state", gh.state)
            /\ WillBe(sink', now, row, "open", FALSE)
        BY <1>1, <2>2, <3>1, <3>2, SameWillBe
      <3> QED BY <2>1, <3>3
    <2> QED BY <2>4, <2>5 DEF RestOK, AllWillBe
  <1>15. CASE Apply
    BY <1>15, ApplyGoesOn
  <1>16. CASE CloseSlack
    <2>1. UNCHANGED <<sink, row>> /\ pc = "wait" /\ pc' = "slack"
      BY <1>16 DEF CloseSlack
    <2> QED BY <2>1 DEF RestOK, SinkGoesOn, AllWillBe, Running
  <1>17. CASE SlackDrains \/ SlackTimesOut
    <2>1. /\ pc' = "store"
          /\ sink' = [sink EXCEPT !.closed = TRUE, !.queue = Append(@, Sentinel)]
      BY <1>17 DEF SlackDrains, SlackTimesOut, CloseStore
    <2>2. sink'.marked = sink.marked /\ sink'.batch = sink.batch /\ sink'.work = sink.work
      BY <1>1, <2>1 DEF Sinks
    <2> QED BY <2>1, <2>2 DEF RestOK, SinkGoesOn, AllWillBe, Running, Dated
  <1>18. CASE SinkDrains
    <2>1. pc' = "down" /\ sink' = sink
      BY <1>18 DEF SinkDrains, End
    <2> QED BY <2>1 DEF RestOK, SinkGoesOn, AllWillBe, Running, Dated
  <1>19. CASE SinkTimesOut
    <2>1. pc' = "down" /\ sink' = GivenUp(sink)
      BY <1>19 DEF SinkTimesOut, End
    <2>2. sink'.marked = sink.marked /\ sink'.batch = sink.batch /\ sink'.work = Idle
      BY <1>1, <2>1, GivenUpFields
    <2> QED BY <2>1, <2>2, Kindly DEF RestOK, SinkGoesOn, AllWillBe, Running, Dated
  <1>20. CASE Crash \/ Restart
    <2>1. sink' = NoSink /\ ~resting' /\ pc' # "finish"
      BY <1>20 DEF Crash, Restart
    <2>2. Dated(NoSink) /\ Endless(NoSink)
      BY Kindly DEF NoSink, Dated, Endless
    <2> QED BY <2>1, <2>2 DEF RestOK, SinkGoesOn, AllWillBe
  <1> QED
    BY <1>2, <1>3, <1>4, <1>5, <1>6, <1>7, <1>8, <1>9, <1>11, <1>12, <1>13, <1>14, <1>15,
       <1>16, <1>17, <1>18, <1>19, <1>20 DEF Next

\* An issue the worker took to rest is at rest in the store once the sink has nothing left to
\* write and has lost nothing, however its views and events were merged, taken and retried.
THEOREM RestsAreStored == Spec => []RestIsStored
  <1>1. ASSUME Init PROVE RestInv
    <2>1. log \in Seq(Nat) /\ sink = NoSink /\ slack = NoSlack
      BY <1>1 DEF Init
    <2>2. LossInv
      BY <1>1, <2>1, ProcessStarts, NothingToCount DEF Init, LossInv, InTime
    <2>3. Dated(NoSink) /\ Endless(NoSink)
      BY Kindly DEF NoSink, Dated, Endless
    <2> QED BY <1>1, <2>1, <2>2, <2>3 DEF Init, RestInv, Placed, RestOK, SinkGoesOn, AllWillBe
  <1>2. ASSUME RestInv, [Next]_vars PROVE RestInv'
    <2>1. LossInv'
      BY <1>2, ProcessStep, SinkStep, CountsStep DEF RestInv, LossInv, StoreInv
    <2>2. Placed' /\ (resting => AtRest)'
      BY <1>2, AtRestStep DEF RestInv, LossInv, StoreInv
    <2>3. RestOK'
      BY <1>2, RestStep DEF RestInv, LossInv
    <2> QED BY <2>1, <2>2, <2>3 DEF RestInv
  <1>3. RestInv => RestIsStored
    <2> SUFFICES ASSUME RestInv, resting, pc \in {"wait", "sweep"}, Quiet, Lossless
                 PROVE  row.at # 0 /\ row.state = gh.state /\ ~row.open
      BY DEF RestIsStored
    <2>1. /\ WillBe(sink, now, row, "state", gh.state)
          /\ WillBe(sink, now, row, "open", FALSE)
      BY DEF RestInv, RestOK, AllWillBe, Running
    <2>2. DOMAIN sink.queue = {} /\ sink.work = Idle
      BY DEF Quiet
    <2>3. ~sink.marked
      BY <2>2 DEF RestInv, LossInv, StoreInv, SinkInv, MarkerStands, RestOK, SinkGoesOn, Endless
    <2>4. ASSUME NEW f, NEW v, WillBe(sink, now, row, f, v)
          PROVE  row.at # 0 /\ row[f] = v
      <3>1. PICK at \in 1..now : Coming(sink, row, at, f, v)
        BY <2>4 DEF WillBe
      <3>2. row.at >= at /\ row[f] = v
        BY <2>2, <2>3, <3>1, Kindly DEF Coming, Tells
      <3> QED BY <3>1, <3>2
    <2>5. row.at # 0 /\ row["state"] = gh.state /\ row["open"] = FALSE
      BY <2>1, <2>4
    <2> QED BY <2>5
  <1> QED BY <1>1, <1>2, <1>3, PTL DEF Spec
-----------------------------------------------------------------------------
(* The history is appended to *)

\* The events that wait were told by now, and not before any that the log has.
InTurn(s, n, lg) ==
    /\ lg \in Seq(Nat)
    /\ \A a \in WaitingOf(s) : a \in 1..n
    /\ \A k \in DOMAIN lg : lg[k] <= n /\ \A a \in WaitingOf(s) : lg[k] <= a
HistoryInv == StoreInv /\ now <= MaxTold /\ InTurn(sink, now, log)

\* What waits may be fewer, or newer than all that was told.
LEMMA TurnsKept ==
    ASSUME NEW s, NEW u, NEW n \in Nat, NEW m \in Nat, n <= m, NEW lg, InTurn(s, n, lg),
           \A a \in WaitingOf(u) : a \in WaitingOf(s) \/ a \in (n + 1)..m
    PROVE  InTurn(u, m, lg)
  <1>1. lg \in Seq(Nat) /\ \A k \in DOMAIN lg : lg[k] \in Nat /\ lg[k] <= n
    BY DEF InTurn
  <1>2. ASSUME NEW a \in WaitingOf(u)
        PROVE  a \in 1..m /\ \A k \in DOMAIN lg : lg[k] <= a
    BY <1>1, <1>2 DEF InTurn
  <1>3. \A k \in DOMAIN lg : lg[k] <= m
    BY <1>1
  <1> QED BY <1>1, <1>2, <1>3 DEF InTurn

\* What joins the queue's end alone waits besides what waited, if it is an event.
LEMMA OneJoins ==
    ASSUME NEW s \in Sinks, NEW u, NEW x, u.queue = Append(s.queue, x), u.work = s.work
    PROVE  \A a \in WaitingOf(u) : a \in WaitingOf(s) \/ (x.item = "event" /\ a = x.at)
  <1>1. s.queue \in Seq(Things) /\ Len(s.queue) \in Nat /\ DOMAIN s.queue = 1..Len(s.queue)
    BY SinkFields
  <1>2. /\ DOMAIN u.queue = 1..(Len(s.queue) + 1) /\ u.queue[Len(s.queue) + 1] = x
        /\ \A i \in 1..Len(s.queue) : u.queue[i] = s.queue[i]
    BY <1>1
  <1>3. ASSUME NEW i \in DOMAIN u.queue, u.queue[i].item = "event"
        PROVE  u.queue[i].at \in WaitingOf(s) \/ (x.item = "event" /\ u.queue[i].at = x.at)
    <2>1. CASE i = Len(s.queue) + 1
      BY <1>2, <1>3, <2>1
    <2>2. CASE i # Len(s.queue) + 1
      <3>1. i \in DOMAIN s.queue /\ u.queue[i] = s.queue[i]
        BY <1>1, <1>2, <1>3, <2>2
      <3> QED BY <1>3, <3>1 DEF WaitingOf
    <2> QED BY <2>1, <2>2
  <1> QED BY <1>3 DEF WaitingOf

\* An event that the sink is handed waits, besides what waited, or is dropped.
LEMMA EventJoins ==
    ASSUME NEW s \in Sinks, NEW e \in Events
    PROVE  \A a \in WaitingOf(HandleEvent(s, e)) : a \in WaitingOf(s) \/ a = e.at
  <1> DEFINE h == [s EXCEPT !.handled = @ \cup {e.at}]
             u == HandleEvent(s, e)
  <1>1. h \in Sinks /\ Same(s, h)
    <2>1. h = [s EXCEPT !.handled = s.handled \cup {e.at}] /\ s.handled \cup {e.at} \in SUBSET Nat
      BY SinkFields, Kindly
    <2> QED BY <2>1, HandledChanges
  <1>2. \/ u = [h EXCEPT !.dropped = @ + 1, !.late = TRUE]
        \/ u = [h EXCEPT !.dropped = @ + 1]
        \/ u = [h EXCEPT !.queue = Append(@, e)]
    BY DEF HandleEvent
  <1> HIDE DEF h, u
  <1>3. u.work = s.work /\ (u.queue = s.queue \/ u.queue = Append(s.queue, e))
    BY <1>1, <1>2 DEF Sinks, Same, Joins
  <1>4. CASE u.queue = s.queue
    BY <1>3, <1>4 DEF WaitingOf, u
  <1>5. CASE u.queue = Append(s.queue, e)
    BY <1>3, <1>5, OneJoins DEF u
  <1> QED BY <1>3, <1>4, <1>5

\* A view, or a track's read, is no event: none waits that did not.
LEMMA ViewWaits ==
    ASSUME NEW s \in Sinks, NEW a \in Views, NEW m \in Nat, NEW u,
           u = RecordIssues(s, a, m) \/ u = RecordTriageTrack(s, a, m)
    PROVE  WaitingOf(u) \subseteq WaitingOf(s)
  <1> DEFINE listed == a.open /\ a.triage # "none"
             merged == IF listed THEN Merge(s, a, m) ELSE s
             x == TrackRead(listed, m)
  <1>1. Marker.item # "event" /\ x.item # "event"
    BY Kindly DEF TrackRead
  <1> HIDE DEF x
  <1> DEFINE v == Merge(s, a, m)
  <1>2. v \in Sinks /\ WaitingOf(v) \subseteq WaitingOf(s)
    <2>0. v \in Sinks /\ Merged(s, v, m)
      BY MergeIs
    <2> HIDE DEF v
    <2>1. v.work = s.work /\ (v.queue = s.queue \/ v.queue = Append(s.queue, Marker))
      BY <2>0 DEF Merged
    <2>2. CASE v.queue = s.queue
      BY <2>0, <2>1, <2>2 DEF WaitingOf
    <2>3. CASE v.queue = Append(s.queue, Marker)
      BY <1>1, <2>0, <2>1, <2>3, OneJoins
    <2> QED BY <2>0, <2>1, <2>2, <2>3
  <1>3. merged \in Sinks /\ WaitingOf(merged) \subseteq WaitingOf(s)
    BY <1>2
  <1> HIDE DEF merged
  <1>4. CASE u = [s EXCEPT !.dropped = @ + 1]
    BY <1>4 DEF Sinks, WaitingOf
  <1>5. CASE u = [merged EXCEPT !.queue = Append(@, x)]
    <2>1. u.queue = Append(merged.queue, x) /\ u.work = merged.work
      BY <1>3, <1>5 DEF Sinks
    <2> QED BY <1>1, <1>3, <2>1, OneJoins
  <1> QED BY <1>2, <1>4, <1>5 DEF RecordIssues, RecordTriageTrack, merged, x

\* The work taken waited, and the rest waits on.
LEMMA TakenWaits ==
    ASSUME NEW s \in Sinks, s.queue # <<>>, s.work = Idle
    PROVE  WaitingOf(TakenFrom(s)) \subseteq WaitingOf(s)
  <1> DEFINE q == s.queue
             l == Len(q)
             u == TakenFrom(s)
             w == [item |-> "issues", at |-> s.batch.at, view |-> s.batch.view]
  <1>1. q \in Seq(Things) /\ l \in Nat /\ DOMAIN q = 1..l /\ l >= 1 /\ Head(q) = q[1]
    BY SinkFields
  <1>2. /\ Tail(q) \in Seq(Things) /\ DOMAIN Tail(q) = 1..(l - 1)
        /\ \A i \in 1..(l - 1) : Tail(q)[i] = q[i + 1]
    BY <1>1
  <1>3. u.queue = Tail(q) /\ (u.work.item = "event" => u.work = q[1])
    <2> DEFINE t == Tail(q)
               h == Head(q)
    <2>1. \/ h.item = "end" /\ u = [s EXCEPT !.queue = t, !.step = "done"]
          \/ u = [s EXCEPT !.queue = t, !.step = "write", !.batch = NoBatch, !.marked = FALSE,
                           !.work = w]
          \/ u = [s EXCEPT !.queue = t, !.step = "write", !.work = h]
      BY DEF TakenFrom
    <2>2. w.item # "event" /\ Idle.item # "event"
      BY Kindly
    <2> HIDE DEF t, h, w, u
    <2>3. CASE u = [s EXCEPT !.queue = t, !.step = "done"]
      BY <2>2, <2>3 DEF Sinks, t
    <2>4. CASE u = [s EXCEPT !.queue = t, !.step = "write", !.batch = NoBatch, !.marked = FALSE,
                           !.work = w]
      <3> DEFINE v == [s EXCEPT !.queue = t, !.batch = NoBatch, !.marked = FALSE]
      <3>1. v.queue = t /\ DOMAIN v = DOMAIN s
        BY DEF Sinks
      <3>2. u = [v EXCEPT !.step = "write", !.work = w]
        BY <2>4 DEF Sinks
      <3> HIDE DEF v
      <3> QED BY <2>2, <3>1, <3>2 DEF Sinks, t
    <2>5. CASE u = [s EXCEPT !.queue = t, !.step = "write", !.work = h]
      BY <1>1, <2>5 DEF Sinks, t, h
    <2> QED BY <2>1, <2>3, <2>4, <2>5
  <1> HIDE DEF u
  <1>4. ASSUME NEW i \in DOMAIN u.queue, u.queue[i].item = "event"
        PROVE  u.queue[i].at \in WaitingOf(s)
    <2>1. i + 1 \in DOMAIN q /\ u.queue[i] = q[i + 1]
      BY <1>1, <1>2, <1>3, <1>4
    <2> QED BY <1>4, <2>1 DEF WaitingOf
  <1>5. u.work.item = "event" => u.work.at \in WaitingOf(s)
    <2>1. 1 \in DOMAIN q
      BY <1>1
    <2> QED BY <1>3, <2>1 DEF WaitingOf
  <1>6. WaitingOf(u) \subseteq WaitingOf(s)
    BY <1>4, <1>5 DEF WaitingOf
  <1> QED BY <1>6 DEF u

\* An event that is written waited, and what waits on is no older; so is what is in hand when it
\* may be written again.
LEMMA WriteInTurn ==
    ASSUME StoreInv, InTurn(sink, now, log), sink.step = "write", Write(sink.work),
           NEW u, WaitingOf(u) \subseteq WaitingOf(sink)
    PROVE  /\ InTurn(u, now, log')
           /\ \/ log' = log
              \/ \E a \in 1..now : /\ \A k \in DOMAIN log : log[k] <= a
                                   /\ log' = Append(log, a)
  <1>1. /\ sink \in Sinks /\ sink.work \in Works /\ sink.work # Idle /\ now \in Nat
        /\ InOrder(sink, now, row, told) /\ log \in Seq(Nat)
    BY SinkFields DEF StoreInv, SinkInv, WorkInTurn, InTurn
  <1>2. CASE sink.work.item # "event"
    <2>1. sink.work \in Tracks \cup Batches
      BY <1>1, <1>2, Kindly, StampedThings
    <2>2. log' = log
      BY <2>1, Kindly DEF Write
    <2>3. now \in Nat /\ now <= now
      BY <1>1
    <2>4. InTurn(u, now, log)
      BY <2>3, TurnsKept
    <2> QED BY <2>2, <2>4
  <1>3. CASE sink.work.item = "event"
    <2> DEFINE w == sink.work.at
    <2>1. log' = Append(log, w) /\ w \in WaitingOf(sink)
      BY <1>3 DEF Write, WaitingOf
    <2>2. w \in 1..now /\ \A k \in DOMAIN log : log[k] <= w
      BY <2>1 DEF InTurn
    <2>3. \A a \in WaitingOf(sink) : w <= a
      <3>1. Stamped(sink.work)
        BY <1>3 DEF Stamped
      <3>2. \A i \in DOMAIN sink.queue : sink.queue[i].item = "event" => w < sink.queue[i].at
        BY <1>1, <3>1 DEF InOrder, Stamped
      <3>3. \A a \in WaitingOf(sink) : w < a \/ a = w
        BY <3>2 DEF WaitingOf
      <3>4. \A a \in WaitingOf(sink) : a \in 1..now
        BY DEF InTurn
      <3> HIDE DEF w
      <3> QED BY <2>2, <3>3, <3>4
    <2> HIDE DEF w
    <2>4. /\ log' \in Seq(Nat) /\ DOMAIN log' = 1..(Len(log) + 1) /\ log'[Len(log) + 1] = w
          /\ DOMAIN log = 1..Len(log) /\ Len(log) \in Nat
          /\ \A k \in 1..Len(log) : log'[k] = log[k]
      BY <1>1, <2>1, <2>2
    <2>5. ASSUME NEW k \in DOMAIN log'
          PROVE  log'[k] <= now /\ \A a \in WaitingOf(sink) : log'[k] <= a
      <3>1. CASE k = Len(log) + 1
        BY <1>1, <2>2, <2>3, <2>4, <3>1
      <3>2. CASE k # Len(log) + 1
        <4>1. k \in DOMAIN log /\ log'[k] = log[k]
          BY <2>4, <2>5, <3>2
        <4> QED BY <4>1 DEF InTurn
      <3> QED BY <3>1, <3>2
    <2>6. InTurn(u, now, log')
      BY <2>4, <2>5 DEF InTurn
    <2> QED BY <2>1, <2>2, <2>6
  <1> QED BY <1>2, <1>3

\* What is told is of the ticks' time.
LEMMA ToldInTurn ==
    ASSUME StoreInv, InTurn(sink, now, log), log' = log,
           \/ UNCHANGED <<sink, now>>
           \/ /\ now' = now + 1
              /\ \/ \E a \in Views : \/ sink' = RecordIssues(sink, a, now + 1)
                                     \/ sink' = RecordTriageTrack(sink, a, now + 1)
                 \/ \E e \in Events : e.at = now + 1 /\ sink' = HandleEvent(sink, e)
                 \/ sink' = sink
    PROVE  InTurn(sink, now, log)'
  <1>1. sink \in Sinks /\ now \in Nat /\ now + 1 \in Nat /\ now <= now + 1
    BY DEF StoreInv, SinkInv
  <1>2. CASE UNCHANGED <<sink, now>>
    BY <1>2
  <1>3. CASE /\ now' = now + 1
             /\ \/ \E a \in Views : \/ sink' = RecordIssues(sink, a, now + 1)
                                    \/ sink' = RecordTriageTrack(sink, a, now + 1)
                \/ \E e \in Events : e.at = now + 1 /\ sink' = HandleEvent(sink, e)
                \/ sink' = sink
    <2>1. \A a \in WaitingOf(sink') : a \in WaitingOf(sink) \/ a \in (now + 1)..(now + 1)
      <3>1. now + 1 \in (now + 1)..(now + 1)
        BY <1>1
      <3> QED BY <1>1, <1>3, <3>1, EventJoins, ViewWaits
    <2>2. InTurn(sink', now + 1, log)
      BY <1>1, <2>1, TurnsKept
    <2> QED BY <1>3, <2>2
  <1> QED BY <1>2, <1>3

\* A sink that has nothing has nothing out of its turn.
LEMMA NothingWaits ==
    ASSUME NEW s, s.queue = <<>>, s.work = Idle
    PROVE  WaitingOf(s) = {}
  BY Kindly DEF WaitingOf

\* Each step lengthens the log by an event in its turn, or leaves it.
LEMMA HistoryStep ==
    ASSUME HistoryInv, [Next]_vars
    PROVE  InTurn(sink, now, log)' /\ now' <= MaxTold /\ [History!Next]_log
  <1>1. /\ StoreInv /\ InTurn(sink, now, log) /\ now <= MaxTold
        /\ sink \in Sinks /\ now \in Nat /\ now + 1 \in Nat /\ now + 2 \in Nat
        /\ Answers \subseteq Views /\ track \in Views /\ MaxTold \in Nat
        /\ WorkInTurn(sink, now, row, told)
    BY AnswersAreViews, ServicesAssumption DEF HistoryInv, StoreInv, SinkInv, ProcessOK
  <1>2. now' = now \/ Tick(1) \/ Tick(2)
    BY DEF Next, vars, HumanActs, Sweep, Finish, ReportMoved, ReadTriageTrack, FetchIssues,
           ObserveTriageTrack, Claim, FileVerdict, NextTick, Take, Connect, Apply, SlackTake, Post,
           CloseSlack, SlackDrains, SlackTimesOut, CloseStore, SinkDrains, SinkTimesOut, End,
           Crash, Restart
  <1>3. now' <= MaxTold
    BY <1>1, <1>2 DEF Tick
  <1>4. ASSUME NEW a \in 1..now, \A k \in DOMAIN log : log[k] <= a, log' = Append(log, a)
        PROVE  History!Next
    BY <1>1, <1>4 DEF History!Next, History!Add
  <1>5. ASSUME InTurn(sink, now, log)', log' = log
        PROVE  InTurn(sink, now, log)' /\ now' <= MaxTold /\ [History!Next]_log
    BY <1>3, <1>5
  <1>6. ASSUME now' = now, log' = log, WaitingOf(sink') \subseteq WaitingOf(sink)
        PROVE  InTurn(sink, now, log)'
    <2>1. InTurn(sink', now, log)
      BY <1>1, <1>6, TurnsKept
    <2> QED BY <1>6, <2>1
  <1>7. CASE HumanActs \/ ReadTriageTrack \/ NextTick \/ SlackTake \/ CloseSlack
    BY <1>1, <1>5, <1>7, ToldInTurn DEF HumanActs, ReadTriageTrack, NextTick, SlackTake, CloseSlack
  <1>8. CASE Sweep
    BY <1>1, <1>5, <1>8, ToldInTurn DEF Sweep, Tick
  <1>9. CASE Finish
    <2>1. log' = log
      BY <1>9 DEF Finish
    <2>2. CASE UNCHANGED <<now, sink>>
      BY <1>1, <1>5, <2>1, <2>2, ToldInTurn
    <2>3. CASE ~(UNCHANGED <<now, sink>>)
      <3>1. PICK e \in Events, f \in Events :
                /\ e.at = now + 1 /\ f.at = now + 2 /\ now' = now + 2
                /\ sink' = HandleEvent(HandleEvent(sink, e), f)
        <4>1. PICK rest \in Rest, kind \in {"completed", "cancelled"} :
                /\ now' = now + 2
                /\ sink' = HandleEvent(HandleEvent(sink, Event("moved", [state |-> rest], now + 1)),
                                       Event(kind, [open |-> FALSE], now + 2))
          BY <1>9, <2>3 DEF Finish, Tick, PublishBoth, Fanned
        <4>2. /\ Event("moved", [state |-> rest], now + 1) \in Events
              /\ Event("moved", [state |-> rest], now + 1).at = now + 1
          BY <1>1, EventsTyped
        <4>3. /\ Event(kind, [open |-> FALSE], now + 2) \in Events
              /\ Event(kind, [open |-> FALSE], now + 2).at = now + 2
          BY <1>1, <4>1, EventsTyped
        <4> QED BY <4>1, <4>2, <4>3
      <3> DEFINE v == HandleEvent(sink, e)
      <3>2. v \in Sinks /\ \A a \in WaitingOf(v) : a \in WaitingOf(sink) \/ a = now + 1
        <4>1. SinkInv(v, now + 1, row, told)
          BY <3>1, <1>1, EventHandled DEF StoreInv
        <4> QED BY <4>1, <1>1, <3>1, EventJoins DEF SinkInv
      <3>3. sink' = HandleEvent(v, f)
        BY <3>1
      <3> HIDE DEF v
      <3>4. \A a \in WaitingOf(sink') : a \in WaitingOf(v) \/ a = now + 2
        BY <3>1, <3>2, <3>3, EventJoins
      <3>5. \A a \in WaitingOf(sink') : a \in WaitingOf(sink) \/ a \in (now + 1)..(now + 2)
        BY <1>1, <3>2, <3>4
      <3>6. InTurn(sink', now + 2, log)
        BY <1>1, <3>5, TurnsKept
      <3> QED BY <1>5, <2>1, <3>1, <3>6
    <2> QED BY <2>2, <2>3
  <1>10. CASE ReportMoved
    BY <1>1, <1>5, <1>10, ToldInTurn DEF ReportMoved, Tick
  <1>11. CASE FetchIssues
    BY <1>1, <1>5, <1>11, ToldInTurn DEF FetchIssues, Tick
  <1>12. CASE ObserveTriageTrack
    BY <1>1, <1>5, <1>12, ToldInTurn DEF ObserveTriageTrack, Tick
  <1>13. CASE Claim \/ FileVerdict
    BY <1>1, <1>5, <1>13, EventsTyped, ToldInTurn DEF Claim, FileVerdict, Tick, Publish, Fanned
  <1>14. CASE Take
    <2>1. /\ sink' = TakenFrom(sink) /\ sink.step = "get" /\ sink.queue # <<>>
          /\ UNCHANGED <<now, log>>
      BY <1>14 DEF Take, TakenFrom
    <2>2. WaitingOf(sink') \subseteq WaitingOf(sink)
      BY <1>1, <2>1, TakenWaits DEF WorkInTurn
    <2> QED BY <1>5, <1>6, <2>1, <2>2
  <1>15. CASE Connect
    <2>1. UNCHANGED <<now, log>> /\ sink' = [sink EXCEPT !.connected = TRUE]
      BY <1>15 DEF Connect
    <2>2. WaitingOf(sink') \subseteq WaitingOf(sink)
      BY <1>1, <2>1 DEF Sinks, WaitingOf
    <2> QED BY <1>5, <1>6, <2>1, <2>2
  <1>16. CASE Apply
    <2>1. /\ sink.step = "write" /\ now' = now
          /\ Write(sink.work) \/ Unwritten
          /\ sink' \in {[sink EXCEPT !.step = "get", !.work = Idle],
                        [[sink EXCEPT !.step = "get", !.work = Idle] EXCEPT !.failed = @ + 1],
                        Kept(sink)}
      BY <1>16 DEF Apply
    <2>2. sink'.queue = sink.queue /\ sink'.work \in {sink.work, Idle}
      BY <1>1, <2>1 DEF Sinks, Kept
    <2>3. WaitingOf(sink') \subseteq WaitingOf(sink)
      BY <2>2, Kindly DEF WaitingOf
    <2>4. CASE Write(sink.work)
      BY <1>1, <1>3, <1>4, <2>1, <2>3, <2>4, WriteInTurn
    <2>5. CASE Unwritten
      BY <1>5, <1>6, <2>1, <2>3, <2>5 DEF Unwritten
    <2> QED BY <2>1, <2>4, <2>5
  <1>17. CASE Post
    BY <1>1, <1>5, <1>17, EventsTyped, ToldInTurn DEF Post, Tick
  <1>18. CASE SlackDrains \/ SlackTimesOut
    <2>1. /\ UNCHANGED <<now, log>>
          /\ sink' = [sink EXCEPT !.closed = TRUE, !.queue = Append(@, Sentinel)]
      BY <1>18 DEF SlackDrains, SlackTimesOut, CloseStore
    <2>2. sink'.queue = Append(sink.queue, Sentinel) /\ sink'.work = sink.work
      BY <1>1, <2>1 DEF Sinks
    <2>3. WaitingOf(sink') \subseteq WaitingOf(sink)
      BY <1>1, <2>2, Kindly, OneJoins
    <2> QED BY <1>5, <1>6, <2>1, <2>3
  <1>19. CASE SinkDrains
    BY <1>1, <1>5, <1>19, ToldInTurn DEF SinkDrains, End, Unwritten
  <1>20. CASE SinkTimesOut
    <2>1. /\ sink' = GivenUp(sink) /\ now' = now
          /\ Unwritten \/ (sink.step = "write" /\ Write(sink.work))
      BY <1>20 DEF SinkTimesOut, End
    <2>2. WaitingOf(sink') \subseteq WaitingOf(sink)
      BY <1>1, <2>1, GivenUpFields, NothingWaits
    <2>3. CASE Unwritten
      BY <1>5, <1>6, <2>1, <2>2, <2>3 DEF Unwritten
    <2>4. CASE sink.step = "write" /\ Write(sink.work)
      BY <1>1, <1>3, <1>4, <2>1, <2>2, <2>4, WriteInTurn
    <2> QED BY <2>1, <2>3, <2>4
  <1>21. CASE Crash \/ Restart
    <2>1. sink' = NoSink /\ UNCHANGED <<now, log>>
      BY <1>21 DEF Crash, Restart
    <2>2. WaitingOf(sink') \subseteq WaitingOf(sink)
      BY <2>1, NothingWaits DEF NoSink
    <2> QED BY <1>5, <1>6, <2>1, <2>2
  <1>22. CASE UNCHANGED vars
    BY <1>1, <1>5, <1>22, ToldInTurn DEF vars
  <1> QED
    BY <1>7, <1>8, <1>9, <1>10, <1>11, <1>12, <1>13, <1>14, <1>15, <1>16, <1>17, <1>18, <1>19,
       <1>20, <1>21, <1>22 DEF Next

\* The events table is an EventLog: each event is appended in its turn, once more beside itself
\* at most, and nothing that was stored is taken back, whatever is lost, retried or restarted.
THEOREM HistoryIsKept == Spec => KeepsHistory
  <1>1. ASSUME Init PROVE HistoryInv /\ log = <<>>
    <2>1. sink = NoSink /\ log = <<>> /\ now = 0 /\ StoreInv /\ MaxTold \in Nat
      BY <1>1, ProcessStarts, ServicesAssumption DEF Init
    <2>2. WaitingOf(sink) = {}
      BY <2>1, NothingWaits DEF NoSink
    <2> QED BY <2>1, <2>2 DEF HistoryInv, InTurn
  <1>2. ASSUME HistoryInv, [Next]_vars PROVE HistoryInv' /\ [History!Next]_log
    BY <1>2, ProcessStep, SinkStep, HistoryStep DEF HistoryInv, StoreInv
  <1> QED BY <1>1, <1>2, PTL DEF Spec, KeepsHistory, History!Spec
=============================================================================
