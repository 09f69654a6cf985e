----------------------------- MODULE TriageProofs -----------------------------
(***************************************************************************)
(* Theorems of the triage lane: its variables keep their types, a review   *)
(* starts on no parent that is a human's, the worker never leaves the      *)
(* steps it filed without the triage label that holds them, a verdict's    *)
(* drafts are filed once each, and what one request may cost is bounded.   *)
(*                                                                         *)
(* The type of the state is stated in parts, one per group of variables,   *)
(* with `Placed`, what each request still to be sent says of the tick's    *)
(* part and of the filing in hand.  Above it come the invariants: HandInv, *)
(* whose parents are handed over; HoldInv, which of the requests that take *)
(* `triage_todo` off may meet steps the worker filed; FileInv, what is on  *)
(* GitHub of each verdict still owed; SendInv, what each request says of   *)
(* the verdict it is sent for and of the session beside it; FailInv, how   *)
(* the failed sessions no human has heard of compare with those counted;   *)
(* and RoundInv, how the reviews acted on compare with the record.         *)
(***************************************************************************)
EXTENDS Triage, FiniteSetTheorems, SequenceTheorems, WellFoundedInduction, TLAPS

\* What the type invariant says, by group of variables.
GitHubOK == /\ state \in {"open", "closed"} /\ labels \subseteq Labels
            /\ steps \in Seq(Steps) /\ numbered \in Nat
LaneOK   == /\ run \in Runs /\ record \in Parents /\ stored \in Parents
            /\ run.ended => run.kind # "none"
PendOK   == /\ verdict \in Filed /\ review \in Filed
            /\ verdict.kind \in {"none", "fits", "split"}
            /\ review.kind \in {"none", "met", "next", "gap"}
ChainOK  == failures \in Nat /\ waiting \in BOOLEAN /\ escape \in BOOLEAN /\ note \in BOOLEAN
PastOK   == batches \in Nat /\ handed \in BOOLEAN /\ acted \in Nat /\ gaps \in Nat /\ vain \in Nat

\* The requests of a filing.
FilingAt == {"owed", "steps", "list", "create", "mark", "swap", "met", "close", "comment",
             "hand_read"}

\* What is in hand: its type, and where each request belongs.
HandsOK ==
    /\ phase \in {"idle", "exit", "refresh", "triage", "review", "candidates", "watch"}
    /\ filing \in Filed /\ subs \in BOOLEAN /\ seen \in Seq(Nat) /\ at \in Nat
Placed ==
    /\ pc \in FilingAt \cup {"none", "hand_back", "hand_over", "approval", "sub_issues", "issues"}
    /\ pc # "none" => phase # "idle"
    /\ pc \in FilingAt => filing.kind # "none" /\ phase \in {"exit", "triage", "review"}
    /\ pc = "none" => filing.kind = "none"
    /\ pc = "approval" => phase \in {"candidates", "watch"}
    /\ pc = "sub_issues" => phase = "candidates"
    /\ pc = "issues" => phase = "watch"

LaneInv == GitHubOK /\ LaneOK /\ PendOK /\ ChainOK /\ PastOK /\ HandsOK /\ Placed
-----------------------------------------------------------------------------
(* Data *)

\* No verdict is one, of no kind.
LEMMA NoVerdictTyped == NoVerdict \in Filed /\ NoVerdict.kind = "none"
  BY DEF NoVerdict, Filed

\* A worker's fresh records are records.
LEMMA ParentsTyped == NoParent \in Parents /\ Parent \in Parents /\ Parent.known /\ ~Parent.handed
                      /\ ~Parent.finished /\ ~NoParent.known
  BY DEF NoParent, Parent, Parents

\* The numbers of a sequence of steps are a sequence of numbers.
LEMMA NumbersTyped == ASSUME steps \in Seq(Steps) PROVE Numbers(steps) \in Seq(Nat)
  <1>1. \A k \in 1..Len(steps) : steps[k].n \in Nat
    <2> TAKE k \in 1..Len(steps)
    <2>1. steps[k] \in Steps
      BY ElementOfSeq
    <2> QED BY <2>1 DEF Steps
  <1>2. Numbers(steps) = [k \in 1..Len(steps) |-> steps[k].n]
    BY DEF Numbers
  <1> QED BY <1>1, <1>2, IsASeq

\* A record with one field set is a record still, that field apart the same.
LEMMA ParentCounts ==
    ASSUME NEW r \in Parents, NEW n \in Nat
    PROVE  /\ [r EXCEPT !.reviews = n] \in Parents
           /\ [r EXCEPT !.reviews = n].known = r.known
           /\ [r EXCEPT !.reviews = n].handed = r.handed
           /\ [r EXCEPT !.reviews = n].finished = r.finished
           /\ [r EXCEPT !.gaps = n] \in Parents
           /\ [r EXCEPT !.gaps = n].known = r.known
           /\ [r EXCEPT !.gaps = n].handed = r.handed
           /\ [r EXCEPT !.gaps = n].finished = r.finished
  BY DEF Parents

\* The same of its last field.
LEMMA ParentEnds ==
    ASSUME NEW r \in Parents, NEW b \in BOOLEAN
    PROVE  /\ [r EXCEPT !.finished = b] \in Parents
           /\ [r EXCEPT !.finished = b].known = r.known
           /\ [r EXCEPT !.finished = b].handed = r.handed
           /\ [r EXCEPT !.finished = b].finished = b
  BY DEF Parents

\* So is one marked known, or handed over.
LEMMA ParentMarked ==
    ASSUME NEW r \in Parents
    PROVE  /\ [r EXCEPT !.known = TRUE] \in Parents
           /\ [r EXCEPT !.known = TRUE].known
           /\ [r EXCEPT !.known = TRUE].handed = r.handed
           /\ [r EXCEPT !.known = TRUE].finished = r.finished
           /\ [r EXCEPT !.handed = TRUE] \in Parents
           /\ [r EXCEPT !.handed = TRUE].known = r.known
           /\ [r EXCEPT !.handed = TRUE].handed
           /\ [r EXCEPT !.finished = TRUE] \in Parents
           /\ [r EXCEPT !.finished = TRUE].known = r.known
           /\ [r EXCEPT !.finished = TRUE].handed = r.handed
           /\ [r EXCEPT !.finished = TRUE].finished
  BY DEF Parents

\* A parent handed over.
LEMMA HandedTyped ==
    ASSUME NEW r \in Parents
    PROVE  /\ [r EXCEPT !.known = TRUE, !.handed = TRUE] \in Parents
           /\ [r EXCEPT !.known = TRUE, !.handed = TRUE].known
           /\ ~Watched([r EXCEPT !.known = TRUE, !.handed = TRUE])
  <1>1. [r EXCEPT !.known = TRUE, !.handed = TRUE]
            = [[r EXCEPT !.known = TRUE] EXCEPT !.handed = TRUE]
    OBVIOUS
  <1>2. [r EXCEPT !.known = TRUE] \in Parents
    BY ParentMarked
  <1> QED BY <1>1, <1>2, ParentMarked DEF Watched

\* A parent handed over at its gap limit, its review counted.
LEMMA CountedAfterTyped ==
    ASSUME record \in Parents
    PROVE  CountedAfter \in Parents /\ CountedAfter.known /\ ~Watched(CountedAfter)
  <1> DEFINE a == [record EXCEPT !.known = TRUE]
             b == [a EXCEPT !.handed = TRUE]
             c == [b EXCEPT !.reviews = record.reviews + 1]
  <1>1. CountedAfter = c
    BY DEF CountedAfter
  <1>2. a \in Parents /\ a.known
    BY ParentMarked
  <1> HIDE DEF a
  <1>3. b \in Parents /\ b.known /\ b.handed
    BY <1>2, ParentMarked
  <1> HIDE DEF b
  <1>4. record.reviews + 1 \in Nat
    BY DEF Parents
  <1>5. c \in Parents /\ c.known /\ c.handed
    BY <1>3, <1>4, ParentCounts
  <1> QED BY <1>1, <1>5 DEF Watched

\* The same refused: the review is counted, and a parent known and handed over stays so.
LEMMA CountedOnlyTyped ==
    ASSUME NEW r \in Parents
    PROVE  LET c == [r EXCEPT !.known = TRUE, !.reviews = r.reviews + 1]
           IN  /\ c \in Parents /\ c.known
               /\ (r.known /\ ~Watched(r)) => ~Watched(c)
  <1> DEFINE a == [r EXCEPT !.known = TRUE]
             c == [a EXCEPT !.reviews = r.reviews + 1]
  <1>1. [r EXCEPT !.known = TRUE, !.reviews = r.reviews + 1] = c
    OBVIOUS
  <1>2. a \in Parents /\ a.known /\ a.handed = r.handed /\ a.finished = r.finished
    BY ParentMarked
  <1> HIDE DEF a
  <1>4. r.reviews + 1 \in Nat
    BY DEF Parents
  <1>5. c \in Parents /\ c.known /\ c.handed = r.handed /\ c.finished = r.finished
    BY <1>2, <1>4, ParentCounts
  <1> HIDE DEF c
  <1>6. (r.known /\ ~Watched(r)) => ~Watched(c)
    BY <1>5 DEF Watched
  <1> QED BY <1>1, <1>5, <1>6

\* The record a filed review brings its parent to.
LEMMA CountedTyped ==
    ASSUME filing \in Filed
    PROVE  Counted \in Parents /\ Counted.known
  <1> DEFINE met == filing.kind = "met"
             a == [Parent EXCEPT !.reviews = filing.counts[1]]
             b == [a EXCEPT !.gaps = filing.counts[2]]
             c == [b EXCEPT !.finished = met]
  <1>1. Counted = c
    BY Zenon DEF Counted
  <1>2. filing.counts[1] \in Nat /\ filing.counts[2] \in Nat /\ met \in BOOLEAN
    BY DEF Filed
  <1> HIDE DEF met
  <1>3. a \in Parents /\ a.known
    BY <1>2, ParentsTyped, ParentCounts
  <1> HIDE DEF a
  <1>4. b \in Parents /\ b.known
    BY <1>2, <1>3, ParentCounts
  <1> HIDE DEF b
  <1>5. c \in Parents /\ c.known
    BY <1>2, <1>4, ParentEnds
  <1> QED BY <1>1, <1>5
-----------------------------------------------------------------------------
(* What the parts of a step keep *)

\* The part of the tick is over: nothing is in hand.
LEMMA DoneOK ==
    ASSUME HandsOK, phase # "idle", Done
    PROVE  HandsOK' /\ Placed' /\ pc' = "none" /\ filing' = NoVerdict
  <1>1. After \in {"idle", "exit", "refresh", "triage", "review", "candidates", "watch"}
    BY DEF HandsOK, After
  <1>2. /\ phase' = After /\ pc' = "none" /\ filing' = NoVerdict /\ subs' = FALSE
        /\ seen' = <<>> /\ at' = 0
    BY DEF Done, Enter
  <1>3. seen' \in Seq(Nat) /\ at' \in Nat
    BY <1>2
  <1> QED BY <1>1, <1>2, <1>3, NoVerdictTyped DEF HandsOK, Placed, FilingAt

\* A verdict kept is kept with those of its kind.
LEMMA KeepOK == ASSUME PendOK, NEW v \in Filed, Keep(v) PROVE PendOK'
  <1>1. CASE OfReview(v)
    <2>1. review' = v /\ UNCHANGED verdict
      BY <1>1 DEF Keep
    <2> QED BY <1>1, <2>1 DEF PendOK, OfReview
  <1>2. CASE ~OfReview(v)
    <2>1. verdict' = v /\ UNCHANGED review
      BY <1>2 DEF Keep
    <2>2. v.kind \in {"none", "fits", "split"}
      BY <1>2 DEF OfReview, Filed
    <2> QED BY <2>1, <2>2 DEF PendOK
  <1> QED BY <1>1, <1>2

\* A verdict dropped leaves none of its kind.
LEMMA DropOK == ASSUME PendOK, NEW v \in Filed, Drop(v) PROVE PendOK'
  <1>1. CASE OfReview(v)
    BY <1>1, NoVerdictTyped DEF Drop, PendOK
  <1>2. CASE ~OfReview(v)
    BY <1>2, NoVerdictTyped DEF Drop, PendOK
  <1> QED BY <1>1, <1>2

\* The chain forgotten is a chain.
LEMMA ForgetOK == ASSUME ForgetChain PROVE ChainOK'
  BY DEF ForgetChain, ChainOK

\* A request asked in a filing's place keeps what is in hand.
LEMMA AskOK ==
    ASSUME HandsOK, Placed, pc \in FilingAt, NEW r \in FilingAt, Ask(r)
    PROVE  HandsOK' /\ Placed' /\ filing' = filing /\ phase' = phase /\ pc' = r
  BY DEF HandsOK, Placed, FilingAt, Ask

\* A hand-back asked for in a filing keeps it in hand.
LEMMA HandBackForOK ==
    ASSUME HandsOK, phase # "idle", NEW reason, NEW parent, HandBackFor(reason, parent)
    PROVE  /\ HandsOK' /\ Placed' /\ filing' = filing /\ phase' = phase /\ why' = reason
           /\ pc' \in {"hand_back", "hand_over"} /\ (parent => pc' = "hand_over")
  BY DEF HandsOK, Placed, FilingAt, HandBackFor

\* The next draft's request, or the swap.
LEMMA OnToDraftOK ==
    ASSUME HandsOK, Placed, pc \in FilingAt, NEW k, NEW have, OnToDraft(k, have)
    PROVE  /\ HandsOK' /\ Placed' /\ filing' = filing /\ phase' = phase
           /\ pc' \in {"swap", "mark", "create"}
  <1>1. filing.drafts \in Nat
    BY DEF HandsOK, Filed
  <1>2. \A t \in Needing(k, have) : t \in Nat
    BY <1>1 DEF Needing
  <1>3. UNCHANGED <<phase, filing, subs, seen>> /\ pc' \in {"swap", "mark", "create"} /\ at' \in Nat
    <2>1. CASE pc' = "swap" /\ at' = 0 /\ UNCHANGED <<phase, filing, why, subs, seen>>
      BY <2>1
    <2>2. ASSUME NEW t \in Needing(k, have), at' = t, UNCHANGED <<phase, filing, why, subs, seen>>,
                 pc' = IF t \in DOMAIN have THEN "mark" ELSE "create"
          PROVE  UNCHANGED <<phase, filing, subs, seen>> /\ pc' \in {"swap", "mark", "create"}
                 /\ at' \in Nat
      BY <1>2, <2>2
    <2> QED BY <2>1, <2>2 DEF OnToDraft
  <1> QED BY <1>3 DEF HandsOK, Placed, FilingAt

\* A filing's try that failed: the verdict is kept and the next request, if any, hands it back.
LEMMA TryFailsOK ==
    ASSUME LaneInv, pc \in FilingAt, TryFails
    PROVE  /\ LaneOK' /\ PendOK' /\ ChainOK' /\ PastOK' /\ HandsOK' /\ Placed'
           /\ UNCHANGED <<run, chain, record, stored, history>>
           /\ \/ pc' = "none" /\ filing' = NoVerdict
              \/ /\ filing' = filing /\ phase' = phase
                 /\ \/ pc' = "hand_over"
                    \/ pc' = "hand_read" /\ filing.kind = "split"
                    \/ pc' = "hand_back" /\ filing.kind = "fits"
  <1>1. phase \in {"exit", "triage", "review"} /\ filing.kind # "none" /\ filing \in Filed
    BY DEF LaneInv, Placed, HandsOK
  <1>2. Tried \in Filed
    BY <1>1 DEF Tried, Filed
  <1>3. UNCHANGED <<run, chain, record, stored, history>> /\ Keep(Tried)
    BY DEF TryFails
  <1>4. LaneOK' /\ ChainOK' /\ PastOK'
    BY <1>3 DEF LaneInv, LaneOK, ChainOK, PastOK, chain, history
  <1>5. PendOK'
    BY <1>2, <1>3, KeepOK DEF LaneInv
  <1>6. /\ HandsOK' /\ Placed'
        /\ \/ pc' = "none" /\ filing' = NoVerdict
           \/ /\ filing' = filing /\ phase' = phase
              /\ \/ pc' = "hand_over"
                 \/ pc' = "hand_read" /\ filing.kind = "split"
                 \/ pc' = "hand_back" /\ filing.kind = "fits"
    <2>1. CASE Done
      BY <1>1, <2>1, DoneOK DEF LaneInv
    <2>2. CASE HandBackFor("review", TRUE)
      BY <1>1, <2>2, HandBackForOK DEF LaneInv
    <2>3. CASE ~OfReview(Tried) /\ HandBackVerdict
      <3>1. Tried.kind = filing.kind
        BY <1>1 DEF Tried, Filed
      <3>2. filing.kind \in {"fits", "split"}
        BY <1>1, <2>3, <3>1 DEF OfReview, Filed
      <3>3. CASE filing.kind = "split"
        <4>1. Ask("hand_read")
          BY <2>3, <3>3 DEF HandBackVerdict
        <4>2. "hand_read" \in FilingAt
          BY DEF FilingAt
        <4> QED BY <3>3, <4>1, <4>2, AskOK DEF LaneInv
      <3>4. CASE filing.kind = "fits"
        <4>1. HandBackFor("verdict", filing.subs)
          BY <2>3, <3>4 DEF HandBackVerdict
        <4> QED BY <1>1, <3>4, <4>1, HandBackForOK DEF LaneInv
      <3> QED BY <3>2, <3>3, <3>4
    <2> QED BY <2>1, <2>2, <2>3 DEF TryFails
  <1> QED BY <1>3, <1>4, <1>5, <1>6
-----------------------------------------------------------------------------
(* The type invariant, action by action *)

\* A sub-issue made and linked last is a step.
LEMMA CreatedOK == ASSUME GitHubOK, HandsOK, Created PROVE GitHubOK'
  <1> DEFINE new == [n |-> numbered + 1, title |-> at, by |-> filing.batch,
                     open |-> TRUE, operator |-> FALSE]
  <1>1. new \in Steps
    BY DEF GitHubOK, HandsOK, Filed, Steps
  <1>2. steps' = Append(steps, new) /\ numbered' = numbered + 1 /\ UNCHANGED <<state, labels>>
    BY DEF Created
  <1> HIDE DEF new
  <1>3. Append(steps, new) \in Seq(Steps)
    BY <1>1, AppendProperties DEF GitHubOK
  <1> QED BY <1>2, <1>3 DEF GitHubOK

\* A step marked as an operator's, and its parent's others as they were.
LEMMA MarkedOK ==
    ASSUME GitHubOK, Marked
    PROVE  /\ GitHubOK' /\ DOMAIN steps' = DOMAIN steps
           /\ \A k \in DOMAIN steps : steps'[k].by = steps[k].by
  <1> DEFINE new(k) == IF steps[k].n = found[at] THEN [steps[k] EXCEPT !.operator = TRUE]
                                                ELSE steps[k]
  <1>1. steps' = [k \in 1..Len(steps) |-> new(k)] /\ UNCHANGED <<state, labels, numbered>>
    BY DEF Marked, GitHubOK
  <1>2. \A k \in 1..Len(steps) : new(k) \in Steps /\ new(k).by = steps[k].by
    <2> TAKE k \in 1..Len(steps)
    <2>1. steps[k] \in Steps
      BY ElementOfSeq DEF GitHubOK
    <2> QED BY <2>1 DEF Steps
  <1> HIDE DEF new
  <1>3. [k \in 1..Len(steps) |-> new(k)] \in Seq(Steps)
    <2>1. Len(steps) \in Nat
      BY LenProperties DEF GitHubOK
    <2> QED BY <1>2, <2>1, IsASeq
  <1> QED BY <1>1, <1>2, <1>3 DEF GitHubOK

\* A step closed or reopened, its parent's others as they were.
LEMMA OpenOK ==
    ASSUME GitHubOK, NEW k \in DOMAIN steps, NEW b \in BOOLEAN,
           steps' = [steps EXCEPT ![k].open = b], UNCHANGED <<state, labels, numbered>>
    PROVE  /\ GitHubOK' /\ DOMAIN steps' = DOMAIN steps
           /\ \A l \in DOMAIN steps : steps'[l].by = steps[l].by
  <1> DEFINE new == [steps[k] EXCEPT !.open = b]
  <1>1. steps' = [steps EXCEPT ![k] = new] /\ k \in 1..Len(steps)
    BY DEF GitHubOK
  <1>2. steps[k] \in Steps
    BY <1>1, ElementOfSeq DEF GitHubOK
  <1>3. new \in Steps /\ new.by = steps[k].by
    BY <1>2 DEF Steps
  <1> HIDE DEF new
  <1>4. steps' \in Seq(Steps) /\ DOMAIN steps' = DOMAIN steps
    BY <1>1, <1>3, ExceptSeq DEF GitHubOK
  <1>5. \A l \in DOMAIN steps : steps'[l].by = steps[l].by
    BY <1>1, <1>3 DEF GitHubOK
  <1> QED BY <1>4, <1>5 DEF GitHubOK

\* What GitHub's part is not touched by.
LEMMA GitHubRests == ASSUME GitHubOK, UNCHANGED github PROVE GitHubOK'
  BY DEF GitHubOK, github

\* What the memory and the history's parts are not touched by.
LEMMA MemoryRests ==
    ASSUME LaneInv, UNCHANGED <<memory, stored, history>>
    PROVE  LaneOK' /\ PendOK' /\ ChainOK' /\ PastOK'
  BY DEF LaneInv, LaneOK, PendOK, ChainOK, PastOK, memory, pending, chain, history

\* The lane starts with nothing in hand.
LEMMA LaneInit == Init => LaneInv
  <1> SUFFICES ASSUME Init PROVE LaneInv
    OBVIOUS
  <1>1. <<>> \in Seq(Steps) /\ <<>> \in Seq(Nat)
    OBVIOUS
  <1>2. NoRun \in Runs /\ ~NoRun.ended
    BY DEF NoRun, Runs
  <1>3. GitHubOK
    BY <1>1 DEF Init, GitHubOK, Labels, TriageLabels
  <1>4. LaneOK /\ PendOK /\ ChainOK /\ PastOK
    BY <1>2, ParentsTyped, NoVerdictTyped DEF Init, LaneOK, PendOK, ChainOK, PastOK
  <1>5. HandsOK /\ Placed
    BY <1>1, NoVerdictTyped DEF Init, HandsOK, Placed, FilingAt
  <1> QED BY <1>3, <1>4, <1>5 DEF LaneInv

\* The loop starts a tick.
LEMMA LaneTick ==
    ASSUME LaneInv, Tick
    PROVE  LaneInv' /\ UNCHANGED <<github, memory, stored, history>> /\ pc' = "none"
           /\ filing' = NoVerdict
  <1>1. UNCHANGED <<github, memory, stored, history>>
    BY DEF Tick
  <1>2. /\ phase' \in {"refresh", "triage", "candidates"} /\ pc' = "none" /\ filing' = NoVerdict
        /\ subs' = FALSE /\ seen' = <<>> /\ at' = 0
    BY DEF Tick, Enter
  <1>3. seen' \in Seq(Nat) /\ at' \in Nat
    BY <1>2
  <1>4. HandsOK' /\ Placed'
    BY <1>2, <1>3, NoVerdictTyped DEF HandsOK, Placed, FilingAt
  <1> QED BY <1>1, <1>2, <1>4, MemoryRests, GitHubRests DEF LaneInv

\* A running session is looked at again.
LEMMA LaneRefresh ==
    ASSUME LaneInv, Refresh
    PROVE  /\ LaneInv' /\ UNCHANGED <<github, pending, record, stored, history>>
           /\ run'.kind = run.kind /\ pc' = "none" /\ filing' = NoVerdict
           /\ run'.subs = run.subs \/ run'.subs = (steps # <<>>)
  <1>1. /\ phase = "refresh" /\ UNCHANGED <<github, stored, pending, chain, record, history>> /\ Done
        /\ run' = [run EXCEPT !.stop = IF @ = "gone" \/ StopFor = "none" THEN @ ELSE StopFor,
                              !.subs = IF state = "closed" THEN @ ELSE steps # <<>>]
           \/ UNCHANGED run
    BY DEF Refresh, Passed, memory
  <1>2. /\ run' \in Runs /\ run'.kind = run.kind /\ run'.ended = run.ended
        /\ run'.subs = run.subs \/ run'.subs = (steps # <<>>)
    <2> DEFINE stop == IF run.stop = "gone" \/ StopFor = "none" THEN run.stop ELSE StopFor
               with == IF state = "closed" THEN run.subs ELSE steps # <<>>
    <2>1. CASE UNCHANGED run
      BY <2>1 DEF LaneInv, LaneOK
    <2>2. CASE run' = [run EXCEPT !.stop = stop, !.subs = with]
      <3>1. stop \in {"none", "moved", "gone"} /\ with \in BOOLEAN
        BY DEF StopFor, LaneInv, LaneOK, Runs
      <3>2. run' = [[run EXCEPT !.stop = stop] EXCEPT !.subs = with]
        BY <2>2
      <3>3. with = run.subs \/ with = (steps # <<>>)
        OBVIOUS
      <3> HIDE DEF stop, with
      <3> QED BY <3>1, <3>2, <3>3 DEF LaneInv, LaneOK, Runs
    <2> QED BY <1>1, <2>1, <2>2
  <1>3. HandsOK' /\ Placed' /\ pc' = "none" /\ filing' = NoVerdict
    BY <1>1, DoneOK DEF LaneInv
  <1>4. LaneOK' /\ PendOK' /\ ChainOK' /\ PastOK'
    BY <1>1, <1>2 DEF LaneInv, LaneOK, PendOK, ChainOK, PastOK, pending, chain, history
  <1> QED BY <1>1, <1>2, <1>3, <1>4, GitHubRests DEF LaneInv

\* A verdict kept is taken up again.
LEMMA LaneRetry ==
    ASSUME LaneInv, Retry
    PROVE  /\ LaneInv' /\ UNCHANGED <<github, memory, stored, history>>
           /\ \/ pc' = "none"
              \/ pc' = "owed" /\ filing' = verdict /\ UNCHANGED phase
              \/ pc' = "owed" /\ filing' = review /\ UNCHANGED phase
  <1> DEFINE v == IF phase = "triage" THEN verdict ELSE review
  <1>1. /\ UNCHANGED <<github, memory, stored, history>> /\ phase \in {"triage", "review"}
        /\ IF v.kind = "none" THEN Done
           ELSE /\ filing' = v /\ pc' = "owed" /\ UNCHANGED <<phase, subs, seen, at>>
    BY DEF Retry
  <1>2. v \in Filed
    BY DEF LaneInv, PendOK
  <1>3. HandsOK' /\ Placed'
    <2>1. CASE v.kind = "none"
      BY <1>1, <2>1, DoneOK DEF LaneInv
    <2>2. CASE v.kind # "none"
      BY <1>1, <1>2, <2>2 DEF LaneInv, HandsOK, Placed, FilingAt
    <2> QED BY <2>1, <2>2
  <1>4. \/ pc' = "none"
        \/ pc' = "owed" /\ filing' = verdict /\ UNCHANGED phase
        \/ pc' = "owed" /\ filing' = review /\ UNCHANGED phase
    BY <1>1, DoneOK DEF LaneInv
  <1> QED BY <1>1, <1>3, <1>4, MemoryRests, GitHubRests DEF LaneInv
-----------------------------------------------------------------------------
\* The issue is read again before its verdict is filed.
LEMMA LaneOwedRead ==
    ASSUME LaneInv, OwedRead
    PROVE  /\ LaneInv' /\ UNCHANGED <<github, run, record, stored, history>>
           /\ \/ TryFails
              \/ Drop(filing) /\ Done
              \/ pc' \in FilingAt /\ UNCHANGED <<pending, filing, phase>>
  <1>1. pc = "owed" /\ pc \in FilingAt /\ phase # "idle" /\ filing \in Filed /\ UNCHANGED github
    BY DEF OwedRead, LaneInv, Placed, HandsOK, FilingAt
  <1>2. CASE TryFails
    BY <1>1, <1>2, TryFailsOK, GitHubRests DEF LaneInv
  <1>3. CASE /\ UNCHANGED <<stored, history>> /\ UNCHANGED memory
             /\ \E r \in {Begin, "steps"} : Ask(r)
    <2>1. Begin \in FilingAt /\ "steps" \in FilingAt
      BY <1>1 DEF Begin, FilingAt, Filings, Filed, LaneInv, Placed
    <2>2. HandsOK' /\ Placed' /\ pc' \in FilingAt /\ UNCHANGED <<filing, phase>>
      BY <1>1, <1>3, <2>1, AskOK DEF LaneInv
    <2> QED BY <1>1, <1>3, <2>2, MemoryRests, GitHubRests DEF LaneInv, memory, chain
  <1>4. CASE UNCHANGED <<stored, history>> /\ Discard /\ UNCHANGED <<run, record>>
    <2>1. Drop(filing) /\ Done /\ (UNCHANGED chain \/ ForgetChain)
      BY <1>4 DEF Discard
    <2>2. PendOK' /\ HandsOK' /\ Placed' /\ ChainOK'
      BY <1>1, <2>1, DropOK, DoneOK, ForgetOK DEF LaneInv, ChainOK, chain
    <2>3. LaneOK' /\ PastOK'
      BY <1>4 DEF LaneInv, LaneOK, PastOK, history
    <2> QED BY <1>1, <1>4, <2>1, <2>2, <2>3, GitHubRests DEF LaneInv
  <1>5. \/ TryFails
        \/ /\ UNCHANGED <<stored, history>>
           /\ \/ UNCHANGED memory /\ \E r \in {Begin, "steps"} : Ask(r)
              \/ Discard /\ UNCHANGED <<run, record>>
    BY DEF OwedRead
  <1> QED BY <1>2, <1>3, <1>4, <1>5

\* A review's steps are read again before it is filed.
LEMMA LaneStepsRead ==
    ASSUME LaneInv, StepsRead
    PROVE  /\ LaneInv' /\ UNCHANGED <<github, run, record, stored, handed>>
           /\ \/ TryFails
              \/ Drop(filing) /\ Done
              \/ Drop(filing) /\ UNCHANGED <<filing, phase>> /\ pc' = "hand_over"
              \/ pc' \in FilingAt /\ UNCHANGED <<pending, filing, phase>>
  <1>1. pc = "steps" /\ pc \in FilingAt /\ phase # "idle" /\ filing \in Filed /\ UNCHANGED github
    BY DEF StepsRead, LaneInv, Placed, HandsOK, FilingAt
  <1>2. CASE TryFails
    BY <1>1, <1>2, TryFailsOK, GitHubRests DEF LaneInv, history
  <1>3. ASSUME UNCHANGED <<run, chain, record, stored, batches, handed, gaps>>,
               acted' \in {acted, acted + 1}, vain' \in {vain, 0}
        PROVE  LaneOK' /\ ChainOK' /\ PastOK'
    BY <1>3 DEF LaneInv, LaneOK, ChainOK, PastOK, chain
  <1>4. CASE /\ UNCHANGED <<run, chain, record, stored, batches, handed, gaps>>
             /\ Drop(filing) /\ Done /\ UNCHANGED <<acted, vain>>
    <2>1. PendOK' /\ HandsOK' /\ Placed'
      BY <1>1, <1>4, DropOK, DoneOK DEF LaneInv
    <2> QED BY <1>1, <1>3, <1>4, <2>1, GitHubRests DEF LaneInv
  <1>5. CASE /\ UNCHANGED <<run, chain, record, stored, batches, handed, gaps>>
             /\ Drop(filing) /\ HandBackFor("gap_limit", TRUE) /\ acted' = acted + 1 /\ vain' = 0
    <2>1. /\ PendOK' /\ HandsOK' /\ Placed' /\ pc' = "hand_over" /\ UNCHANGED <<filing, phase>>
      BY <1>1, <1>5, DropOK, HandBackForOK DEF LaneInv
    <2> QED BY <1>1, <1>3, <1>5, <2>1, GitHubRests DEF LaneInv
  <1>6. CASE /\ UNCHANGED <<run, chain, record, stored, batches, handed, gaps>>
             /\ Ask(Begin) /\ UNCHANGED <<pending, acted, vain>>
    <2>1. Begin \in FilingAt
      BY <1>1 DEF Begin, FilingAt, Filings, Filed, LaneInv, Placed
    <2>2. HandsOK' /\ Placed' /\ pc' \in FilingAt /\ UNCHANGED <<filing, phase>>
      BY <1>1, <1>6, <2>1, AskOK DEF LaneInv
    <2>3. PendOK'
      BY <1>6 DEF LaneInv, PendOK, pending
    <2> QED BY <1>1, <1>3, <1>6, <2>2, <2>3, GitHubRests DEF LaneInv
  <1>7. \/ TryFails
        \/ /\ UNCHANGED <<run, chain, record, stored, batches, handed, gaps>>
           /\ \/ Drop(filing) /\ Done /\ UNCHANGED <<acted, vain>>
              \/ Drop(filing) /\ HandBackFor("gap_limit", TRUE) /\ acted' = acted + 1 /\ vain' = 0
              \/ Ask(Begin) /\ UNCHANGED <<pending, acted, vain>>
    BY DEF StepsRead
  <1> QED BY <1>2, <1>4, <1>5, <1>6, <1>7

\* What the requests that file the drafts, or move the labels, have in common: a try that
\* failed, or the next request with the same verdict in hand.
Onward ==
    \/ TryFails
    \/ /\ pc' \in FilingAt /\ filing'.kind = filing.kind
       /\ UNCHANGED <<memory, stored, phase, handed, batches>>

\* The sub-issues are listed, and the first draft without one is next.
LEMMA LaneList == ASSUME LaneInv, List PROVE LaneInv' /\ Onward /\ UNCHANGED github
  <1>1. pc \in FilingAt /\ UNCHANGED github
    BY DEF List, FilingAt
  <1>2. CASE TryFails
    BY <1>1, <1>2, TryFailsOK, GitHubRests DEF LaneInv, Onward
  <1>3. CASE OnToDraft(0, Existing(Children)) /\ UNCHANGED <<memory, stored, history, bounds>>
    <2>1. /\ HandsOK' /\ Placed' /\ filing' = filing /\ phase' = phase
          /\ pc' \in {"swap", "mark", "create"}
      BY <1>1, <1>3, OnToDraftOK DEF LaneInv
    <2>2. Onward
      BY <1>3, <2>1 DEF Onward, FilingAt, history
    <2> QED BY <1>1, <1>3, <2>1, <2>2, MemoryRests, GitHubRests DEF LaneInv
  <1> QED BY <1>2, <1>3 DEF List

\* A draft's sub-issue is created.
LEMMA LaneCreate ==
    ASSUME LaneInv, Create
    PROVE  LaneInv' /\ Onward /\ UNCHANGED <<state, labels>> /\ filing.kind # "none"
           /\ (TryFails => pc' \in FilingAt \cup {"none", "hand_over", "hand_back"})
  <1>1. pc \in FilingAt /\ pc = "create" /\ filing.kind # "none"
    BY DEF Create, FilingAt, LaneInv, Placed
  <1>2. GitHubOK' /\ UNCHANGED <<state, labels>>
    <2>1. Created \/ UNCHANGED github
      BY DEF Create
    <2> QED BY <2>1, CreatedOK, GitHubRests DEF LaneInv, Created, github
  <1>3. CASE TryFails
    BY <1>1, <1>2, <1>3, TryFailsOK DEF LaneInv, Onward, FilingAt
  <1>4. CASE MarkNext(WithChild(numbered + 1)) /\ UNCHANGED <<memory, stored, history, bounds>>
    <2>1. /\ HandsOK' /\ Placed' /\ filing' = filing /\ phase' = phase
          /\ pc' \in {"swap", "mark", "create"}
      <3>1. CASE at \in Operator
        BY <1>1, <1>4, <3>1 DEF MarkNext, LaneInv, HandsOK, Placed, FilingAt
      <3>2. CASE at \notin Operator
        <4>1. OnToDraft(at, WithChild(numbered + 1))
          BY <1>4, <3>2 DEF MarkNext
        <4> QED BY <1>1, <4>1, OnToDraftOK DEF LaneInv
      <3> QED BY <3>1, <3>2
    <2>2. Onward
      BY <1>4, <2>1 DEF Onward, FilingAt, history
    <2>3. pc' \in FilingAt
      BY <2>1 DEF FilingAt
    <2> QED BY <1>1, <1>2, <1>4, <2>1, <2>2, <2>3, MemoryRests DEF LaneInv
  <1> QED BY <1>3, <1>4 DEF Create

\* The operator label is put on a draft's sub-issue.
LEMMA LaneMark ==
    ASSUME LaneInv, Mark
    PROVE  /\ LaneInv' /\ Onward /\ UNCHANGED <<state, labels>>
           /\ DOMAIN steps' = DOMAIN steps /\ \A k \in DOMAIN steps : steps'[k].by = steps[k].by
  <1>1. pc \in FilingAt
    BY DEF Mark, FilingAt
  <1>2. /\ GitHubOK' /\ UNCHANGED <<state, labels>>
        /\ DOMAIN steps' = DOMAIN steps /\ \A k \in DOMAIN steps : steps'[k].by = steps[k].by
    <2>1. Marked \/ UNCHANGED github
      BY DEF Mark
    <2> QED BY <2>1, MarkedOK, GitHubRests DEF LaneInv, Marked, github
  <1>3. CASE TryFails
    BY <1>1, <1>2, <1>3, TryFailsOK DEF LaneInv, Onward
  <1>4. CASE OnToDraft(at, found) /\ UNCHANGED <<memory, stored, history, bounds>>
    <2>1. /\ HandsOK' /\ Placed' /\ filing' = filing /\ phase' = phase
          /\ pc' \in {"swap", "mark", "create"}
      BY <1>1, <1>4, OnToDraftOK DEF LaneInv
    <2>2. Onward
      BY <1>4, <2>1 DEF Onward, FilingAt, history
    <2> QED BY <1>2, <1>4, <2>1, <2>2, MemoryRests DEF LaneInv
  <1> QED BY <1>3, <1>4 DEF Mark

\* A verdict moved: its filing says so, and the comment is next.
LEMMA MovedOK ==
    ASSUME LaneInv, pc \in FilingAt, Moved, Acted, UNCHANGED <<memory, stored>>
    PROVE  LaneOK' /\ PendOK' /\ ChainOK' /\ PastOK' /\ HandsOK' /\ Placed' /\ Onward
  <1>1. filing' = [filing EXCEPT !.swapped = TRUE] /\ pc' = "comment"
        /\ UNCHANGED <<phase, subs, seen, at>>
    BY DEF Moved
  <1>2. filing' \in Filed /\ filing'.kind = filing.kind
    BY <1>1 DEF LaneInv, HandsOK, Filed
  <1>3. HandsOK' /\ Placed'
    BY <1>1, <1>2 DEF LaneInv, HandsOK, Placed, FilingAt
  <1>4. PastOK' /\ UNCHANGED <<handed, batches>>
    BY DEF Acted, LaneInv, PastOK
  <1>5. LaneOK' /\ PendOK' /\ ChainOK'
    BY DEF LaneInv, LaneOK, PendOK, ChainOK, memory, pending, chain
  <1> QED BY <1>1, <1>2, <1>3, <1>4, <1>5 DEF Onward, FilingAt

\* The labels a parent is held under.
LEMMA HeldOK ==
    ASSUME GitHubOK
    PROVE  /\ Held \subseteq Labels /\ "triage_todo" \notin Held /\ "triage_complete" \in Held
           /\ Held \cup {"complete"} \subseteq Labels
  BY DEF GitHubOK, Held, Labels, TriageLabels, StateLabels

\* The labels are swapped.
LEMMA LaneSwap ==
    ASSUME LaneInv, Swap
    PROVE  LaneInv' /\ Onward /\ labels' \in {labels, Held} /\ UNCHANGED steps
  <1>1. pc \in FilingAt /\ labels' \in {labels, Held} /\ UNCHANGED <<state, steps, numbered>>
    BY DEF Swap, FilingAt
  <1>2. GitHubOK'
    BY <1>1, HeldOK DEF LaneInv, GitHubOK
  <1>3. CASE TryFails
    BY <1>1, <1>2, <1>3, TryFailsOK DEF LaneInv, Onward
  <1>4. CASE Moved /\ Acted /\ UNCHANGED <<memory, stored, bounds>>
    BY <1>1, <1>2, <1>4, MovedOK DEF LaneInv
  <1> QED BY <1>3, <1>4 DEF Swap

\* A `met` gets its labels.
LEMMA LaneMet ==
    ASSUME LaneInv, Met
    PROVE  LaneInv' /\ Onward /\ labels' \in {labels, Held \cup {"complete"}} /\ UNCHANGED steps
  <1>1. pc \in FilingAt /\ labels' \in {labels, Held \cup {"complete"}}
        /\ UNCHANGED <<state, steps, numbered>>
    BY DEF Met, FilingAt
  <1>2. GitHubOK'
    BY <1>1, HeldOK DEF LaneInv, GitHubOK
  <1>3. CASE TryFails
    BY <1>1, <1>2, <1>3, TryFailsOK DEF LaneInv, Onward
  <1>4. CASE Ask("close") /\ UNCHANGED <<memory, stored, history, bounds>>
    <2>1. "close" \in FilingAt
      BY DEF FilingAt
    <2>2. HandsOK' /\ Placed' /\ UNCHANGED <<filing, phase>> /\ pc' = "close"
      BY <1>1, <1>4, <2>1, AskOK DEF LaneInv
    <2>3. Onward
      BY <1>4, <2>1, <2>2 DEF Onward, history
    <2> QED BY <1>1, <1>2, <1>4, <2>2, <2>3, MemoryRests DEF LaneInv
  <1> QED BY <1>3, <1>4 DEF Met

\* It is closed.
LEMMA LaneClose == ASSUME LaneInv, Close PROVE LaneInv' /\ Onward /\ UNCHANGED <<labels, steps>>
  <1>1. pc \in FilingAt /\ state' \in {state, "closed"} /\ UNCHANGED <<labels, steps, numbered>>
    BY DEF Close, FilingAt
  <1>2. GitHubOK'
    BY <1>1 DEF LaneInv, GitHubOK
  <1>3. CASE TryFails
    BY <1>1, <1>2, <1>3, TryFailsOK DEF LaneInv, Onward
  <1>4. CASE Moved /\ Acted /\ UNCHANGED <<memory, stored, bounds>>
    BY <1>1, <1>2, <1>4, MovedOK DEF LaneInv
  <1> QED BY <1>3, <1>4 DEF Close
\* The comment is posted, and the verdict filed: a parent watched afresh, or no longer.
LEMMA LaneComment ==
    ASSUME LaneInv, Comment
    PROVE  /\ LaneInv' /\ UNCHANGED github
           /\ \/ TryFails
              \/ /\ Drop(filing) /\ Done /\ UNCHANGED run
                 /\ \/ ~handed' /\ record'.known
                    \/ /\ filing.kind = "fits" /\ handed' = handed
                       /\ record'.known = record.known /\ ~Watched(record')
  <1>1. pc \in FilingAt /\ phase # "idle" /\ filing \in Filed /\ UNCHANGED github
        /\ filing.kind \in {"fits", "split", "met", "next", "gap"}
    BY DEF Comment, FilingAt, LaneInv, Placed, HandsOK, Filed
  <1>2. CASE TryFails
    BY <1>1, <1>2, TryFailsOK, GitHubRests DEF LaneInv
  <1>3. CASE /\ Drop(filing) /\ ForgetChain /\ Done
             /\ record' = CASE OfReview(filing) -> Counted
                            [] filing.kind = "split" -> Parent
                            [] filing.kind = "fits" -> [record EXCEPT !.finished = record.known]
             /\ handed' = (handed /\ filing.kind = "fits")
             /\ IF OfReview(filing) THEN UNCHANGED <<acted, gaps, vain>>
                                    ELSE acted' = 0 /\ gaps' = 0 /\ vain' = 0
             /\ UNCHANGED <<run, stored, batches, bounds>>
    <2>1. PendOK' /\ HandsOK' /\ Placed' /\ ChainOK'
      BY <1>1, <1>3, DropOK, DoneOK, ForgetOK DEF LaneInv
    <2>2. PastOK'
      BY <1>3 DEF LaneInv, PastOK
    <2>3. /\ record' \in Parents
          /\ \/ ~handed' /\ record'.known
             \/ /\ filing.kind = "fits" /\ handed' = handed
                /\ record'.known = record.known /\ ~Watched(record')
      <3>1. CASE OfReview(filing)
        <4>1. record' = Counted /\ ~handed'
          BY <1>3, <3>1 DEF OfReview
        <4> QED BY <1>1, <4>1, CountedTyped
      <3>2. CASE filing.kind = "split"
        <4>1. record' = Parent /\ ~handed'
          BY <1>3, <3>2 DEF OfReview
        <4> QED BY <4>1, ParentsTyped
      <3>3. CASE filing.kind = "fits"
        <4>1. record' = [record EXCEPT !.finished = record.known] /\ handed' = handed
          BY <1>3, <3>3 DEF OfReview, LaneInv, PastOK
        <4>2. record.known \in BOOLEAN /\ record \in Parents
          BY DEF LaneInv, LaneOK, Parents
        <4>3. /\ record' \in Parents /\ record'.known = record.known
              /\ record'.finished = record.known
          BY <4>1, <4>2, ParentEnds
        <4> QED BY <3>3, <4>1, <4>3 DEF Watched
      <3> QED BY <1>1, <3>1, <3>2, <3>3 DEF OfReview
    <2>4. LaneOK'
      BY <1>3, <2>3 DEF LaneInv, LaneOK
    <2> QED BY <1>1, <1>3, <2>1, <2>2, <2>3, <2>4, GitHubRests DEF LaneInv
  <1> QED BY <1>1, <1>2, <1>3 DEF Comment

\* A split is read again before it is handed back.
LEMMA LaneHandRead ==
    ASSUME LaneInv, HandRead
    PROVE  /\ LaneInv' /\ UNCHANGED <<github, memory, stored, history>>
           /\ \/ pc' = "none"
              \/ /\ UNCHANGED <<filing, phase>> /\ pc' \in {"hand_back", "hand_over"}
                 /\ steps # <<>> => pc' = "hand_over"
  <1>1. pc \in FilingAt /\ phase # "idle" /\ UNCHANGED <<github, memory, stored, history>>
    BY DEF HandRead, FilingAt, LaneInv, Placed
  <1>2. /\ HandsOK' /\ Placed'
        /\ \/ pc' = "none"
           \/ /\ UNCHANGED <<filing, phase>> /\ pc' \in {"hand_back", "hand_over"}
              /\ steps # <<>> => pc' = "hand_over"
    <2>1. CASE Done
      BY <1>1, <2>1, DoneOK DEF LaneInv
    <2>2. CASE HandBackFor("verdict", steps # <<>>)
      BY <1>1, <2>2, HandBackForOK DEF LaneInv
    <2> QED BY <2>1, <2>2 DEF HandRead
  <1> QED BY <1>1, <1>2, MemoryRests, GitHubRests DEF LaneInv

\* `triage_todo` comes off.
LEMMA LaneHandBack ==
    ASSUME LaneInv, HandBack
    PROVE  /\ LaneInv' /\ labels' \in {labels, labels \ {"triage_todo"}}
           /\ UNCHANGED <<steps, run, record, stored, handed>> /\ Done
           /\ (Drop(filing) \/ UNCHANGED pending)
  <1>1. /\ phase # "idle" /\ filing \in Filed /\ labels' \in {labels, labels \ {"triage_todo"}}
        /\ UNCHANGED <<state, steps, numbered, stored, batches, handed, acted, gaps>> /\ Done
        /\ vain' \in {0, vain}
    BY DEF HandBack, LaneInv, Placed, HandsOK
  <1>2. /\ UNCHANGED <<run, record>> /\ (Drop(filing) \/ UNCHANGED pending)
        /\ \/ ForgetChain
           \/ escape' = (why = "failed" \/ escape) /\ UNCHANGED <<failures, waiting, note>>
    <2>1. CASE HandedBack
      BY <2>1 DEF HandedBack
    <2>2. CASE HandBackRefused
      BY <2>2 DEF HandBackRefused
    <2> QED BY <2>1, <2>2 DEF HandBack
  <1>3. GitHubOK' /\ LaneOK' /\ PastOK'
    BY <1>1, <1>2 DEF LaneInv, GitHubOK, LaneOK, PastOK
  <1>4. PendOK' /\ HandsOK' /\ Placed'
    BY <1>1, <1>2, DropOK, DoneOK DEF LaneInv, PendOK, pending
  <1>5. ChainOK'
    BY <1>2, ForgetOK DEF LaneInv, ChainOK
  <1> QED BY <1>1, <1>2, <1>3, <1>4, <1>5 DEF LaneInv

\* What a hand-over makes of the parent's record: known if it was, and handed over if it landed.
LEMMA LaneHandOver ==
    ASSUME LaneInv, HandOver
    PROVE  /\ LaneInv' /\ labels' \in {labels, Held} /\ UNCHANGED <<steps, run, stored>> /\ Done
           /\ (Drop(filing) \/ UNCHANGED pending)
           /\ record.known => record'.known
           /\ (record.known /\ ~Watched(record)) => ~Watched(record')
           /\ \/ UNCHANGED <<record, handed>>
              \/ labels' = Held /\ ~Watched(record')
              \/ why = "gap_limit" /\ UNCHANGED handed
  <1>1. /\ phase # "idle" /\ filing \in Filed /\ labels' \in {labels, Held} /\ Done
        /\ UNCHANGED <<state, steps, numbered, stored, batches, acted, gaps>> /\ record \in Parents
    BY DEF HandOver, LaneInv, Placed, HandsOK, LaneOK
  <1>2. GitHubOK'
    BY <1>1, HeldOK DEF LaneInv, GitHubOK
  <1>3. HandsOK' /\ Placed'
    BY <1>1, DoneOK DEF LaneInv
  <1>4. /\ record' \in Parents /\ UNCHANGED run /\ (Drop(filing) \/ UNCHANGED pending)
        /\ record.known => record'.known
        /\ (record.known /\ ~Watched(record)) => ~Watched(record')
        /\ \/ UNCHANGED <<record, handed>>
           \/ labels' = Held /\ ~Watched(record')
           \/ why = "gap_limit" /\ UNCHANGED handed
        /\ ChainOK' /\ PastOK'
    <2>1. CASE labels' = Held /\ HandedOver /\ why = "waiting"
      <3>1. UNCHANGED <<run, pending, chain, record, handed, vain>>
        BY <2>1 DEF HandedOver
      <3> QED BY <1>1, <3>1 DEF LaneInv, PastOK, ChainOK, chain
    <2>2. CASE labels' = Held /\ HandedOver /\ why # "waiting"
      <3>1. /\ handed' = TRUE /\ vain' = 0 /\ ForgetChain /\ UNCHANGED run
            /\ (Drop(filing) \/ UNCHANGED pending)
            /\ \/ record' = CountedAfter
               \/ record' = [record EXCEPT !.known = TRUE, !.handed = TRUE]
        BY <2>2 DEF HandedOver
      <3>2. CountedAfter \in Parents /\ CountedAfter.known /\ ~Watched(CountedAfter)
        BY <1>1, CountedAfterTyped
      <3>3. record' \in Parents /\ record'.known /\ ~Watched(record')
        BY <1>1, <3>1, <3>2, HandedTyped
      <3>4. ChainOK' /\ PastOK'
        BY <1>1, <3>1, ForgetOK DEF LaneInv, PastOK
      <3> QED BY <2>2, <3>1, <3>3, <3>4
    <2>3. CASE HandOverRefused
      <3>1. /\ UNCHANGED <<run, pending, failures, waiting, escape, handed>>
            /\ (UNCHANGED note \/ note' = (why # "verdict")) /\ vain' \in {vain, 0}
        BY <2>3 DEF HandOverRefused, Owed
      <3>2. ChainOK' /\ PastOK'
        <4>1. ChainOK'
          BY <3>1 DEF LaneInv, ChainOK
        <4>2. vain' \in Nat
          BY <3>1 DEF LaneInv, PastOK
        <4> QED BY <1>1, <3>1, <4>1, <4>2 DEF LaneInv, PastOK
      <3>3. CASE why = "gap_limit"
        <4>1. record' = [record EXCEPT !.known = TRUE, !.reviews = record.reviews + 1]
          BY <2>3, <3>3 DEF HandOverRefused
        <4> QED BY <1>1, <3>1, <3>2, <3>3, <4>1, CountedOnlyTyped
      <3>4. CASE why # "gap_limit"
        <4>1. UNCHANGED record
          BY <2>3, <3>4 DEF HandOverRefused
        <4> QED BY <1>1, <3>1, <3>2, <4>1
      <3> QED BY <3>3, <3>4
    <2> QED BY <2>1, <2>2, <2>3 DEF HandOver
  <1>5. LaneOK'
    BY <1>1, <1>4 DEF LaneInv, LaneOK
  <1>6. PendOK'
    BY <1>1, <1>4, DropOK DEF LaneInv, PendOK, pending
  <1> QED BY <1>1, <1>2, <1>3, <1>4, <1>5, <1>6 DEF LaneInv

\* A session is started on what was read of the issue.
LEMMA StartOK ==
    ASSUME LaneInv, phase # "idle", NEW kind \in {"triage", "parent_review"}, NEW known \in Seq(Nat),
           Start(kind, known), UNCHANGED <<record, stored>>
    PROVE  /\ LaneOK' /\ PendOK' /\ ChainOK' /\ PastOK' /\ HandsOK' /\ Placed' /\ Done
           /\ run'.kind = kind /\ run'.subs = subs /\ UNCHANGED <<pending, history>>
           /\ filing' = NoVerdict /\ pc' = "none"
  <1>1. /\ run' = [kind |-> kind, subs |-> subs, seen |-> known, stop |-> "none", ended |-> FALSE]
        /\ Done /\ UNCHANGED <<pending, chain, history>>
    BY DEF Start
  <1>2. run' \in Runs /\ ~run'.ended /\ run'.kind = kind /\ run'.subs = subs
    BY <1>1 DEF Runs, LaneInv, HandsOK
  <1>3. HandsOK' /\ Placed' /\ filing' = NoVerdict /\ pc' = "none"
    BY <1>1, DoneOK DEF LaneInv
  <1> QED
    BY <1>1, <1>2, <1>3
    DEF LaneInv, LaneOK, PendOK, ChainOK, PastOK, pending, chain, history

\* A session that no gate lets start leaves all as it was.
LEMMA PassedOK ==
    ASSUME LaneInv, phase # "idle", Passed, UNCHANGED stored
    PROVE  /\ LaneOK' /\ PendOK' /\ ChainOK' /\ PastOK' /\ HandsOK' /\ Placed'
           /\ UNCHANGED <<memory, history>> /\ filing' = NoVerdict /\ pc' = "none"
  <1>1. Done /\ UNCHANGED <<memory, history>>
    BY DEF Passed
  <1> QED BY <1>1, DoneOK, MemoryRests DEF LaneInv

\* The candidates are read.
LEMMA LaneCandidates ==
    ASSUME LaneInv, CandidatesRead
    PROVE  /\ LaneInv' /\ UNCHANGED <<github, run, pending, record, stored, handed>>
           /\ \/ pc' = "none" /\ filing' = NoVerdict
              \/ /\ Candidate /\ ~Busy /\ pc = "none" /\ UNCHANGED <<phase, filing>>
                 /\ pc' \in {"hand_over", "hand_back", "approval"} /\ subs' = (steps # <<>>)
                 /\ pc' = "hand_back" => steps = <<>>
  <1>1. phase = "candidates" /\ pc = "none" /\ UNCHANGED <<github, stored>>
    BY DEF CandidatesRead
  <1>2. CASE Passed
    BY <1>1, <1>2, PassedOK, GitHubRests DEF LaneInv, memory, history
  <1>3. CASE /\ escape' = (escape /\ ~TakenBack) /\ note' = (note /\ ~TakenBack)
             /\ UNCHANGED <<run, pending, failures, waiting, record, history>>
             /\ \/ Done
                \/ /\ Candidate /\ ~Busy /\ subs' = (steps # <<>>)
                   /\ pc' = CASE note -> "hand_over"
                              [] ~note /\ ~escape -> "approval"
                              [] OTHER -> IF steps = <<>> THEN "hand_back" ELSE "hand_over"
                   /\ UNCHANGED <<phase, filing, seen, found, at>>
    <2>1. LaneOK' /\ PendOK' /\ ChainOK' /\ PastOK' /\ UNCHANGED handed
      BY <1>1, <1>3 DEF LaneInv, LaneOK, PendOK, ChainOK, PastOK, pending, history
    <2>2. CASE Done
      BY <1>1, <1>3, <2>1, <2>2, DoneOK, GitHubRests DEF LaneInv
    <2>3. CASE /\ Candidate /\ ~Busy /\ subs' = (steps # <<>>)
               /\ pc' = CASE note -> "hand_over"
                          [] ~note /\ ~escape -> "approval"
                          [] OTHER -> IF steps = <<>> THEN "hand_back" ELSE "hand_over"
               /\ UNCHANGED <<phase, filing, seen, found, at>>
      <3>1. /\ pc' \in {"hand_over", "hand_back", "approval"}
            /\ pc' = "hand_back" => steps = <<>>
        BY <2>3 DEF LaneInv, ChainOK
      <3>2. HandsOK' /\ Placed'
        BY <1>1, <2>3, <3>1 DEF LaneInv, HandsOK, Placed, FilingAt
      <3> QED BY <1>1, <1>3, <2>1, <2>3, <3>1, <3>2, GitHubRests DEF LaneInv
    <2> QED BY <1>3, <2>2, <2>3
  <1>4. \/ Passed
        \/ /\ escape' = (escape /\ ~TakenBack) /\ note' = (note /\ ~TakenBack)
           /\ UNCHANGED <<run, pending, failures, waiting, record, history>>
           /\ \/ Done
              \/ /\ Candidate /\ ~Busy /\ subs' = (steps # <<>>)
                 /\ pc' = CASE note -> "hand_over"
                            [] ~note /\ ~escape -> "approval"
                            [] OTHER -> IF steps = <<>> THEN "hand_back" ELSE "hand_over"
                 /\ UNCHANGED <<phase, filing, seen, found, at>>
    BY DEF CandidatesRead
  <1> QED BY <1>2, <1>3, <1>4

\* A candidate that the gate admits, and whose approval is checked.
LEMMA LaneApproval ==
    ASSUME LaneInv, Approval
    PROVE  /\ LaneInv' /\ UNCHANGED <<github, pending, record, stored, handed>>
           /\ \/ pc' = "none" /\ filing' = NoVerdict /\ UNCHANGED run
              \/ /\ UNCHANGED <<run, phase, filing, subs>>
                 /\ \/ pc' = "sub_issues"
                    \/ pc' = "hand_over"
                    \/ pc' = "hand_back" /\ ~subs
              \/ /\ pc' = "none" /\ filing' = NoVerdict
                 /\ run'.kind = "triage" /\ ~subs
  <1>1. phase = "candidates" /\ pc = "approval" /\ UNCHANGED <<github, stored>>
    BY DEF Approval
  <1>2. CASE Passed
    BY <1>1, <1>2, PassedOK, GitHubRests DEF LaneInv, memory, history
  <1>3. CASE HandBackFor("refused", subs) /\ UNCHANGED <<memory, history>>
    <2>1. /\ HandsOK' /\ Placed' /\ UNCHANGED <<phase, filing, subs>>
          /\ \/ pc' = "hand_over"
             \/ pc' = "hand_back" /\ ~subs
      BY <1>1, <1>3, HandBackForOK DEF LaneInv, HandBackFor
    <2> QED BY <1>1, <1>3, <2>1, MemoryRests, GitHubRests DEF LaneInv, memory, history
  <1>4. CASE subs /\ Ask("sub_issues") /\ UNCHANGED <<memory, history>>
    <2>1. HandsOK' /\ Placed' /\ UNCHANGED <<phase, filing, subs>> /\ pc' = "sub_issues"
      BY <1>1, <1>4 DEF LaneInv, HandsOK, Placed, FilingAt, Ask
    <2> QED BY <1>1, <1>4, <2>1, MemoryRests, GitHubRests DEF LaneInv, memory, history
  <1>5. CASE ~subs /\ Start("triage", <<>>) /\ UNCHANGED record
    <2>1. <<>> \in Seq(Nat)
      OBVIOUS
    <2>2. LaneOK' /\ PendOK' /\ ChainOK' /\ PastOK' /\ HandsOK' /\ Placed' /\ run'.kind = "triage"
          /\ UNCHANGED <<pending, history>> /\ filing' = NoVerdict /\ pc' = "none"
      BY <1>1, <1>5, <2>1, StartOK
    <2> QED BY <1>1, <1>5, <2>2, GitHubRests DEF LaneInv, history
  <1> QED BY <1>2, <1>3, <1>4, <1>5 DEF Approval

\* A review a human asked for, or what is owed in its place.
LEMMA LaneRequested ==
    ASSUME LaneInv, RequestedReview
    PROVE  /\ LaneInv' /\ UNCHANGED <<github, pending, stored, handed>>
           /\ record' \in {record, Parent}
           /\ \/ pc' = "none" /\ filing' = NoVerdict /\ UNCHANGED <<run, record>>
              \/ /\ UNCHANGED <<run, phase, filing>> /\ pc' = "hand_over"
              \/ /\ pc' = "none" /\ filing' = NoVerdict
                 /\ \/ run'.kind = "triage" /\ steps = <<>> /\ UNCHANGED record
                    \/ run'.kind = "parent_review" /\ record' = Parent
  <1>1. phase = "candidates" /\ pc = "sub_issues" /\ UNCHANGED <<github, stored>>
    BY DEF RequestedReview, LaneInv, Placed
  <1>2. CASE Passed
    BY <1>1, <1>2, PassedOK, GitHubRests DEF LaneInv, memory, history
  <1>3. CASE steps = <<>> /\ Start("triage", <<>>) /\ UNCHANGED record
    <2>1. <<>> \in Seq(Nat)
      OBVIOUS
    <2>2. LaneOK' /\ PendOK' /\ ChainOK' /\ PastOK' /\ HandsOK' /\ Placed' /\ run'.kind = "triage"
          /\ UNCHANGED <<pending, history>> /\ filing' = NoVerdict /\ pc' = "none"
      BY <1>1, <1>3, <2>1, StartOK
    <2> QED BY <1>1, <1>3, <2>2, GitHubRests DEF LaneInv, history
  <1>4. CASE record' = Parent /\ Start("parent_review", Numbers(steps))
    <2>1. Numbers(steps) \in Seq(Nat)
      BY NumbersTyped DEF LaneInv, GitHubOK
    <2> DEFINE known == Numbers(steps)
    <2> HIDE DEF known
    <2>2. /\ run' = [kind |-> "parent_review", subs |-> subs, seen |-> known, stop |-> "none",
                     ended |-> FALSE]
          /\ Done /\ UNCHANGED <<pending, chain, history>>
      BY <1>4 DEF Start, known
    <2>3. run' \in Runs /\ ~run'.ended /\ run'.kind = "parent_review"
      BY <2>1, <2>2 DEF Runs, LaneInv, HandsOK, known
    <2>4. HandsOK' /\ Placed' /\ filing' = NoVerdict /\ pc' = "none"
      BY <1>1, <2>2, DoneOK DEF LaneInv
    <2>5. LaneOK' /\ PendOK' /\ ChainOK' /\ PastOK' /\ UNCHANGED handed
      BY <1>1, <1>4, <2>2, <2>3, ParentsTyped
      DEF LaneInv, LaneOK, PendOK, ChainOK, PastOK, pending, chain, history
    <2> QED BY <1>1, <1>4, <2>2, <2>3, <2>4, <2>5, GitHubRests DEF LaneInv
  <1>5. CASE record' = Parent /\ AskToWait /\ UNCHANGED <<run, pending, chain, history>>
    <2>1. HandsOK' /\ Placed' /\ UNCHANGED <<phase, filing>> /\ pc' = "hand_over"
      BY <1>1, <1>5, HandBackForOK DEF LaneInv, AskToWait
    <2>2. LaneOK' /\ PendOK' /\ ChainOK' /\ PastOK' /\ UNCHANGED handed
      BY <1>1, <1>5, ParentsTyped
      DEF LaneInv, LaneOK, PendOK, ChainOK, PastOK, pending, chain, history
    <2> QED BY <1>1, <1>5, <2>1, <2>2, GitHubRests DEF LaneInv
  <1> QED BY <1>2, <1>3, <1>4, <1>5 DEF RequestedReview

\* The watched parent's steps are read.
LEMMA LaneWatchRead ==
    ASSUME LaneInv, WatchRead
    PROVE  /\ LaneInv' /\ UNCHANGED <<github, run, pending, stored, handed>>
           /\ \/ pc' = "none" /\ filing' = NoVerdict
                 /\ (UNCHANGED record \/ (record'.known = record.known /\ ~Watched(record')))
              \/ /\ Watched(record) /\ UNCHANGED record /\ run.kind = "none" /\ pc = "none"
                 /\ pc' = "issues" /\ UNCHANGED <<phase, filing>>
  <1>1. phase = "watch" /\ pc = "none" /\ UNCHANGED <<github, stored>> /\ record \in Parents
    BY DEF WatchRead, LaneInv, LaneOK
  <1>2. CASE Passed
    BY <1>1, <1>2, PassedOK, GitHubRests DEF LaneInv, memory, history
  <1>3. CASE /\ UNCHANGED <<run, pending, history>> /\ Done /\ (UNCHANGED chain \/ ForgetChain)
             /\ (UNCHANGED record \/ record' = [record EXCEPT !.finished = TRUE])
    <2>1. record' \in Parents /\ (UNCHANGED record \/ (record'.known = record.known
                                                          /\ ~Watched(record')))
      BY <1>1, <1>3, ParentMarked DEF Watched
    <2>2. HandsOK' /\ Placed' /\ pc' = "none" /\ filing' = NoVerdict
      BY <1>1, <1>3, DoneOK DEF LaneInv
    <2>3. LaneOK' /\ PendOK' /\ ChainOK' /\ PastOK' /\ UNCHANGED handed
      BY <1>1, <1>3, <2>1, ForgetOK
      DEF LaneInv, LaneOK, PendOK, ChainOK, PastOK, pending, chain, history
    <2> QED BY <1>1, <1>3, <2>1, <2>2, <2>3, GitHubRests DEF LaneInv
  <1>4. CASE /\ UNCHANGED <<run, pending, history>> /\ Watched(record) /\ UNCHANGED <<chain, record>>
             /\ run.kind = "none" /\ pc' = "issues" /\ seen' = Numbers(steps)
             /\ UNCHANGED <<phase, filing, subs, found, at>>
    <2>1. Numbers(steps) \in Seq(Nat)
      BY NumbersTyped DEF LaneInv, GitHubOK
    <2>2. HandsOK' /\ Placed'
      BY <1>1, <1>4, <2>1 DEF LaneInv, HandsOK, Placed, FilingAt
    <2>3. LaneOK' /\ PendOK' /\ ChainOK' /\ PastOK' /\ UNCHANGED handed
      BY <1>1, <1>4 DEF LaneInv, LaneOK, PendOK, ChainOK, PastOK, pending, chain, history
    <2> QED BY <1>1, <1>4, <2>2, <2>3, GitHubRests DEF LaneInv
  <1> QED BY <1>2, <1>3, <1>4 DEF WatchRead

\* The watched parent's issue is read.
LEMMA LaneWatchIssues ==
    ASSUME LaneInv, WatchIssues
    PROVE  /\ LaneInv' /\ UNCHANGED <<github, memory, stored, history>>
           /\ \/ pc' = "none" /\ filing' = NoVerdict
              \/ pc' \in {"hand_over", "approval"} /\ UNCHANGED <<phase, filing>>
  <1>1. phase = "watch" /\ pc = "issues" /\ UNCHANGED <<github, stored>>
    BY DEF WatchIssues, LaneInv, Placed
  <1>2. UNCHANGED <<memory, history>>
    BY DEF WatchIssues, Passed
  <1>3. /\ HandsOK' /\ Placed'
        /\ \/ pc' = "none" /\ filing' = NoVerdict
           \/ pc' \in {"hand_over", "approval"} /\ UNCHANGED <<phase, filing>>
    <2>1. CASE Passed
      BY <1>1, <2>1, PassedOK DEF LaneInv
    <2>2. CASE Ask("hand_over")
      BY <1>1, <2>2 DEF Ask, LaneInv, HandsOK, Placed, FilingAt
    <2>3. CASE OverCap
      BY <1>1, <2>3, HandBackForOK DEF OverCap, LaneInv
    <2>4. CASE pc' = "approval" /\ subs' = (steps # <<>>) /\ UNCHANGED <<phase, filing, seen, at>>
      BY <1>1, <2>4 DEF LaneInv, HandsOK, Placed, FilingAt
    <2> QED BY <2>1, <2>2, <2>3, <2>4 DEF WatchIssues
  <1> QED BY <1>1, <1>2, <1>3, MemoryRests, GitHubRests DEF LaneInv

\* A watched parent's review is started, or what is owed in its place.
LEMMA LaneWatchApproval ==
    ASSUME LaneInv, WatchApproval
    PROVE  /\ LaneInv' /\ UNCHANGED <<github, pending, record, stored, handed>>
           /\ \/ pc' = "none" /\ filing' = NoVerdict /\ UNCHANGED run
              \/ pc' = "hand_over" /\ UNCHANGED <<run, phase, filing>>
              \/ pc' = "none" /\ filing' = NoVerdict /\ run'.kind = "parent_review"
  <1>1. phase = "watch" /\ pc = "approval" /\ UNCHANGED <<github, stored>>
    BY DEF WatchApproval
  <1>2. CASE Passed
    BY <1>1, <1>2, PassedOK, GitHubRests DEF LaneInv, memory, history
  <1>3. CASE HandBackFor("refused", TRUE) /\ UNCHANGED <<memory, history>>
    <2>1. HandsOK' /\ Placed' /\ UNCHANGED <<phase, filing>> /\ pc' = "hand_over"
      BY <1>1, <1>3, HandBackForOK DEF LaneInv
    <2> QED BY <1>1, <1>3, <2>1, MemoryRests, GitHubRests DEF LaneInv, memory, history
  <1>4. CASE Start("parent_review", seen) /\ UNCHANGED record
    <2>1. seen \in Seq(Nat)
      BY DEF LaneInv, HandsOK
    <2>2. LaneOK' /\ PendOK' /\ ChainOK' /\ PastOK' /\ HandsOK' /\ Placed'
          /\ run'.kind = "parent_review"
          /\ UNCHANGED <<pending, history>> /\ filing' = NoVerdict /\ pc' = "none"
      BY <1>1, <1>4, <2>1, StartOK
    <2> QED BY <1>1, <1>4, <2>2, GitHubRests DEF LaneInv, history
  <1> QED BY <1>2, <1>3, <1>4 DEF WatchApproval
\* A session's task ends.
LEMMA LaneSessionEnds ==
    ASSUME LaneInv, SessionEnds
    PROVE  /\ LaneInv' /\ UNCHANGED <<github, pending, record, stored, control, history>>
           /\ run'.kind = run.kind /\ run'.subs = run.subs
  <1>1. /\ run.kind # "none" /\ run' = [run EXCEPT !.ended = TRUE]
        /\ UNCHANGED <<github, pending, chain, record, stored, control, history>>
    BY DEF SessionEnds
  <1>2. run' \in Runs /\ run'.kind = run.kind /\ run'.subs = run.subs
    BY <1>1 DEF LaneInv, LaneOK, Runs
  <1>3. LaneOK' /\ PendOK' /\ ChainOK' /\ PastOK'
    BY <1>1, <1>2 DEF LaneInv, LaneOK, PendOK, ChainOK, PastOK, pending, chain, history
  <1>4. HandsOK' /\ Placed'
    BY <1>1 DEF LaneInv, HandsOK, Placed, FilingAt, control, inHand
  <1> QED BY <1>1, <1>2, <1>3, <1>4, GitHubRests DEF LaneInv

\* What a session may answer is a verdict of its kind.
LEMMA VerdictsTyped ==
    ASSUME LaneInv, run.kind # "none", NEW v \in Verdicts
    PROVE  /\ v \in Filed /\ v.kind # "none"
           /\ OfReview(v) <=> run.kind = "parent_review"
  <1>1. Cardinality(Titles) \in Nat
    BY TriageAssumption, FS_CardinalityType
  <1>2. /\ record.reviews + 1 \in Nat /\ record.gaps \in Nat /\ record.gaps + 1 \in Nat
        /\ run.seen \in Seq(Nat) /\ run.subs \in BOOLEAN /\ batches + 1 \in Nat
        /\ run.kind \in {"triage", "parent_review"}
    BY DEF LaneInv, LaneOK, PastOK, Parents, Runs
  <1> DEFINE counts == <<record.reviews + 1, record.gaps>>
             kinds == IF run.kind = "triage" THEN {"split", "fits"} ELSE {"next", "gap", "met"}
  <1>3. counts \in Nat \X Nat /\ <<counts[1], counts[2] + 1>> \in Nat \X Nat
    BY <1>2
  <1> HIDE DEF counts
  <1>4. PICK kind \in kinds, d \in Nat, c \in Nat \X Nat : v = Verdict(kind, d, run.seen, c)
    BY <1>1, <1>3 DEF Verdicts, counts
  <1>5. v = [kind |-> kind, drafts |-> d, seen |-> run.seen, counts |-> c, subs |-> run.subs,
             batch |-> batches + 1, swapped |-> FALSE, tries |-> 0]
    BY <1>4 DEF Verdict
  <1>6. kind \in {"fits", "split", "met", "next", "gap"}
    BY <1>4
  <1>7. v \in Filed /\ v.kind = kind
    BY <1>2, <1>5, <1>6 DEF Filed
  <1> QED BY <1>2, <1>4, <1>6, <1>7 DEF OfReview

\* A session's end is handled.
LEMMA LaneExit ==
    ASSUME LaneInv, Exit
    PROVE  /\ LaneInv' /\ UNCHANGED <<github, pending, record, stored, handed>>
           /\ run' = NoRun /\ run.kind # "none" /\ filing.kind = "none"
           /\ \/ UNCHANGED control
              \/ /\ pc' = "owed" /\ filing' \in Filed
                 /\ OfReview(filing') <=> run.kind = "parent_review"
              \/ /\ phase' = "exit" /\ filing' = filing /\ pc' \in {"hand_over", "hand_back"}
                 /\ pc' = "hand_back" => run.kind = "triage" /\ ~run.subs
  <1>1. /\ phase = "idle" /\ pc = "none" /\ run' = NoRun /\ run.kind # "none" /\ run \in Runs
        /\ filing.kind = "none" /\ UNCHANGED <<github, pending, record, stored>>
    BY DEF Exit, LaneInv, LaneOK, Placed
  <1>2. NoRun \in Runs /\ ~NoRun.ended
    BY DEF NoRun, Runs
  <1>3. LaneOK' /\ PendOK'
    BY <1>1, <1>2 DEF LaneInv, LaneOK, PendOK, pending
  <1>4. CASE UNCHANGED control /\ UNCHANGED history /\ (ForgetChain \/ UNCHANGED chain)
    BY <1>1, <1>3, <1>4, ForgetOK, GitHubRests
    DEF LaneInv, ChainOK, PastOK, HandsOK, Placed, FilingAt, chain, history, control, inHand
  <1>5. CASE ExitWithVerdict
    <2>1. filing' \in Verdicts /\ batches' = batches + 1 /\ pc' = "owed" /\ phase' = "exit"
          /\ UNCHANGED <<subs, seen, at, chain, handed, acted, gaps, vain>>
      BY <1>5 DEF ExitWithVerdict
    <2>2. /\ filing' \in Filed /\ filing'.kind # "none"
          /\ OfReview(filing') <=> run.kind = "parent_review"
      BY <1>1, <2>1, VerdictsTyped
    <2>3. HandsOK' /\ Placed'
      BY <2>1, <2>2 DEF LaneInv, HandsOK, Placed, FilingAt
    <2>4. ChainOK' /\ PastOK'
      BY <2>1 DEF LaneInv, ChainOK, PastOK, chain
    <2> QED BY <1>1, <1>3, <2>1, <2>2, <2>3, <2>4, GitHubRests DEF LaneInv
  <1>6. CASE ExitFailed
    <2>1. PastOK' /\ UNCHANGED handed
      BY <1>6 DEF ExitFailed, LaneInv, PastOK
    <2>2. CASE failures' = failures + 1 /\ waiting' = TRUE /\ UNCHANGED <<escape, note, control>>
      BY <1>1, <1>3, <2>1, <2>2, GitHubRests
      DEF LaneInv, ChainOK, HandsOK, Placed, FilingAt, control, inHand
    <2>3. CASE /\ ForgetChain /\ phase' = "exit" /\ why' = "failed"
               /\ pc' = (IF run.kind = "parent_review" \/ run.subs THEN "hand_over" ELSE "hand_back")
               /\ UNCHANGED <<filing, subs, seen, found, at>>
      <3>1. /\ pc' \in {"hand_over", "hand_back"}
            /\ pc' = "hand_back" => run.kind = "triage" /\ ~run.subs
        BY <1>1, <2>3 DEF Runs
      <3>2. HandsOK' /\ Placed'
        BY <2>3, <3>1 DEF LaneInv, HandsOK, Placed, FilingAt
      <3> QED BY <1>1, <1>3, <2>1, <2>3, <3>1, <3>2, ForgetOK, GitHubRests DEF LaneInv
    <2> QED BY <1>6, <2>2, <2>3 DEF ExitFailed
  <1>7. CASE waiting' = TRUE /\ UNCHANGED <<failures, escape, note, control, history>>
    BY <1>1, <1>3, <1>7, GitHubRests
    DEF LaneInv, ChainOK, PastOK, HandsOK, Placed, FilingAt, history, control, inHand
  <1> QED BY <1>4, <1>5, <1>6, <1>7 DEF Exit

\* What is in hand is not touched by.
LEMMA HandRests ==
    ASSUME LaneInv, UNCHANGED control
    PROVE  HandsOK' /\ Placed'
  BY DEF LaneInv, HandsOK, Placed, FilingAt, control, inHand

\* A backoff is over.
LEMMA LaneExpire ==
    ASSUME LaneInv, Expire
    PROVE  LaneInv' /\ UNCHANGED <<github, run, pending, record, stored, control, history>>
  <1>1. waiting' = FALSE /\ UNCHANGED <<failures, escape, note>>
        /\ UNCHANGED <<github, run, pending, record, stored, control, history>>
    BY DEF Expire
  <1>2. LaneOK' /\ PendOK' /\ ChainOK' /\ PastOK'
    BY <1>1 DEF LaneInv, LaneOK, PendOK, ChainOK, PastOK, pending, history
  <1> QED BY <1>1, <1>2, HandRests, GitHubRests DEF LaneInv

\* The record is written to the store.
LEMMA LaneStore ==
    ASSUME LaneInv, Store
    PROVE  LaneInv' /\ UNCHANGED <<github, memory, control, history>>
  <1>1. stored' = record /\ UNCHANGED <<github, memory, control, history>>
    BY DEF Store
  <1>2. LaneOK' /\ PendOK' /\ ChainOK' /\ PastOK'
    BY <1>1 DEF LaneInv, LaneOK, PendOK, ChainOK, PastOK, memory, pending, chain, history
  <1> QED BY <1>1, <1>2, HandRests, GitHubRests DEF LaneInv

\* The next process knows the stored record.
LEMMA LaneRestart ==
    ASSUME LaneInv, Restart
    PROVE  /\ LaneInv' /\ UNCHANGED <<github, stored>>
           /\ run' = NoRun /\ verdict' = NoVerdict /\ review' = NoVerdict /\ filing' = NoVerdict
           /\ pc' = "none" /\ record' = (IF stored.finished THEN NoParent ELSE stored)
           /\ handed' = (handed /\ stored.handed)
  <1>1. /\ UNCHANGED <<github, stored, batches>>
        /\ run' = NoRun /\ verdict' = NoVerdict /\ review' = NoVerdict /\ filing' = NoVerdict
        /\ pc' = "none" /\ phase' = "idle" /\ subs' = FALSE /\ seen' = <<>> /\ at' = 0
        /\ record' = IF stored.finished THEN NoParent ELSE stored
        /\ handed' = (handed /\ stored.handed) /\ ForgetChain /\ vain' = 0
        /\ acted' \in {0, stored.reviews, acted} /\ gaps' \in {0, stored.gaps, gaps}
    BY DEF Restart, Enter
  <1>2. NoRun \in Runs /\ ~NoRun.ended /\ seen' \in Seq(Nat)
    BY <1>1 DEF NoRun, Runs
  <1>3. LaneOK' /\ PendOK' /\ ChainOK'
    BY <1>1, <1>2, ParentsTyped, NoVerdictTyped, ForgetOK DEF LaneInv, LaneOK, PendOK
  <1>4. PastOK'
    BY <1>1 DEF LaneInv, LaneOK, PastOK, Parents
  <1>5. HandsOK' /\ Placed'
    BY <1>1, <1>2, NoVerdictTyped DEF HandsOK, Placed, FilingAt
  <1> QED BY <1>1, <1>3, <1>4, <1>5, GitHubRests DEF LaneInv

\* What humans do, and what closes a step, is GitHub's: none hands a parent to a human.
LEMMA LaneHumans ==
    ASSUME LaneInv, Human \/ StepCloses
    PROVE  /\ LaneInv' /\ UNCHANGED <<memory, stored, control>>
           /\ handed' \in {handed, FALSE}
           /\ ("triage_todo" \in labels' /\ "triage_todo" \notin labels) => ~handed'
           /\ (\A k \in DOMAIN steps : steps[k].by = 0)
                 => (\A k \in DOMAIN steps' : steps'[k].by = 0)
           /\ StepCloses => UNCHANGED labels
  <1>1. CASE HumanAsks
    <2>1. /\ labels' \subseteq Labels /\ UNCHANGED <<state, steps, numbered, batches>>
          /\ UNCHANGED <<memory, stored, control>> /\ handed' = FALSE
          /\ acted' = 0 /\ gaps' = 0 /\ vain' = 0
      BY <1>1 DEF HumanAsks, Touched, Aside, LaneInv, GitHubOK, Labels, TriageLabels
    <2> QED BY <1>1, <2>1, HandRests
        DEF LaneInv, GitHubOK, LaneOK, PendOK, ChainOK, PastOK, memory, pending, chain,
            HumanAsks, StepCloses
  <1>2. CASE HumanRelabels
    <2>1. /\ UNCHANGED <<state, steps, numbered, batches, handed>>
          /\ UNCHANGED <<memory, stored, control>> /\ acted' = 0 /\ gaps' = 0 /\ vain' = 0
      BY <1>2 DEF HumanRelabels, Touched, Aside
    <2>2. labels' \subseteq Labels /\ ("triage_todo" \in labels' => "triage_todo" \in labels)
      <3>1. \/ \E l \in labels : labels' = labels \ {l}
            \/ \E l \in {"work", "triage_complete"} : labels' = labels \cup {l}
        BY <1>2 DEF HumanRelabels
      <3>2. labels \subseteq Labels
        BY DEF LaneInv, GitHubOK
      <3> QED BY <3>1, <3>2 DEF Labels, TriageLabels, StateLabels
    <2> QED BY <1>2, <2>1, <2>2, HandRests
        DEF LaneInv, GitHubOK, LaneOK, PendOK, ChainOK, PastOK, memory, pending, chain,
            HumanRelabels, StepCloses
  <1>3. CASE HumanCloses
    <2>1. /\ UNCHANGED <<labels, steps, numbered, batches, handed>> /\ state' \in {"open", "closed"}
          /\ UNCHANGED <<memory, stored, control>> /\ acted' = 0 /\ gaps' = 0 /\ vain' = 0
      BY <1>3 DEF HumanCloses, Touched, Aside
    <2> QED BY <2>1, HandRests
        DEF LaneInv, GitHubOK, LaneOK, PendOK, ChainOK, PastOK, memory, pending, chain
  <1>4. CASE StepCloses \/ HumanReopensStep
    <2>1. PICK k \in DOMAIN steps, b \in BOOLEAN : steps' = [steps EXCEPT ![k].open = b]
      BY <1>4 DEF StepCloses, HumanReopensStep
    <2>2. UNCHANGED <<state, labels, numbered, history, memory, stored, control>>
      BY <1>4 DEF StepCloses, HumanReopensStep, Aside
    <2>3. /\ GitHubOK' /\ DOMAIN steps' = DOMAIN steps
          /\ \A l \in DOMAIN steps : steps'[l].by = steps[l].by
      BY <2>1, <2>2, OpenOK DEF LaneInv
    <2>4. UNCHANGED <<labels, handed>>
      BY <2>2 DEF history
    <2> QED BY <2>2, <2>3, <2>4, MemoryRests, HandRests DEF LaneInv
  <1>5. CASE HumanAddsStep
    <2>1. PICK t \in Titles : steps' = Append(steps, [n |-> numbered + 1, title |-> t, by |-> 0,
                                                      open |-> TRUE, operator |-> FALSE])
      BY <1>5 DEF HumanAddsStep
    <2>2. numbered' = numbered + 1 /\ UNCHANGED <<state, labels, history, memory, stored, control>>
      BY <1>5 DEF HumanAddsStep, Aside
    <2> DEFINE new == [n |-> numbered + 1, title |-> t, by |-> 0, open |-> TRUE, operator |-> FALSE]
    <2>3. new \in Steps /\ new.by = 0
      <3>1. t \in Nat
        BY TriageAssumption, FS_CardinalityType
      <3> QED BY <3>1 DEF Steps, LaneInv, GitHubOK
    <2>4. steps' = Append(steps, new)
      BY <2>1
    <2> HIDE DEF new
    <2>5. /\ steps' \in Seq(Steps) /\ Len(steps') = Len(steps) + 1
          /\ \A i \in 1..Len(steps) : steps'[i] = steps[i]
          /\ steps'[Len(steps) + 1] = new
      BY <2>3, <2>4, AppendProperties DEF LaneInv, GitHubOK
    <2>6. Len(steps) \in Nat /\ DOMAIN steps = 1..Len(steps) /\ DOMAIN steps' = 1..Len(steps) + 1
      BY <2>5, LenProperties DEF LaneInv, GitHubOK
    <2>7. (\A k \in DOMAIN steps : steps[k].by = 0) => (\A k \in DOMAIN steps' : steps'[k].by = 0)
      <3> SUFFICES ASSUME \A k \in DOMAIN steps : steps[k].by = 0, NEW k \in DOMAIN steps'
                   PROVE  steps'[k].by = 0
        OBVIOUS
      <3>1. CASE k \in 1..Len(steps)
        BY <2>5, <2>6, <3>1
      <3>2. CASE k = Len(steps) + 1
        BY <2>3, <2>5, <3>2
      <3> QED BY <2>6, <3>1, <3>2
    <2>8. GitHubOK' /\ UNCHANGED <<labels, handed>>
      BY <2>2, <2>5 DEF LaneInv, GitHubOK, history
    <2> QED BY <2>2, <2>7, <2>8, MemoryRests, HandRests DEF LaneInv
  <1>6. CASE HumanUnlinks
    <2>1. steps' = <<>> /\ UNCHANGED <<state, labels, numbered, history, memory, stored, control>>
      BY <1>6 DEF HumanUnlinks, Aside
    <2>2. steps' \in Seq(Steps) /\ DOMAIN steps' = {}
      BY <2>1
    <2>3. GitHubOK' /\ UNCHANGED <<labels, handed>>
      BY <2>1, <2>2 DEF LaneInv, GitHubOK, history
    <2> QED BY <2>1, <2>2, <2>3, MemoryRests, HandRests DEF LaneInv
  <1> QED BY <1>1, <1>2, <1>3, <1>4, <1>5, <1>6 DEF Human

\* Nothing moves.
LEMMA LaneStutter == ASSUME LaneInv, UNCHANGED vars PROVE LaneInv'
  <1>1. UNCHANGED <<github, memory, stored, control, history>>
    BY DEF vars
  <1> QED BY <1>1, MemoryRests, HandRests, GitHubRests DEF LaneInv

\* A step of the lane keeps the types.
LEMMA LaneNext == ASSUME LaneInv, [Next]_vars PROVE LaneInv'
  <1>1. CASE Worker
    BY <1>1, LaneTick, LaneRefresh, LaneRetry, LaneExit, LaneOwedRead, LaneStepsRead, LaneList,
       LaneCreate, LaneMark, LaneSwap, LaneMet, LaneClose, LaneComment, LaneHandRead, LaneHandBack,
       LaneHandOver, LaneCandidates, LaneApproval, LaneRequested, LaneWatchRead, LaneWatchIssues,
       LaneWatchApproval
    DEF Worker
  <1>2. CASE SessionEnds \/ Expire \/ Store \/ Restart \/ Human \/ StepCloses
    BY <1>2, LaneSessionEnds, LaneExpire, LaneStore, LaneRestart, LaneHumans
  <1> QED BY <1>1, <1>2, LaneStutter DEF Next

\* Every variable of the lane keeps its type, whatever fails or restarts and whatever humans
\* do: a verdict waiting for a retry is one of its own kind (_triage_pending, _parent_pending).
THEOREM TriageTyped == Spec => []TriageTypeOK
  <1>1. LaneInv => TriageTypeOK
    BY DEF LaneInv, GitHubOK, LaneOK, PendOK, ChainOK, PastOK, HandsOK, TriageTypeOK
  <1> QED BY <1>1, LaneInit, LaneNext, PTL DEF Spec
-----------------------------------------------------------------------------
(* Which parents are a human's *)

\* A review is going on, waits for its retry or is being filed.
Reviewing == run.kind = "parent_review" \/ review.kind # "none" \/ OfReview(filing)

\* A parent that is a human's asks for nothing and is not watched; so the request in hand, if
\* it may still start a review, is not one of such a parent.
HandInv ==
    /\ handed => "triage_todo" \notin labels /\ ~Watched(record)
    /\ (phase = "candidates" /\ pc \in {"approval", "sub_issues"}) => ~handed
    /\ (phase = "watch" /\ pc \in {"issues", "approval"}) => Watched(record)
    /\ Reviewing => record.known

\* What is still being filed asks the watch and the candidates for nothing.
LEMMA FilingIsNoRequest ==
    ASSUME Placed, pc \in FilingAt
    PROVE  pc \notin {"approval", "sub_issues", "issues"}
  BY DEF FilingAt

\* A review dropped or kept is no other than the one in hand.
LEMMA ReviewsStay ==
    ASSUME PendOK, NEW v \in Filed
    PROVE  /\ (Drop(v) /\ review'.kind # "none") => review.kind # "none"
           /\ (Keep(v) /\ review'.kind # "none") => review.kind # "none" \/ OfReview(v)
  BY NoVerdictTyped DEF Drop, Keep

\* A filing's step leaves the parent whose it is.
LEMMA HandOnward ==
    ASSUME LaneInv, HandInv, pc \in FilingAt, Onward, LaneInv',
           "triage_todo" \in labels' => "triage_todo" \in labels
    PROVE  HandInv'
  <1>1. CASE TryFails
    <2>1. /\ UNCHANGED <<run, record, handed>>
          /\ \/ filing' = NoVerdict /\ pc' = "none"
             \/ filing' = filing /\ pc' \in {"hand_over", "hand_read", "hand_back"}
      BY <1>1, TryFailsOK DEF history
    <2>2. review'.kind # "none" => review.kind # "none" \/ OfReview(filing)
      <3> filing \in Filed
        BY DEF LaneInv, HandsOK
      <3>1. Tried \in Filed /\ Tried.kind = filing.kind
        BY DEF Tried, Filed
      <3>2. Keep(Tried)
        BY <1>1 DEF TryFails
      <3> QED BY <3>1, <3>2, ReviewsStay DEF LaneInv, OfReview
    <2>3. Reviewing' => Reviewing
      BY <2>1, <2>2, NoVerdictTyped DEF Reviewing, OfReview
    <2> QED BY <2>1, <2>3 DEF HandInv, Watched
  <1>2. CASE /\ pc' \in FilingAt /\ filing'.kind = filing.kind
             /\ UNCHANGED <<memory, stored, phase, handed, batches>>
    <2>1. Reviewing' => Reviewing
      BY <1>2 DEF Reviewing, OfReview, memory, pending
    <2>2. pc' \notin {"approval", "sub_issues", "issues"}
      BY <1>2 DEF FilingAt
    <2> QED BY <1>2, <2>1, <2>2 DEF HandInv, Watched, memory
  <1> QED BY <1>1, <1>2 DEF Onward

\* A step that starts no review, hands no parent over and makes no request leaves a human's
\* parent one.
LEMMA HandKeeps ==
    ASSUME HandInv, pc' \notin {"approval", "sub_issues", "issues"},
           record.known => record'.known, handed' => handed,
           handed' => (Watched(record') => Watched(record)),
           handed' => ("triage_todo" \in labels' => "triage_todo" \in labels),
           Reviewing' => Reviewing
    PROVE  HandInv'
  BY DEF HandInv

\* So does one in which the worker does nothing.
LEMMA HandStays ==
    ASSUME HandInv, UNCHANGED <<record, review, control>>, run'.kind = run.kind, handed' => handed,
           handed' => ("triage_todo" \in labels' => "triage_todo" \in labels)
    PROVE  HandInv'
  <1>1. Reviewing' => Reviewing
    BY DEF Reviewing, OfReview, control, inHand
  <1> QED BY <1>1 DEF HandInv, Watched, control

\* Nor does a step that only moves on to the next part of the tick.
LEMMA HandAtRest ==
    ASSUME HandInv, pc' = "none", filing' = NoVerdict, UNCHANGED <<record, labels>>,
           handed' => handed, run'.kind = run.kind, review'.kind # "none" => review.kind # "none"
    PROVE  HandInv'
  <1>1. Reviewing' => Reviewing
    BY NoVerdictTyped DEF Reviewing, OfReview
  <1>2. Watched(record') => Watched(record)
    OBVIOUS
  <1> QED BY <1>1, <1>2, HandKeeps

\* Which filings read the steps, and which are handed over at the gap limit: reviews only.
GapInv ==
    /\ pc = "steps" => OfReview(filing)
    /\ (pc = "hand_over" /\ why = "gap_limit") => OfReview(filing)

\* A try that failed asks for neither.
LEMMA GapFails == ASSUME TryFails PROVE GapInv'
  <1>1. CASE Done
    BY <1>1 DEF Done, Enter, GapInv
  <1>2. CASE HandBackFor("review", TRUE) \/ HandBackFor("verdict", filing.subs)
    BY <1>2 DEF HandBackFor, GapInv
  <1>3. CASE Ask("hand_read")
    BY <1>3 DEF Ask, GapInv
  <1> QED BY <1>1, <1>2, <1>3 DEF TryFails, HandBackVerdict

\* The next draft's request is neither.
LEMMA GapDraft == ASSUME NEW k, NEW have, OnToDraft(k, have) PROVE GapInv'
  <1>1. pc' \in {"swap", "mark", "create"}
    BY DEF OnToDraft
  <1> QED BY <1>1 DEF GapInv

\* The first request of a filing.
LEMMA GapBegins == ASSUME LaneInv, pc \in FilingAt, Ask(Begin) PROVE GapInv'
  <1>1. Begin \in {"list", "swap", "comment", "met"}
    BY DEF Begin, Filings, LaneInv, Placed, HandsOK, Filed
  <1> QED BY <1>1 DEF Ask, GapInv

\* Only a review's filing is ever one of those.
LEMMA GapNext == ASSUME LaneInv, GapInv, [Next]_vars PROVE GapInv'
  <1>1. CASE Tick \/ Refresh \/ Retry \/ HandBack \/ HandOver \/ HandRead
    BY <1>1 DEF Tick, Refresh, Retry, HandBack, HandOver, HandRead, Passed, Done, Enter, HandBackFor,
                GapInv
  <1>2. CASE Exit
    BY <1>2 DEF Exit, ExitWithVerdict, ExitFailed, GapInv, control, inHand
  <1>3. CASE OwedRead
    <2>1. pc \in FilingAt
      BY <1>3 DEF OwedRead, FilingAt
    <2>2. CASE OfReview(filing) /\ Ask("steps")
      BY <2>2 DEF Ask, GapInv
    <2>3. CASE Done
      BY <2>3 DEF Done, Enter, GapInv
    <2> QED BY <1>3, <2>1, <2>2, <2>3, GapFails, GapBegins DEF OwedRead, Discard
  <1>4. CASE StepsRead
    <2>1. pc \in FilingAt /\ OfReview(filing)
      BY <1>4 DEF StepsRead, FilingAt, GapInv
    <2>2. CASE HandBackFor("gap_limit", TRUE)
      BY <2>1, <2>2 DEF HandBackFor, GapInv
    <2>3. CASE Done
      BY <2>3 DEF Done, Enter, GapInv
    <2> QED BY <1>4, <2>1, <2>2, <2>3, GapFails, GapBegins DEF StepsRead
  <1>5. CASE List \/ Create \/ Mark
    <2>1. CASE pc' = "mark"
      BY <2>1 DEF GapInv
    <2> QED BY <1>5, <2>1, GapFails, GapDraft DEF List, Create, Mark, MarkNext
  <1>6. CASE Swap \/ Met \/ Close \/ Comment
    <2>1. CASE Moved \/ Ask("close") \/ Done
      BY <2>1 DEF Moved, Ask, Done, Enter, GapInv
    <2> QED BY <1>6, <2>1, GapFails DEF Swap, Met, Close, Comment
  <1>7. CASE CandidatesRead \/ Approval \/ RequestedReview
    <2>1. CASE Done
      BY <2>1 DEF Done, Enter, GapInv
    <2>2. CASE pc' \in {"hand_over", "hand_back", "approval", "sub_issues"} /\ pc # "hand_over"
               /\ why' \in {"note", "failed", "none", "refused", "waiting"}
      BY <2>2 DEF GapInv
    <2>3. CASE pc' = "sub_issues"
      BY <2>3 DEF GapInv
    <2>4. CASE CandidatesRead
      <3>1. CASE /\ pc' = CASE note -> "hand_over"
                            [] ~note /\ ~escape -> "approval"
                            [] OTHER -> IF steps = <<>> THEN "hand_back" ELSE "hand_over"
                 /\ why' = CASE note -> "note" [] ~note /\ escape -> "failed" [] OTHER -> "none"
        BY <3>1 DEF GapInv
      <3> QED BY <2>1, <2>4, <3>1 DEF CandidatesRead, Passed
    <2>5. CASE Approval \/ RequestedReview
      BY <2>1, <2>2, <2>3, <2>5
      DEF Approval, RequestedReview, Passed, Start, HandBackFor, AskToWait, Ask
    <2> QED BY <1>7, <2>4, <2>5
  <1>8. CASE WatchRead \/ WatchIssues \/ WatchApproval
    BY <1>8 DEF WatchRead, WatchIssues, WatchApproval, Passed, Start, OverCap, HandBackFor, Ask, Done,
                Enter, GapInv
  <1>9. CASE SessionEnds \/ Expire \/ Store \/ Restart \/ Human \/ StepCloses \/ UNCHANGED vars
    <2>1. CASE UNCHANGED control
      BY <2>1 DEF GapInv, OfReview, control, inHand
    <2>2. CASE Restart
      BY <2>2 DEF Restart, Enter, GapInv
    <2>3. UNCHANGED control \/ Restart
      BY <1>9 DEF SessionEnds, Expire, Store, Human, StepCloses, HumanAsks, HumanRelabels,
                  HumanCloses, HumanReopensStep, HumanAddsStep, HumanUnlinks, Aside, vars
    <2> QED BY <2>1, <2>2, <2>3
  <1> QED BY <1>1, <1>2, <1>3, <1>4, <1>5, <1>6, <1>7, <1>8, <1>9 DEF Next, Worker

\* A filing read again, its steps read, or its split read before it is handed back.
LEMMA HandReads ==
    ASSUME LaneInv, HandInv, OwedRead \/ StepsRead \/ HandRead PROVE HandInv'
  <1>1. pc \in FilingAt /\ filing \in Filed
    BY DEF OwedRead, StepsRead, HandRead, FilingAt, LaneInv, HandsOK
  <1>2. UNCHANGED <<labels, run, record, handed>>
    BY LaneOwedRead, LaneStepsRead, LaneHandRead DEF github, memory, history
  <1>3. CASE TryFails
    BY <1>1, <1>2, <1>3, HandOnward, LaneOwedRead, LaneStepsRead, LaneHandRead DEF Onward
  <1>4. CASE (Drop(filing) \/ UNCHANGED pending) /\ pc' = "none" /\ filing' = NoVerdict
    <2>2. review'.kind # "none" => review.kind # "none"
      BY <1>1, <1>4, ReviewsStay DEF LaneInv, pending
    <2> QED BY <1>2, <1>4, <2>2, HandAtRest
  <1>5. CASE (Drop(filing) \/ UNCHANGED pending) /\ UNCHANGED filing
             /\ pc' \in FilingAt \cup {"hand_over", "hand_back"}
    <2>1. pc' \notin {"approval", "sub_issues", "issues"}
      BY <1>5 DEF FilingAt
    <2>2. review'.kind # "none" => review.kind # "none"
      BY <1>1, <1>5, ReviewsStay DEF LaneInv, pending
    <2>3. Reviewing' => Reviewing
      BY <1>2, <1>5, <2>2 DEF Reviewing, OfReview
    <2> QED BY <1>2, <2>1, <2>3, HandKeeps DEF Watched
  <1>6. CASE OwedRead
    <2>1. \/ TryFails
          \/ Drop(filing) /\ Done
          \/ UNCHANGED pending /\ UNCHANGED filing /\ pc' \in FilingAt
      BY <1>6, LaneOwedRead
    <2>2. CASE TryFails
      BY <1>3, <2>2
    <2>3. CASE Drop(filing) /\ Done
      BY <1>4, <2>3 DEF Done, Enter
    <2>4. CASE UNCHANGED pending /\ UNCHANGED filing /\ pc' \in FilingAt
      BY <1>5, <2>4
    <2> QED BY <2>1, <2>2, <2>3, <2>4
  <1>7. CASE StepsRead
    <2>1. \/ TryFails
          \/ Drop(filing) /\ Done
          \/ Drop(filing) /\ UNCHANGED filing /\ pc' = "hand_over"
          \/ UNCHANGED pending /\ UNCHANGED filing /\ pc' \in FilingAt
      BY <1>7, LaneStepsRead
    <2>2. CASE TryFails
      BY <1>3, <2>2
    <2>3. CASE Drop(filing) /\ Done
      BY <1>4, <2>3 DEF Done, Enter
    <2>4. CASE UNCHANGED pending /\ UNCHANGED filing /\ pc' \in FilingAt
      BY <1>5, <2>4
    <2>5. CASE Drop(filing) /\ UNCHANGED filing /\ pc' = "hand_over"
      BY <1>5, <2>5
    <2> QED BY <2>1, <2>2, <2>3, <2>4, <2>5
  <1>8. CASE HandRead
    <2>1. UNCHANGED pending
      BY <1>8 DEF HandRead, memory
    <2>2. \/ pc' = "none" /\ filing' = NoVerdict
          \/ UNCHANGED filing /\ pc' \in {"hand_over", "hand_back"}
      BY <1>8 DEF HandRead, Done, Enter, HandBackFor
    <2> QED BY <1>4, <1>5, <2>1, <2>2
  <1> QED BY <1>6, <1>7, <1>8

\* The requests of a filing.
LEMMA HandFiles ==
    ASSUME LaneInv, HandInv, List \/ Create \/ Mark \/ Swap \/ Met \/ Close PROVE HandInv'
  <1>1. pc \in FilingAt
    BY DEF List, Create, Mark, Swap, Met, Close, FilingAt
  <1>2. LaneInv' /\ Onward /\ labels' \in {labels, Held, Held \cup {"complete"}}
    BY LaneList, LaneCreate, LaneMark, LaneSwap, LaneMet, LaneClose DEF github
  <1>3. "triage_todo" \in labels' => "triage_todo" \in labels
    BY <1>2 DEF Held
  <1> QED BY <1>1, <1>2, <1>3, HandOnward

\* The comment, and with it the verdict: filed, the parent is the worker's again.
LEMMA HandFiled == ASSUME LaneInv, HandInv, Comment PROVE HandInv'
  <1>1. pc \in FilingAt /\ filing \in Filed /\ LaneInv' /\ UNCHANGED github
    BY LaneComment DEF Comment, FilingAt, LaneInv, HandsOK
  <1>2. CASE TryFails
    BY <1>1, <1>2, HandOnward DEF Onward, github
  <1>3. CASE /\ Drop(filing) /\ Done /\ UNCHANGED run
             /\ \/ ~handed' /\ record'.known
                \/ /\ filing.kind = "fits" /\ handed' = handed
                   /\ record'.known = record.known /\ ~Watched(record')
    <2>1. pc' = "none" /\ filing' = NoVerdict
      BY <1>3 DEF Done, Enter
    <2>2. review'.kind # "none" => review.kind # "none"
      BY <1>1, <1>3, ReviewsStay DEF LaneInv
    <2>3. Reviewing' => Reviewing
      BY <1>3, <2>1, <2>2, NoVerdictTyped DEF Reviewing, OfReview
    <2>4. record.known => record'.known
      BY <1>3
    <2>5. UNCHANGED labels
      BY <1>1 DEF github
    <2> QED BY <1>3, <2>1, <2>3, <2>4, <2>5, HandKeeps
  <1> QED BY <1>2, <1>3, LaneComment

\* An issue handed back.
LEMMA HandIsBack == ASSUME LaneInv, HandInv, HandBack PROVE HandInv'
  <1>1. /\ labels' \in {labels, labels \ {"triage_todo"}} /\ UNCHANGED <<run, record, handed>>
        /\ Done /\ (Drop(filing) \/ UNCHANGED pending) /\ filing \in Filed
    BY LaneHandBack DEF LaneInv, HandsOK
  <1>2. pc' = "none" /\ filing' = NoVerdict
    BY <1>1 DEF Done, Enter
  <1>3. review'.kind # "none" => review.kind # "none"
    BY <1>1, ReviewsStay DEF LaneInv, pending
  <1>4. Reviewing' => Reviewing
    BY <1>1, <1>2, <1>3, NoVerdictTyped DEF Reviewing, OfReview
  <1> QED BY <1>1, <1>2, <1>4, HandKeeps DEF Watched

\* A parent handed over: a human's from here on, and what it asked for is taken off.
LEMMA HandIsOver == ASSUME LaneInv, HandInv, GapInv, HandOver PROVE HandInv'
  <1>1. /\ labels' \in {labels, Held} /\ UNCHANGED run /\ Done /\ filing \in Filed
        /\ (Drop(filing) \/ UNCHANGED pending)
        /\ record.known => record'.known
        /\ (record.known /\ ~Watched(record)) => ~Watched(record')
        /\ \/ UNCHANGED <<record, handed>>
           \/ labels' = Held /\ ~Watched(record')
           \/ why = "gap_limit" /\ UNCHANGED handed
    BY LaneHandOver DEF LaneInv, HandsOK
  <1>2. pc' = "none" /\ filing' = NoVerdict
    BY <1>1 DEF Done, Enter
  <1>3. review'.kind # "none" => review.kind # "none"
    BY <1>1, ReviewsStay DEF LaneInv, pending
  <1>4. Reviewing' => Reviewing
    BY <1>1, <1>2, <1>3, NoVerdictTyped DEF Reviewing, OfReview
  <1>5. Reviewing' => record'.known
    BY <1>1, <1>4 DEF HandInv
  <1>6. handed' => "triage_todo" \notin labels' /\ ~Watched(record')
    <2>1. CASE UNCHANGED <<record, handed>>
      BY <1>1, <2>1 DEF HandInv, Held, Watched
    <2>2. CASE labels' = Held /\ ~Watched(record')
      BY <2>2 DEF Held
    <2>3. CASE why = "gap_limit" /\ UNCHANGED handed
      <3>1. record.known
        BY <2>3 DEF HandOver, GapInv, HandInv, Reviewing
      <3> QED BY <1>1, <2>3, <3>1 DEF HandInv, Held
    <2> QED BY <1>1, <2>1, <2>2, <2>3
  <1> QED BY <1>2, <1>5, <1>6 DEF HandInv

\* A candidate asks, so it is no human's.
LEMMA HandAsked ==
    ASSUME LaneInv, HandInv, CandidatesRead \/ Approval \/ RequestedReview PROVE HandInv'
  <1>1. phase = "candidates" /\ UNCHANGED <<labels, pending, handed>>
    BY LaneCandidates, LaneApproval, LaneRequested DEF CandidatesRead, Approval, RequestedReview,
       github, LaneInv, Placed
  <1>2. ASSUME pc' = "none", filing' = NoVerdict, UNCHANGED record, run'.kind = run.kind
        PROVE  HandInv'
    BY <1>1, <1>2, HandAtRest DEF pending
  <1>3. CASE CandidatesRead
    <2>1. /\ UNCHANGED <<run, record>>
          /\ \/ pc' = "none" /\ filing' = NoVerdict
             \/ Candidate /\ UNCHANGED <<phase, filing>>
                 /\ pc' \in {"hand_over", "hand_back", "approval"}
      BY <1>3, LaneCandidates
    <2>2. CASE Candidate /\ UNCHANGED <<phase, filing>>
               /\ pc' \in {"hand_over", "hand_back", "approval"}
      BY <1>1, <2>1, <2>2 DEF HandInv, Candidate, Reviewing, OfReview, pending, Watched
    <2> QED BY <1>2, <2>1, <2>2
  <1>4. CASE Approval
    <2>1. pc = "approval" /\ ~handed
      BY <1>1, <1>4 DEF Approval, HandInv
    <2>2. /\ UNCHANGED record
          /\ \/ pc' = "none" /\ filing' = NoVerdict /\ UNCHANGED run
             \/ /\ UNCHANGED <<run, phase, filing>>
                /\ pc' \in {"sub_issues", "hand_over", "hand_back"}
             \/ pc' = "none" /\ filing' = NoVerdict /\ run'.kind = "triage"
      BY <1>4, LaneApproval
    <2>3. Reviewing' => Reviewing
      BY <1>1, <2>2, NoVerdictTyped DEF Reviewing, OfReview, pending
    <2> QED BY <1>1, <2>1, <2>2, <2>3 DEF HandInv
  <1>5. CASE RequestedReview
    <2>1. ~handed
      BY <1>1, <1>5 DEF RequestedReview, HandInv
    <2>2. /\ record' \in {record, Parent}
          /\ \/ pc' = "none" /\ filing' = NoVerdict /\ UNCHANGED <<run, record>>
             \/ UNCHANGED <<run, phase, filing>> /\ pc' = "hand_over"
             \/ /\ pc' = "none" /\ filing' = NoVerdict
                /\ \/ run'.kind = "triage" /\ UNCHANGED record
                   \/ run'.kind = "parent_review" /\ record' = Parent
      BY <1>5, LaneRequested
    <2>3. Reviewing' => Reviewing \/ record' = Parent
      BY <1>1, <2>2, NoVerdictTyped DEF Reviewing, OfReview, pending
    <2> QED BY <1>1, <2>1, <2>2, <2>3, ParentsTyped DEF HandInv
  <1> QED BY <1>3, <1>4, <1>5

\* A watched parent is no human's.
LEMMA HandWatched ==
    ASSUME LaneInv, HandInv, WatchRead \/ WatchIssues \/ WatchApproval PROVE HandInv'
  <1>1. phase = "watch" /\ UNCHANGED <<labels, pending, handed>>
    BY LaneWatchRead, LaneWatchIssues, LaneWatchApproval DEF WatchRead, WatchIssues, WatchApproval,
       github, memory, history, LaneInv, Placed
  <1>2. CASE WatchRead
    <2>1. /\ UNCHANGED run
          /\ \/ pc' = "none" /\ filing' = NoVerdict
                /\ (UNCHANGED record \/ (record'.known = record.known /\ ~Watched(record')))
             \/ Watched(record) /\ UNCHANGED record /\ pc' = "issues" /\ UNCHANGED <<phase, filing>>
      BY <1>2, LaneWatchRead
    <2>2. Reviewing' => Reviewing
      BY <1>1, <2>1, NoVerdictTyped DEF Reviewing, OfReview, pending
    <2> QED BY <1>1, <2>1, <2>2 DEF HandInv, Watched
  <1>3. CASE WatchIssues
    <2>1. Watched(record) /\ UNCHANGED <<run, record>>
      BY <1>1, <1>3, LaneWatchIssues DEF WatchIssues, HandInv, memory
    <2>2. \/ pc' = "none" /\ filing' = NoVerdict
          \/ pc' \in {"hand_over", "approval"} /\ UNCHANGED <<phase, filing>>
      BY <1>3, LaneWatchIssues
    <2>3. Reviewing' => Reviewing
      BY <1>1, <2>1, <2>2, NoVerdictTyped DEF Reviewing, OfReview, pending
    <2> QED BY <1>1, <2>1, <2>2, <2>3 DEF HandInv, Watched
  <1>4. CASE WatchApproval
    <2>1. Watched(record) /\ UNCHANGED record
      BY <1>1, <1>4, LaneWatchApproval DEF WatchApproval, HandInv
    <2>2. \/ pc' = "none" /\ filing' = NoVerdict
          \/ pc' = "hand_over" /\ UNCHANGED <<phase, filing>>
      BY <1>4, LaneWatchApproval
    <2> QED BY <1>1, <2>1, <2>2 DEF HandInv, Watched
  <1> QED BY <1>2, <1>3, <1>4

\* A step of the lane leaves a human's parent to the human.
LEMMA HandNext == ASSUME LaneInv, HandInv, GapInv, [Next]_vars PROVE HandInv'
  <1>1. CASE Tick
    BY <1>1, LaneTick, HandAtRest DEF github, memory, pending, history
  <1>2. CASE Refresh
    BY <1>2, LaneRefresh, HandAtRest DEF github, pending, history
  <1>3. CASE Retry
    <2>1. /\ UNCHANGED <<labels, run, review, record, handed>>
          /\ \/ pc' = "none" /\ filing' = NoVerdict
             \/ pc' = "owed" /\ filing' \in {verdict, review}
      BY <1>3, LaneRetry DEF github, memory, pending, history, Retry, Done, Enter
    <2>2. Reviewing' => Reviewing
      BY <2>1, NoVerdictTyped DEF Reviewing, OfReview, LaneInv, PendOK
    <2> QED BY <2>1, <2>2, HandKeeps DEF Watched
  <1>4. CASE Exit
    <2>1. /\ UNCHANGED <<labels, review, record, handed>> /\ run' = NoRun /\ filing.kind = "none"
          /\ \/ UNCHANGED control
             \/ pc' = "owed" /\ (OfReview(filing') <=> run.kind = "parent_review")
             \/ filing' = filing /\ pc' \in {"hand_over", "hand_back"}
      BY <1>4, LaneExit DEF github, pending
    <2>2. pc' \notin {"approval", "sub_issues", "issues"}
      BY <1>4, <2>1 DEF Exit, LaneInv, Placed, control
    <2>3. Reviewing' => Reviewing
      BY <2>1 DEF Reviewing, OfReview, NoRun, control, inHand
    <2> QED BY <2>1, <2>2, <2>3, HandKeeps DEF Watched
  <1>5. CASE SessionEnds
    BY <1>5, LaneSessionEnds, HandStays DEF github, pending, history
  <1>6. CASE Expire
    BY <1>6, LaneExpire, HandStays DEF github, pending, history
  <1>7. CASE Store
    BY <1>7, LaneStore, HandStays DEF github, memory, pending, history
  <1>8. CASE Restart
    <2>1. Reviewing' => FALSE
      BY <1>8, LaneRestart, NoVerdictTyped DEF Reviewing, OfReview, NoRun
    <2>2. handed' => "triage_todo" \notin labels' /\ ~Watched(record')
      BY <1>8, LaneRestart, ParentsTyped DEF HandInv, github, Watched
    <2> QED BY <1>8, <2>1, <2>2, LaneRestart DEF HandInv
  <1>9. CASE Human \/ StepCloses
    <2>1. /\ UNCHANGED <<memory, control>> /\ handed' \in {handed, FALSE}
          /\ ("triage_todo" \in labels' /\ "triage_todo" \notin labels) => ~handed'
      BY <1>9, LaneHumans
    <2>2. UNCHANGED <<record, review, control>> /\ run'.kind = run.kind
      BY <2>1 DEF memory, pending
    <2>3. handed' => handed
      BY <2>1
    <2>4. handed' => ("triage_todo" \in labels' => "triage_todo" \in labels)
      BY <2>1
    <2> QED BY <2>2, <2>3, <2>4, HandStays
  <1>10. CASE UNCHANGED vars
    BY <1>10, HandStays DEF vars, github, memory, pending, history
  <1> QED
    BY <1>1, <1>2, <1>3, <1>4, <1>5, <1>6, <1>7, <1>8, <1>9, <1>10, HandReads, HandFiles, HandFiled,
       HandIsBack, HandIsOver, HandAsked, HandWatched
    DEF Next, Worker

\* Where reviews start: on a request that was read, or on a watched parent.
LEMMA ReviewStarts ==
    ASSUME LaneInv, [Next]_vars, run.kind = "none", run'.kind = "parent_review"
    PROVE  RequestedReview \/ WatchApproval
  <1>1. CASE Tick \/ Refresh \/ Retry \/ Exit
    BY <1>1, LaneTick, LaneRefresh, LaneRetry, LaneExit DEF memory, NoRun
  <1>2. CASE OwedRead \/ StepsRead \/ HandRead \/ HandBack \/ HandOver
    BY <1>2, LaneOwedRead, LaneStepsRead, LaneHandRead, LaneHandBack, LaneHandOver DEF memory
  <1>3. CASE List \/ Create \/ Mark \/ Swap \/ Met \/ Close \/ Comment
    <2>1. TryFails \/ UNCHANGED run
      BY <1>3, LaneList, LaneCreate, LaneMark, LaneSwap, LaneMet, LaneClose, LaneComment
      DEF Onward, memory
    <2> QED BY <2>1 DEF TryFails
  <1>4. CASE CandidatesRead \/ Approval \/ WatchRead \/ WatchIssues
    BY <1>4, LaneCandidates, LaneApproval, LaneWatchRead, LaneWatchIssues DEF memory
  <1>5. CASE SessionEnds \/ Expire \/ Store \/ Restart
    BY <1>5, LaneSessionEnds, LaneExpire, LaneStore, LaneRestart DEF memory, NoRun
  <1>6. CASE Human \/ StepCloses \/ UNCHANGED vars
    BY <1>6, LaneHumans DEF memory, vars
  <1> QED BY <1>1, <1>2, <1>3, <1>4, <1>5, <1>6 DEF Next, Worker

\* A parent handed over is left alone until a human asks again or a verdict owed is filed: the
\* watch passes it over, and no request of its own is left to answer.
THEOREM HandedOverParentWaits == Spec => HandedOverWaits
  <1> DEFINE Inv == LaneInv /\ GapInv /\ HandInv
  <1>1. Init => Inv
    BY LaneInit, NoVerdictTyped
    DEF Init, GapInv, HandInv, Reviewing, OfReview, NoRun, NoParent, Watched
  <1>2. Inv /\ [Next]_vars => Inv'
    BY LaneNext, GapNext, HandNext
  <1>3. Inv /\ [Next]_vars => ((run.kind = "none" /\ run'.kind = "parent_review") => ~handed)
    BY ReviewStarts DEF RequestedReview, WatchApproval, HandInv, LaneInv, Placed
  <1> QED BY <1>1, <1>2, <1>3, PTL DEF Spec, HandedOverWaits
-----------------------------------------------------------------------------
(* Which steps are held *)

\* No step on the issue is one that a verdict filed.
Unfiled == \A k \in DOMAIN steps : steps[k].by = 0

\* Nothing is owed or being filed.
Clear == verdict.kind = "none" /\ review.kind = "none" /\ filing.kind = "none"

\* A hand-back takes `triage_todo` off while no step was filed, a `fits` apart: it is of a
\* session that started, or is being started, on an issue that had none, with no verdict
\* left that could file any.
HoldInv ==
    /\ (pc = "hand_back" /\ filing.kind # "fits") => Unfiled
    /\ run.kind = "triage" => Clear /\ (run.subs \/ Unfiled)
    /\ (phase = "candidates" /\ pc \in {"approval", "sub_issues"})
           => run.kind = "none" /\ Clear /\ (subs \/ Unfiled)

\* An issue with no sub-issues has none that was filed.
LEMMA NoneFiled == steps = <<>> => Unfiled
  BY DEF Unfiled

\* What was owed and is dropped is owed no longer, and what was not owed is not owed now.
LEMMA DropClears ==
    ASSUME NEW v, Drop(v) \/ UNCHANGED pending
    PROVE  /\ verdict.kind = "none" => verdict'.kind = "none"
           /\ review.kind = "none" => review'.kind = "none"
  BY NoVerdictTyped DEF Drop, pending

\* While a verdict is being filed no triage session runs, so a filing's step need only
\* answer for the hand-back it asks for.
LEMMA HoldFiles ==
    ASSUME LaneInv, HoldInv, pc \in FilingAt, UNCHANGED run,
           pc' \notin {"approval", "sub_issues"},
           pc' = "hand_back" => filing'.kind = "fits" \/ Unfiled'
    PROVE  HoldInv'
  <1>1. run'.kind # "triage"
    BY DEF LaneInv, Placed, HoldInv, Clear
  <1> QED BY <1>1 DEF HoldInv

\* A step that asks for no hand-back, and starts no triage session, leaves what is held.
LEMMA HoldKeeps ==
    ASSUME HoldInv, UNCHANGED steps, pc' \notin {"hand_back", "approval", "sub_issues"},
           run'.kind = "triage" => run.kind = "triage" /\ (run.subs => run'.subs \/ Unfiled),
           run'.kind = "triage" /\ Clear => Clear'
    PROVE  HoldInv'
  <1>1. Unfiled => Unfiled'
    BY DEF Unfiled
  <1> QED BY <1>1 DEF HoldInv

\* A step in which the worker does nothing leaves it too.
LEMMA HoldStays ==
    ASSUME HoldInv, UNCHANGED <<pending, control>>, run'.kind = run.kind, run'.subs = run.subs,
           Unfiled => Unfiled'
    PROVE  HoldInv'
  <1>1. Clear => Clear'
    BY DEF Clear, pending, control, inHand
  <1>2. UNCHANGED <<phase, pc, filing, subs>>
    BY DEF control, inHand
  <1> QED BY <1>1, <1>2 DEF HoldInv

\* The requests of a filing.
LEMMA HoldFiling ==
    ASSUME LaneInv, HoldInv, \/ OwedRead \/ StepsRead \/ List \/ Create \/ Mark \/ Swap \/ Met
                             \/ Close \/ Comment \/ HandRead
    PROVE  HoldInv'
  <1>1. pc \in FilingAt
    BY DEF OwedRead, StepsRead, List, Create, Mark, Swap, Met, Close, Comment, HandRead, FilingAt
  <1>2. CASE TryFails
    BY <1>1, <1>2, TryFailsOK, HoldFiles
  <1>3. CASE pc' \in FilingAt \cup {"none", "hand_over"} /\ UNCHANGED run
    <2>1. pc' \notin {"hand_back", "approval", "sub_issues"}
      BY <1>3 DEF FilingAt
    <2> QED BY <1>1, <1>3, <2>1, HoldFiles
  <1>4. CASE OwedRead \/ StepsRead
    <2>1. UNCHANGED run /\ (TryFails \/ Done \/ pc' = "hand_over" \/ pc' \in FilingAt)
      BY <1>4, LaneOwedRead, LaneStepsRead
    <2> QED BY <1>2, <1>3, <2>1 DEF Done, Enter
  <1>5. CASE List \/ Create \/ Mark \/ Swap \/ Met \/ Close
    <2>1. Onward
      BY <1>5, LaneList, LaneCreate, LaneMark, LaneSwap, LaneMet, LaneClose
    <2> QED BY <1>2, <1>3, <2>1 DEF Onward, memory
  <1>6. CASE Comment
    <2>1. TryFails \/ (Done /\ UNCHANGED run)
      BY <1>6, LaneComment
    <2> QED BY <1>2, <1>3, <2>1 DEF Done, Enter
  <1>7. CASE HandRead
    <2>1. /\ UNCHANGED <<run, steps>>
          /\ \/ pc' = "none"
             \/ pc' \in {"hand_back", "hand_over"} /\ (steps # <<>> => pc' = "hand_over")
      BY <1>7, LaneHandRead DEF github, memory
    <2>2. pc' = "hand_back" => Unfiled'
      BY <2>1, NoneFiled DEF Unfiled
    <2>3. pc' \notin {"approval", "sub_issues"}
      BY <2>1
    <2> QED BY <1>1, <2>1, <2>2, <2>3, HoldFiles
  <1> QED BY <1>4, <1>5, <1>6, <1>7

\* A candidate with no sub-issues is judged, one with some is not handed back.
LEMMA HoldAsked ==
    ASSUME LaneInv, HoldInv, CandidatesRead \/ Approval \/ RequestedReview
    PROVE  HoldInv'
  <1>1. UNCHANGED <<steps, verdict, review>>
    BY LaneCandidates, LaneApproval, LaneRequested DEF github, pending
  <1>2. Unfiled => Unfiled'
    BY <1>1 DEF Unfiled
  <1>3. CASE CandidatesRead
    <2>1. /\ UNCHANGED run /\ pc = "none" /\ phase = "candidates"
          /\ \/ pc' = "none" /\ filing' = NoVerdict
             \/ /\ ~Busy /\ UNCHANGED <<phase, filing>>
                /\ pc' \in {"hand_over", "hand_back", "approval"} /\ subs' = (steps # <<>>)
                /\ pc' = "hand_back" => steps = <<>>
      BY <1>3, LaneCandidates DEF CandidatesRead
    <2>2. filing.kind = "none"
      BY <2>1 DEF LaneInv, Placed
    <2>3. CASE pc' = "none" /\ filing' = NoVerdict
      BY <1>1, <1>2, <2>1, <2>3, NoVerdictTyped DEF HoldInv, Clear
    <2>4. CASE /\ ~Busy /\ UNCHANGED filing
               /\ pc' \in {"hand_over", "hand_back", "approval"} /\ subs' = (steps # <<>>)
               /\ pc' = "hand_back" => steps = <<>>
      <3>1. run'.kind = "none" /\ Clear'
        BY <1>1, <2>1, <2>2, <2>4 DEF Busy, Clear
      <3>2. pc' = "hand_back" \/ ~subs' => Unfiled'
        BY <1>2, <2>4, NoneFiled
      <3> QED BY <2>4, <3>1, <3>2 DEF HoldInv
    <2> QED BY <2>1, <2>3, <2>4
  <1>4. CASE Approval
    <2>1. run.kind = "none" /\ Clear /\ (subs \/ Unfiled)
      BY <1>4 DEF Approval, HoldInv
    <2>2. \/ pc' = "none" /\ filing' = NoVerdict /\ UNCHANGED run
          \/ /\ UNCHANGED <<run, phase, filing, subs>>
             /\ \/ pc' = "sub_issues"
                \/ pc' = "hand_over"
                \/ pc' = "hand_back" /\ ~subs
          \/ pc' = "none" /\ filing' = NoVerdict /\ run'.kind = "triage" /\ ~subs
      BY <1>4, LaneApproval
    <2>3. Clear'
      BY <1>1, <2>1, <2>2, NoVerdictTyped DEF Clear
    <2> QED BY <1>2, <2>1, <2>2, <2>3 DEF HoldInv
  <1>5. CASE RequestedReview
    <2>1. run.kind = "none" /\ Clear
      BY <1>5 DEF RequestedReview, HoldInv, LaneInv, Placed
    <2>2. \/ pc' = "none" /\ filing' = NoVerdict /\ UNCHANGED run
          \/ UNCHANGED <<run, filing>> /\ pc' = "hand_over"
          \/ /\ pc' = "none" /\ filing' = NoVerdict
             /\ \/ run'.kind = "triage" /\ steps = <<>>
                \/ run'.kind = "parent_review"
      BY <1>5, LaneRequested
    <2>3. Clear'
      BY <1>1, <2>1, <2>2, NoVerdictTyped DEF Clear
    <2> QED BY <1>2, <2>1, <2>2, <2>3, NoneFiled DEF HoldInv
  <1> QED BY <1>3, <1>4, <1>5

\* A step of the lane leaves what is held.
LEMMA HoldNext == ASSUME LaneInv, HoldInv, [Next]_vars PROVE HoldInv'
  <1>1. CASE Tick
    <2>1. UNCHANGED <<steps, run, verdict, review>> /\ pc' = "none" /\ filing' = NoVerdict
      BY <1>1, LaneTick DEF github, memory, pending
    <2>2. Clear => Clear'
      BY <2>1, NoVerdictTyped DEF Clear
    <2> QED BY <2>1, <2>2, HoldKeeps
  <1>2. CASE Refresh
    <2>1. /\ UNCHANGED <<steps, verdict, review>> /\ pc' = "none" /\ filing' = NoVerdict
          /\ run'.kind = run.kind /\ (run'.subs = run.subs \/ run'.subs = (steps # <<>>))
      BY <1>2, LaneRefresh DEF github, pending
    <2>2. Clear => Clear'
      BY <2>1, NoVerdictTyped DEF Clear
    <2> QED BY <2>1, <2>2, NoneFiled, HoldKeeps
  <1>3. CASE Retry
    <2>1. /\ UNCHANGED <<steps, run, verdict, review>> /\ pc' \in {"none", "owed"}
          /\ filing' \in {NoVerdict, verdict, review}
      BY <1>3, LaneRetry DEF github, memory, pending, Retry, Done, Enter
    <2>2. Clear => Clear'
      BY <2>1, NoVerdictTyped DEF Clear
    <2> QED BY <2>1, <2>2, HoldKeeps
  <1>4. CASE Exit
    <2>1. /\ UNCHANGED steps /\ run' = NoRun /\ phase = "idle"
          /\ \/ UNCHANGED control
             \/ pc' = "owed"
             \/ /\ phase' = "exit" /\ pc' \in {"hand_over", "hand_back"}
                /\ pc' = "hand_back" => run.kind = "triage" /\ ~run.subs
      BY <1>4, LaneExit DEF github, Exit
    <2>2. UNCHANGED control => pc' = "none"
      BY <2>1 DEF LaneInv, Placed, control
    <2>3. pc' = "hand_back" => Unfiled
      BY <2>1, <2>2 DEF HoldInv
    <2>4. Unfiled => Unfiled'
      BY <2>1 DEF Unfiled
    <2> QED BY <2>1, <2>2, <2>3, <2>4 DEF HoldInv, NoRun
  <1>5. CASE HandBack \/ HandOver
    <2>1. /\ UNCHANGED <<steps, run>> /\ Done /\ (Drop(filing) \/ UNCHANGED pending)
      BY <1>5, LaneHandBack, LaneHandOver
    <2>2. pc' = "none" /\ filing' = NoVerdict
      BY <2>1 DEF Done, Enter
    <2>3. Clear => Clear'
      BY <2>1, <2>2, DropClears, NoVerdictTyped DEF Clear
    <2> QED BY <2>1, <2>2, <2>3, HoldKeeps
  <1>6. CASE WatchRead \/ WatchIssues \/ WatchApproval
    <2>1. /\ UNCHANGED <<steps, verdict, review>> /\ (UNCHANGED run \/ run'.kind = "parent_review")
          /\ \/ pc' = "none" /\ filing' = NoVerdict
             \/ pc' \in {"issues", "hand_over"} /\ UNCHANGED filing
             \/ pc' = "approval" /\ UNCHANGED <<phase, filing>> /\ phase = "watch"
      BY <1>6, LaneWatchRead, LaneWatchIssues, LaneWatchApproval
      DEF github, memory, pending, WatchIssues, LaneInv, Placed
    <2>2. Clear => Clear'
      BY <2>1, NoVerdictTyped DEF Clear
    <2>3. Unfiled => Unfiled'
      BY <2>1 DEF Unfiled
    <2> QED BY <2>1, <2>2, <2>3 DEF HoldInv
  <1>7. CASE SessionEnds
    BY <1>7, LaneSessionEnds, HoldStays DEF github, Unfiled
  <1>8. CASE Expire
    BY <1>8, LaneExpire, HoldStays DEF github, Unfiled
  <1>9. CASE Store
    BY <1>9, LaneStore, HoldStays DEF github, memory, Unfiled
  <1>10. CASE Restart
    BY <1>10, LaneRestart DEF HoldInv, NoRun
  <1>11. CASE Human \/ StepCloses
    <2>1. UNCHANGED <<memory, control>> /\ (Unfiled => Unfiled')
      BY <1>11, LaneHumans DEF Unfiled
    <2> QED BY <2>1, HoldStays DEF memory
  <1>12. CASE UNCHANGED vars
    BY <1>12, HoldStays DEF vars, github, memory, Unfiled
  <1> QED
    BY <1>1, <1>2, <1>3, <1>4, <1>5, <1>6, <1>7, <1>8, <1>9, <1>10, <1>11, <1>12, HoldFiling, HoldAsked
    DEF Next, Worker

\* How often humans acted is a number.
LEMMA ActsCount == ASSUME acts \in Nat, [Next]_vars PROVE acts' \in Nat
  <1>1. acts' \in {acts, acts + 1}
    <2>1. CASE UNCHANGED bounds \/ Fault \/ Act \/ UNCHANGED acts
      BY <2>1 DEF bounds, Fault, Act
    <2>2. CASE Worker
      BY <2>1, <2>2
      DEF Worker, Tick, Refresh, Retry, Exit, OwedRead, StepsRead, List, Create, Mark, Swap, Met, Close,
          Comment, HandRead, HandBack, HandOver, CandidatesRead, Approval, RequestedReview, WatchRead,
          WatchIssues, WatchApproval, Passed, Start
    <2>3. CASE SessionEnds \/ Expire \/ Store \/ Restart \/ Human \/ StepCloses \/ UNCHANGED vars
      BY <2>1, <2>3
      DEF SessionEnds, Expire, Store, Restart, Human, StepCloses, vars, HumanAsks, HumanRelabels,
          HumanCloses, HumanReopensStep, HumanAddsStep, HumanUnlinks
    <2> QED BY <2>2, <2>3 DEF Next
  <1> QED BY <1>1

\* The worker never takes both triage labels off a parent with steps it filed, which would
\* release every step the order holds, but for a `fits` it gives up on.
THEOREM FiledStepsStayHeld == Spec => StepsStayHeld
  <1> DEFINE Inv == LaneInv /\ HoldInv /\ acts \in Nat
             Holds == ( /\ acts' = acts /\ \E k \in DOMAIN steps : steps[k].by # 0
                        /\ labels \cap TriageLabels # {} /\ filing.kind # "fits" )
                      => labels' \cap TriageLabels # {}
  <1>1. Init => Inv
    BY LaneInit DEF Init, HoldInv, NoRun
  <1>2. Inv /\ [Next]_vars => Inv'
    BY LaneNext, HoldNext, ActsCount
  <1>3. Inv /\ [Next]_vars => Holds
    <2> SUFFICES ASSUME Inv, [Next]_vars, acts' = acts, ~Unfiled, labels \cap TriageLabels # {},
                        filing.kind # "fits"
                 PROVE  labels' \cap TriageLabels # {}
      BY DEF Unfiled
    <2>1. CASE UNCHANGED labels
      BY <2>1
    <2>2. CASE labels' \in {Held, Held \cup {"complete"}}
      BY <2>2 DEF Held, TriageLabels
    <2>3. CASE HandBack
      BY <2>3 DEF HandBack, HoldInv
    <2>4. CASE HumanAsks \/ HumanRelabels \/ HumanCloses
      BY <2>4 DEF HumanAsks, HumanRelabels, HumanCloses, Act
    <2>5. CASE Tick \/ Refresh \/ Retry \/ Exit \/ OwedRead \/ StepsRead \/ List \/ Create \/ Mark
      BY <2>1, <2>5, LaneTick, LaneRefresh, LaneRetry, LaneExit, LaneOwedRead, LaneStepsRead, LaneList,
         LaneCreate, LaneMark DEF github
    <2>6. CASE Swap \/ Met \/ Close \/ Comment \/ HandRead \/ HandOver
      BY <2>1, <2>2, <2>6, LaneSwap, LaneMet, LaneClose, LaneComment, LaneHandRead, LaneHandOver
      DEF github
    <2>7. CASE CandidatesRead \/ Approval \/ RequestedReview \/ WatchRead \/ WatchIssues \/ WatchApproval
      BY <2>1, <2>7, LaneCandidates, LaneApproval, LaneRequested, LaneWatchRead, LaneWatchIssues,
         LaneWatchApproval DEF github
    <2>8. CASE SessionEnds \/ Expire \/ Store \/ Restart \/ UNCHANGED vars
      BY <2>1, <2>8, LaneSessionEnds, LaneExpire, LaneStore, LaneRestart DEF github, vars
    <2>9. CASE HumanReopensStep \/ HumanAddsStep \/ HumanUnlinks \/ StepCloses
      BY <2>1, <2>9 DEF HumanReopensStep, HumanAddsStep, HumanUnlinks, StepCloses
    <2> QED BY <2>3, <2>4, <2>5, <2>6, <2>7, <2>8, <2>9 DEF Next, Worker, Human
  <1> QED BY <1>1, <1>2, <1>3, PTL DEF Spec, StepsStayHeld
-----------------------------------------------------------------------------
(* What a verdict files *)

\* The numbers of steps `s` are given out once, m of them so far, and the verdicts that filed
\* them are among the first b.
NumbersOf(s, m, b) ==
    /\ \A k \in DOMAIN s : s[k].n \in 1..m /\ s[k].by \in 0..b
    /\ \A k, l \in DOMAIN s : s[k].n = s[l].n => k = l

\* No two of them are of one verdict and one draft.
OnceOf(s) ==
    \A k, l \in DOMAIN s :
        (s[k].by # 0 /\ s[k].by = s[l].by /\ s[k].title = s[l].title) => k = l

\* Numbers given out.
Given(q, m) == \A i \in DOMAIN q : q[i] \in 1..m

\* Of a verdict: the steps it filed are of its drafts, and none of those its session had seen.
OwnOf(v, s, m, b) ==
    v.kind # "none" =>
        /\ v.batch \in 1..b /\ Given(v.seen, m)
        /\ v.kind \in {"fits", "met"} => v.drafts = 0
        /\ \A k \in DOMAIN s : s[k].by = v.batch =>
              s[k].n \notin ToSet(v.seen) /\ s[k].title \in 1..v.drafts

\* Two of one number are the same verdict.
Agree(v, w) == (v.kind # "none" /\ w.kind # "none" /\ v.batch = w.batch) => v.drafts = w.drafts
SameDraft(v, w) == v.kind = w.kind /\ v.batch = w.batch /\ v.drafts = w.drafts /\ v.seen = w.seen

\* A child the filing of v matches by title, and a title of a step v filed.
Child(v, s, k) == k \in DOMAIN s /\ (OfReview(v) => s[k].n \notin ToSet(v.seen))
FiledTitle(v, s, t) == \E k \in DOMAIN s : s[k].by = v.batch /\ s[k].title = t

\* What stands for a title v filed: a child marked as an operator's, or the one found for it.
MarkedOf(v, s, t) ==
    FiledTitle(v, s, t) => \E k : Child(v, s, k) /\ s[k].title = t /\ s[k].operator
FoundOf(v, s, t, n) ==
    FiledTitle(v, s, t) => \E k : Child(v, s, k) /\ s[k].title = t /\ s[k].n = n

\* How far the filing of v has come, at its request p for draft a with the children f.
DraftsOf(v, s, p, a, f) ==
    /\ p \in {"create", "mark"} =>
         /\ a \in 1..v.drafts
         /\ \A t : FiledTitle(v, s, t) => t \in DOMAIN f
         /\ \A t \in DOMAIN f : FoundOf(v, s, t, f[t])
         /\ \A t \in Operator : t < a => MarkedOf(v, s, t)
    /\ p = "create" => a \notin DOMAIN f
    /\ p \in {"swap", "met", "close", "comment"} => \A t \in Operator : MarkedOf(v, s, t)

VerdictsOK ==
    /\ \A v \in {verdict, review, filing} : OwnOf(v, steps, numbered, batches)
    /\ \A v, w \in {verdict, review, filing} : Agree(v, w)
    /\ Given(run.seen, numbered) /\ Given(seen, numbered)

FileInv ==
    /\ NumbersOf(steps, numbered, batches) /\ OnceOf(steps) /\ VerdictsOK
    /\ DraftsOf(filing, steps, pc, at, found)
-----------------------------------------------------------------------------
\* Steps that are the same but for what closes, reopens or marks them.
Like(s, t) ==
    /\ DOMAIN t = DOMAIN s
    /\ \A k \in DOMAIN s : /\ t[k].n = s[k].n /\ t[k].by = s[k].by /\ t[k].title = s[k].title
                           /\ s[k].operator => t[k].operator

\* Steps with a new one at the end.
Added(s, t, new) ==
    /\ DOMAIN s \subseteq DOMAIN t /\ \A k \in DOMAIN s : t[k] = s[k]
    /\ \A k \in DOMAIN t \ DOMAIN s : t[k] = new
    /\ \A k, l \in DOMAIN t \ DOMAIN s : k = l

\* Steps appended to are those.
LEMMA AppendAdds ==
    ASSUME NEW s \in Seq(Steps), NEW new \in Steps
    PROVE  Added(s, Append(s, new), new)
  <1>1. /\ Append(s, new) \in Seq(Steps) /\ Len(Append(s, new)) = Len(s) + 1
        /\ \A i \in 1..Len(s) : Append(s, new)[i] = s[i]
        /\ Append(s, new)[Len(s) + 1] = new
    BY AppendProperties
  <1>2. DOMAIN s = 1..Len(s) /\ DOMAIN Append(s, new) = 1..Len(s) + 1 /\ Len(s) \in Nat
    BY <1>1, LenProperties
  <1>3. DOMAIN Append(s, new) \ DOMAIN s = {Len(s) + 1}
    BY <1>2
  <1> QED BY <1>1, <1>2, <1>3 DEF Added

\* How the numbers and the drafts of steps that are alike compare.
LEMMA LikeKeeps ==
    ASSUME NEW s, NEW t, Like(s, t), NEW m \in Nat, NEW b \in Nat
    PROVE  /\ NumbersOf(s, m, b) => NumbersOf(t, m, b)
           /\ OnceOf(s) => OnceOf(t)
           /\ \A v : OwnOf(v, s, m, b) => OwnOf(v, t, m, b)
           /\ \A v, p, a, f : DraftsOf(v, s, p, a, f) => DraftsOf(v, t, p, a, f)
  <1>1. \A v, x : FiledTitle(v, t, x) <=> FiledTitle(v, s, x)
    BY DEF Like, FiledTitle
  <1>2. \A v, k : Child(v, t, k) <=> Child(v, s, k)
    BY DEF Like, Child
  <1>3. \A v, x : MarkedOf(v, s, x) => MarkedOf(v, t, x)
    BY <1>1, <1>2 DEF Like, MarkedOf, Child
  <1>4. \A v, x, n : FoundOf(v, s, x, n) => FoundOf(v, t, x, n)
    BY <1>1, <1>2 DEF Like, FoundOf, Child
  <1>5. (NumbersOf(s, m, b) => NumbersOf(t, m, b)) /\ (OnceOf(s) => OnceOf(t))
    BY DEF Like, NumbersOf, OnceOf
  <1>6. \A v : OwnOf(v, s, m, b) => OwnOf(v, t, m, b)
    BY DEF Like, OwnOf
  <1>7. \A v, p, a, f : DraftsOf(v, s, p, a, f) => DraftsOf(v, t, p, a, f)
    BY <1>1, <1>3, <1>4 DEF DraftsOf
  <1> QED BY <1>5, <1>6, <1>7

\* With a step of another verdict, or of none, nothing changes for v.
LEMMA AddedKeeps ==
    ASSUME NEW s, NEW t, NEW new, Added(s, t, new), NEW m \in Nat, NEW b \in Nat
    PROVE  /\ (NumbersOf(s, m, b) /\ new.n = m + 1 /\ new.by \in 0..b) => NumbersOf(t, m + 1, b)
           /\ (OnceOf(s) /\ (new.by = 0 \/ \A k \in DOMAIN s :
                  s[k].by = new.by => s[k].title # new.title)) => OnceOf(t)
           /\ \A v : (OwnOf(v, s, m, b) /\ (new.by = v.batch => new.n = m + 1 /\ new.title \in 1..v.drafts))
                  => OwnOf(v, t, m + 1, b)
           /\ \A v, p, a, f : (DraftsOf(v, s, p, a, f) /\ new.by # v.batch) => DraftsOf(v, t, p, a, f)
  <1>1. \A k \in DOMAIN t : (k \in DOMAIN s /\ t[k] = s[k]) \/ (k \notin DOMAIN s /\ t[k] = new)
    BY DEF Added
  <1>2. \A v, x : new.by # v.batch => (FiledTitle(v, t, x) <=> FiledTitle(v, s, x))
    BY <1>1 DEF Added, FiledTitle
  <1>3. \A v, k : Child(v, s, k) => Child(v, t, k) /\ t[k] = s[k]
    BY DEF Added, Child
  <1>4. \A v, x : (MarkedOf(v, s, x) /\ new.by # v.batch) => MarkedOf(v, t, x)
    BY <1>2, <1>3 DEF MarkedOf
  <1>5. \A v, x, n : (FoundOf(v, s, x, n) /\ new.by # v.batch) => FoundOf(v, t, x, n)
    BY <1>2, <1>3 DEF FoundOf
  <1>6. (NumbersOf(s, m, b) /\ new.n = m + 1 /\ new.by \in 0..b) => NumbersOf(t, m + 1, b)
    <2> SUFFICES ASSUME NumbersOf(s, m, b), new.n = m + 1, new.by \in 0..b
                 PROVE  NumbersOf(t, m + 1, b)
      OBVIOUS
    <2>1. \A k \in DOMAIN t : t[k].n \in 1..m + 1 /\ t[k].by \in 0..b
      BY <1>1 DEF NumbersOf
    <2>2. ASSUME NEW k \in DOMAIN t, NEW l \in DOMAIN t, t[k].n = t[l].n PROVE k = l
      <3>1. \A i \in DOMAIN s : s[i].n # m + 1
        BY DEF NumbersOf
      <3> QED BY <1>1, <2>2, <3>1 DEF NumbersOf, Added
    <2> QED BY <2>1, <2>2 DEF NumbersOf
  <1>7. (OnceOf(s) /\ (new.by = 0 \/ \A k \in DOMAIN s : s[k].by = new.by => s[k].title # new.title))
            => OnceOf(t)
    <2> SUFFICES ASSUME OnceOf(s),
                        new.by = 0 \/ \A k \in DOMAIN s : s[k].by = new.by => s[k].title # new.title,
                        NEW k \in DOMAIN t, NEW l \in DOMAIN t,
                        t[k].by # 0, t[k].by = t[l].by, t[k].title = t[l].title
                 PROVE  k = l
      BY DEF OnceOf
    <2> QED BY <1>1 DEF OnceOf, Added
  <1>8. ASSUME NEW v, OwnOf(v, s, m, b), new.by = v.batch => new.n = m + 1 /\ new.title \in 1..v.drafts
        PROVE  OwnOf(v, t, m + 1, b)
    <2> SUFFICES ASSUME v.kind # "none" PROVE OwnOf(v, t, m + 1, b)
      BY DEF OwnOf
    <2>1. v.batch \in 1..b /\ Given(v.seen, m) /\ (v.kind \in {"fits", "met"} => v.drafts = 0)
      BY <1>8 DEF OwnOf
    <2>2. Given(v.seen, m + 1) /\ m + 1 \notin ToSet(v.seen)
      BY <2>1 DEF Given, ToSet
    <2>3. ASSUME NEW k \in DOMAIN t, t[k].by = v.batch
          PROVE  t[k].n \notin ToSet(v.seen) /\ t[k].title \in 1..v.drafts
      <3>1. CASE k \in DOMAIN s /\ t[k] = s[k]
        BY <1>8, <2>3, <3>1 DEF OwnOf
      <3>2. CASE t[k] = new
        BY <1>8, <2>2, <2>3, <3>2
      <3> QED BY <1>1, <3>1, <3>2
    <2> QED BY <2>1, <2>2, <2>3 DEF OwnOf
  <1>9. \A v, p, a, f : (DraftsOf(v, s, p, a, f) /\ new.by # v.batch) => DraftsOf(v, t, p, a, f)
    BY <1>2, <1>4, <1>5 DEF DraftsOf
  <1> QED BY <1>6, <1>7, <1>8, <1>9

\* With no steps left, all of it holds of none.
LEMMA NoneKeeps ==
    ASSUME NEW s, NEW t, DOMAIN t = {}, NEW m \in Nat, NEW b \in Nat
    PROVE  /\ NumbersOf(t, m, b) /\ OnceOf(t)
           /\ \A v : OwnOf(v, s, m, b) => OwnOf(v, t, m, b)
           /\ \A v, p, a, f : DraftsOf(v, s, p, a, f) => DraftsOf(v, t, p, a, f)
  <1>1. \A v, x : ~FiledTitle(v, t, x)
    BY DEF FiledTitle
  <1>2. NumbersOf(t, m, b) /\ OnceOf(t)
    BY DEF NumbersOf, OnceOf
  <1>3. \A v : OwnOf(v, s, m, b) => OwnOf(v, t, m, b)
    BY DEF OwnOf
  <1>4. \A v, p, a, f : DraftsOf(v, s, p, a, f) => DraftsOf(v, t, p, a, f)
    BY <1>1 DEF DraftsOf, MarkedOf, FoundOf
  <1> QED BY <1>2, <1>3, <1>4
-----------------------------------------------------------------------------
\* Of the children that share a title there is a last.
LEMMA LastListed ==
    ASSUME NEW S \in SUBSET Nat, NEW m \in Nat, \A k \in S : k <= m, S # {}
    PROVE  \E k \in S : \A l \in S : l <= k
  <1> DEFINE Above(k) == {l \in S : k < l}
             F == {Above(k) : k \in S}
             R == StrictSubsetOrdering(S)
  <1>1. IsFiniteSet(S)
    <2>1. IsFiniteSet(0..m)
      BY FS_Interval
    <2>2. S \subseteq 0..m
      OBVIOUS
    <2> QED BY <2>1, <2>2, FS_Subset
  <1>2. FiniteSubsetsOf(S) = SUBSET S /\ F \subseteq SUBSET S
    BY <1>1, FS_FiniteSubsetsOfFinite
  <1>3. F # {}
    OBVIOUS
  <1>4. \A k, l \in S : k < l => Above(l) \subseteq Above(k) /\ Above(l) # Above(k)
    <2> SUFFICES ASSUME NEW k \in S, NEW l \in S, k < l
                 PROVE  Above(l) \subseteq Above(k) /\ Above(l) # Above(k)
      OBVIOUS
    <2>1. ASSUME NEW x \in S, l < x PROVE k < x
      <3>1. k \in Nat /\ l \in Nat /\ x \in Nat
        OBVIOUS
      <3> QED BY <2>1, <3>1
    <2>2. l \in Above(k) /\ l \notin Above(l)
      OBVIOUS
    <2> QED BY <2>1, <2>2
  <1>5. \A k \in S : Above(k) \in SUBSET S /\ Above(k) \in F
    OBVIOUS
  <1>6. \A X \in F : \E k \in S : X = Above(k)
    OBVIOUS
  <1>7. IsWellFoundedOn(R, SUBSET S)
    BY <1>2, FS_StrictSubsetOrderingWellFounded
  <1> HIDE DEF F
  <1>8. PICK X \in F : \A Y \in F : ~(<<Y, X>> \in R)
    <2> DEFINE U == SUBSET S
    <2>1. IsWellFoundedOn(R, U) /\ F \subseteq U /\ F # {}
      BY <1>2, <1>3, <1>7
    <2> HIDE DEF R, U
    <2> QED BY <2>1, WFMin
  <1>9. PICK k \in S : X = Above(k)
    BY <1>6
  <1> HIDE DEF Above
  <1>10. \A l \in S : ~(k < l)
    BY <1>4, <1>5, <1>8, <1>9 DEF StrictSubsetOrdering
  <1> QED BY <1>10

\* `existing` finds a child for every title there is one of.
LEMMA ExistingFinds ==
    ASSUME steps \in Seq(Steps)
    PROVE  \A t : /\ FiledTitle(filing, steps, t) /\ OwnOf(filing, steps, numbered, batches)
                        /\ filing.kind # "none" => t \in DOMAIN Existing(Children)
                  /\ t \in DOMAIN Existing(Children)
                        => FoundOf(filing, steps, t, Existing(Children)[t])
  <1>1. \A k : k \in Children <=> Child(filing, steps, k)
    BY DEF Children, Child
  <1>2. DOMAIN Existing(Children) = {steps[k].title : k \in Children}
    BY DEF Existing
  <1> TAKE t
  <1>3. (FiledTitle(filing, steps, t) /\ OwnOf(filing, steps, numbered, batches)
            /\ filing.kind # "none") => t \in DOMAIN Existing(Children)
    <2>1. \A k \in DOMAIN steps :
              (steps[k].by = filing.batch /\ OwnOf(filing, steps, numbered, batches)
                 /\ filing.kind # "none") => k \in Children
      BY <1>1 DEF OwnOf, Child
    <2> QED BY <1>2, <2>1 DEF FiledTitle
  <1>4. ASSUME t \in DOMAIN Existing(Children)
        PROVE  FoundOf(filing, steps, t, Existing(Children)[t])
    <2> DEFINE S == {k \in Children : steps[k].title = t}
               Latest(k) == /\ steps[k].title = t
                          /\ \A l \in Children : steps[l].title = t => l <= k
               n == CHOOSE k \in Children : Latest(k)
    <2>1. S # {}
      BY <1>2, <1>4
    <2>2. Len(steps) \in Nat /\ DOMAIN steps = 1..Len(steps)
      BY LenProperties
    <2>3. S \in SUBSET Nat /\ \A k \in S : k <= Len(steps)
      BY <2>2 DEF Children
    <2>4. \E k \in S : \A l \in S : l <= k
      BY <2>1, <2>2, <2>3, LastListed
    <2>5. \E k \in Children : Latest(k)
      BY <2>4
    <2>6. n \in Children /\ Latest(n)
      BY <2>5
    <2>7. Existing(Children)[t] = steps[n].n
      BY <1>2, <1>4 DEF Existing
    <2> HIDE DEF n
    <2> QED BY <1>1, <2>6, <2>7 DEF FoundOf
  <1> QED BY <1>3, <1>4
-----------------------------------------------------------------------------
\* A verdict in hand or kept, or none.
Drawn(x) == x.kind = "none" \/ \E v \in {verdict, review, filing} : SameDraft(x, v)

\* Verdicts drawn from those there were are still those of the steps.
LEMMA DrawnKeeps ==
    ASSUME VerdictsOK, NEW x, NEW y, Drawn(x), Drawn(y)
    PROVE  OwnOf(x, steps, numbered, batches) /\ Agree(x, y)
  <1>1. OwnOf(x, steps, numbered, batches)
    BY DEF VerdictsOK, Drawn, SameDraft, OwnOf
  <1>2. Agree(x, y)
    BY DEF VerdictsOK, Drawn, SameDraft, Agree
  <1> QED BY <1>1, <1>2

\* The requests at which a filing's drafts are spoken of.
Drafting == {"create", "mark", "swap", "met", "close", "comment"}

\* A step that leaves the steps alone, and files none of the drafts, keeps what is known of them.
LEMMA FileRests ==
    ASSUME LaneInv, FileInv, UNCHANGED <<steps, numbered, batches>>, pc' \notin Drafting,
           Drawn(verdict'), Drawn(review'), Drawn(filing'),
           Given(run'.seen, numbered), Given(seen', numbered)
    PROVE  FileInv'
  <1>1. \A x, y \in {verdict', review', filing'} :
            OwnOf(x, steps, numbered, batches) /\ Agree(x, y)
    BY DrawnKeeps DEF FileInv
  <1>2. VerdictsOK'
    BY <1>1 DEF VerdictsOK
  <1>3. DraftsOf(filing, steps, pc, at, found)'
    BY DEF DraftsOf, Drafting
  <1> QED BY <1>2, <1>3 DEF FileInv

\* What is kept and dropped is drawn from those there were.
LEMMA DrawnStay ==
    ASSUME FileInv
    PROVE  /\ Drawn(verdict) /\ Drawn(review) /\ Drawn(filing) /\ Drawn(NoVerdict)
           /\ (UNCHANGED pending \/ Drop(filing) \/ Keep(filing)) => Drawn(verdict') /\ Drawn(review')
  <1>1. Drawn(verdict) /\ Drawn(review) /\ Drawn(filing) /\ Drawn(NoVerdict)
    BY NoVerdictTyped DEF Drawn, SameDraft
  <1> QED BY <1>1 DEF pending, Drop, Keep

\* A session's numbers, and those the worker has read, were given out.
LEMMA NumbersGiven ==
    ASSUME LaneInv, FileInv
    PROVE  Given(Numbers(steps), numbered) /\ Given(<<>>, numbered)
           /\ Given(run.seen, numbered) /\ Given(seen, numbered)
  BY DEF FileInv, NumbersOf, VerdictsOK, Given, Numbers
-----------------------------------------------------------------------------
\* What is kept and given out when steps change: of all there is, only the drafts of the filing
\* at its request are left to say.
LEMMA FileMoves ==
    ASSUME VerdictsOK, NumbersOf(steps', numbered', batches'), OnceOf(steps'),
           \A v \in {verdict, review, filing} : OwnOf(v, steps', numbered', batches'),
           Drawn(verdict'), Drawn(review'), Drawn(filing'),
           Given(run'.seen, numbered'), Given(seen', numbered'),
           DraftsOf(filing', steps', pc', at', found')
    PROVE  FileInv'
  <1>1. \A x : Drawn(x) => OwnOf(x, steps', numbered', batches')
    BY DEF Drawn, SameDraft, OwnOf
  <1>2. \A x, y : Drawn(x) /\ Drawn(y) => Agree(x, y)
    BY DEF VerdictsOK, Drawn, SameDraft, Agree
  <1>3. VerdictsOK'
    BY <1>1, <1>2 DEF VerdictsOK
  <1> QED BY <1>3 DEF FileInv

\* Of one draft, all that is said of its filing is said of it.
LEMMA SameFiling ==
    ASSUME NEW v, NEW w, SameDraft(v, w), NEW s, NEW p, NEW a, NEW f
    PROVE  DraftsOf(v, s, p, a, f) <=> DraftsOf(w, s, p, a, f)
  <1>1. \A t : FiledTitle(v, s, t) <=> FiledTitle(w, s, t)
    BY DEF SameDraft, FiledTitle
  <1>2. \A k : Child(v, s, k) <=> Child(w, s, k)
    BY DEF SameDraft, Child, OfReview
  <1>3. /\ \A t : MarkedOf(v, s, t) <=> MarkedOf(w, s, t)
        /\ \A t, n : FoundOf(v, s, t, n) <=> FoundOf(w, s, t, n)
    BY <1>1, <1>2 DEF MarkedOf, FoundOf
  <1> QED BY <1>1, <1>3 DEF DraftsOf, SameDraft

\* A title is a number from 1 on.
LEMMA TitlesCount == Titles \subseteq Nat /\ Operator \subseteq Nat /\ 0 \notin Operator
  <1>1. Cardinality(Titles) \in Nat
    BY TriageAssumption, FS_CardinalityType
  <1> QED BY <1>1, TriageAssumption

\* On to the next draft, those before it behind: what the filing says of them then.
LEMMA DraftsOnward ==
    ASSUME HandsOK, NEW s, NEW k \in Nat, NEW have, OnToDraft(k, have),
           \A t : FiledTitle(filing, s, t) => t \in DOMAIN have /\ t \in 1..filing.drafts,
           \A t \in DOMAIN have : FoundOf(filing, s, t, have[t]),
           \A t \in Operator : t <= k => MarkedOf(filing, s, t)
    PROVE  DraftsOf(filing', s, pc', at', found') /\ UNCHANGED <<filing, seen>>
  <1> DEFINE left == Needing(k, have)
  <1>1. UNCHANGED <<filing, seen>>
    BY DEF OnToDraft
  <1>2. \A t \in Operator : t \in Nat
    BY TitlesCount
  <1>3. \A t \in Operator : t > k /\ FiledTitle(filing, s, t) => t \in left
    BY DEF Needing
  <1>4. CASE left = {} /\ pc' = "swap"
    <2>1. \A t \in Operator : MarkedOf(filing, s, t)
      <3> TAKE t \in Operator
      <3>1. CASE t <= k
        BY <3>1
      <3>2. CASE ~(t <= k)
        <4>1. ~FiledTitle(filing, s, t)
          BY <1>2, <1>3, <1>4, <3>2
        <4> QED BY <4>1 DEF MarkedOf
      <3> QED BY <3>1, <3>2
    <2> QED BY <1>1, <1>4, <2>1 DEF DraftsOf
  <1>5. ASSUME NEW t \in left, \A u \in left : t <= u, at' = t, found' = have,
               pc' = IF t \in DOMAIN have THEN "mark" ELSE "create"
        PROVE  DraftsOf(filing, s, pc', at', found')
    <2>1. t \in 1..filing.drafts
      BY DEF Needing
    <2>2. \A u \in Operator : u < t => MarkedOf(filing, s, u)
      <3> SUFFICES ASSUME NEW u \in Operator, u < t PROVE MarkedOf(filing, s, u)
        OBVIOUS
      <3>1. CASE u <= k
        BY <3>1
      <3>2. CASE ~(u <= k)
        <4>0. t \in Nat
          BY <2>1
        <4>1. u \notin left
          BY <1>2, <1>5, <4>0
        <4>2. ~FiledTitle(filing, s, u)
          BY <1>2, <1>3, <3>2, <4>1
        <4> QED BY <4>2 DEF MarkedOf
      <3> QED BY <3>1, <3>2
    <2>3. pc' \in {"create", "mark"} /\ (pc' = "create" => t \notin DOMAIN have)
      BY <1>5
    <2> HIDE DEF left
    <2> QED BY <1>5, <2>1, <2>2, <2>3 DEF DraftsOf
  <1> QED BY <1>1, <1>4, <1>5 DEF OnToDraft
-----------------------------------------------------------------------------
\* A try that failed keeps the verdict, and speaks of none of its drafts.
LEMMA FileFails ==
    ASSUME LaneInv, FileInv, pc \in FilingAt, TryFails
    PROVE  /\ pc' \notin Drafting /\ Drawn(verdict') /\ Drawn(review') /\ Drawn(filing')
           /\ UNCHANGED <<run, batches>> /\ seen' \in {seen, <<>>}
  <1>1. /\ UNCHANGED <<run, batches>> /\ Keep(Tried)
        /\ \/ pc' = "none" /\ filing' = NoVerdict
           \/ filing' = filing /\ pc' \in {"hand_over", "hand_read", "hand_back"}
    BY TryFailsOK DEF TryFails, history
  <1>2. SameDraft(Tried, filing)
    BY DEF Tried, SameDraft, LaneInv, HandsOK, Filed
  <1>3. Drawn(Tried)
    BY <1>2 DEF Drawn
  <1>4. Drawn(verdict') /\ Drawn(review') /\ Drawn(filing')
    BY <1>1, <1>3, DrawnStay DEF Keep
  <1>5. seen' \in {seen, <<>>}
    BY DEF TryFails, HandBackVerdict, Done, Enter, HandBackFor, Ask
  <1> QED BY <1>1, <1>4, <1>5 DEF Drafting

\* A verdict with a part in the filing is of a number already given out, and no other's.
LEMMA FilingIsDrawn ==
    ASSUME LaneInv, FileInv, pc \in FilingAt
    PROVE  /\ filing.kind # "none" /\ filing.batch \in 1..batches /\ filing.drafts \in Nat
           /\ Given(filing.seen, numbered)
           /\ \A t : FiledTitle(filing, steps, t) => t \in 1..filing.drafts
           /\ filing.kind \in {"fits", "met"} => \A t : ~FiledTitle(filing, steps, t)
  <1>1. filing.kind # "none" /\ filing \in Filed
    BY DEF LaneInv, Placed, HandsOK
  <1>2. OwnOf(filing, steps, numbered, batches)
    BY DEF FileInv, VerdictsOK
  <1> QED BY <1>1, <1>2 DEF OwnOf, FiledTitle, Filed

\* Drafts of which nothing is said are none.
LEMMA DraftsRest == \A v, s, p, a, f : p \notin Drafting => DraftsOf(v, s, p, a, f)
  BY DEF DraftsOf, Drafting

\* The first request of a filing that files no sub-issues finds nothing of its own to mark.
LEMMA FileBegins ==
    ASSUME LaneInv, FileInv, pc \in FilingAt, Ask(Begin)
    PROVE  DraftsOf(filing', steps, pc', at', found') /\ UNCHANGED <<filing, seen>>
  <1>1. UNCHANGED <<filing, seen>> /\ pc' = Begin
    BY DEF Ask
  <1>2. filing.kind \in {"fits", "split", "met", "next", "gap"}
    BY FilingIsDrawn DEF LaneInv, HandsOK, Filed
  <1>3. CASE filing.kind \in Filings
    BY <1>1, <1>3, DraftsRest DEF Begin, Filings, Drafting
  <1>4. CASE filing.kind \in {"fits", "met"}
    <2>1. pc' \in {"swap", "met", "comment"}
      BY <1>1, <1>4 DEF Begin, Filings
    <2>2. \A t \in Operator : MarkedOf(filing, steps, t)
      BY <1>4, FilingIsDrawn DEF MarkedOf
    <2> QED BY <1>1, <2>1, <2>2 DEF DraftsOf
  <1> QED BY <1>1, <1>2, <1>3, <1>4 DEF Filings
-----------------------------------------------------------------------------
(* What a verdict files, action by action *)

\* The worker looks the issue and the watched parents up, and starts a session.
LEMMA FileAsked ==
    ASSUME LaneInv, FileInv, \/ CandidatesRead \/ Approval \/ RequestedReview
                             \/ WatchRead \/ WatchIssues \/ WatchApproval
    PROVE  FileInv'
  <1>1. UNCHANGED <<github, pending, batches>>
    BY DEF CandidatesRead, Approval, RequestedReview, WatchRead, WatchIssues, WatchApproval, Passed,
           Start, memory, history
  <1>2. /\ pc' \in {"none", "hand_over", "hand_back", "approval", "sub_issues", "issues"}
        /\ filing' \in {filing, NoVerdict}
    BY LaneCandidates, LaneApproval, LaneRequested, LaneWatchRead, LaneWatchIssues, LaneWatchApproval
  <1>3. seen' \in {seen, <<>>, Numbers(steps)}
    BY DEF CandidatesRead, Approval, RequestedReview, WatchRead, WatchIssues, WatchApproval, Passed,
           Start, Done, Enter, HandBackFor, AskToWait, OverCap, Ask
  <1>4. run'.seen \in {run.seen, <<>>, seen, Numbers(steps)}
    <2>1. \A kind, known : Start(kind, known) => run'.seen = known
      BY DEF Start
    <2>2. CASE CandidatesRead \/ WatchRead \/ WatchIssues
      BY <2>2, LaneCandidates, LaneWatchRead, LaneWatchIssues DEF memory
    <2>3. \/ UNCHANGED run \/ Start("triage", <<>>)
          \/ Start("parent_review", Numbers(steps)) \/ Start("parent_review", seen)
          \/ CandidatesRead \/ WatchRead \/ WatchIssues
      BY DEF Approval, RequestedReview, WatchApproval, Passed, memory
    <2> QED BY <2>1, <2>2, <2>3
  <1>5. Given(run'.seen, numbered) /\ Given(seen', numbered)
    BY <1>3, <1>4, NumbersGiven
  <1>6. Drawn(verdict') /\ Drawn(review') /\ Drawn(filing')
    BY <1>1, <1>2, DrawnStay
  <1>7. UNCHANGED <<steps, numbered, batches>> /\ pc' \notin Drafting
    BY <1>1, <1>2 DEF github, Drafting
  <1> QED BY <1>5, <1>6, <1>7, FileRests

\* The tick goes on, a session is looked after, an issue is handed to a human, a process ends.
LEMMA FilePasses ==
    ASSUME LaneInv, FileInv, Tick \/ Refresh \/ Retry \/ HandRead \/ HandBack \/ HandOver \/ Restart
    PROVE  FileInv'
  <1>1. /\ UNCHANGED <<steps, numbered, batches>>
        /\ pc' \in {"none", "owed", "hand_back", "hand_over"}
        /\ filing' \in {filing, verdict, review, NoVerdict}
    BY DEF Tick, Refresh, Retry, HandRead, HandBack, HandOver, Restart, Passed, Done, Enter, HandBackFor,
           github, history, HandOverRefused, HandedOver
  <1>2. seen' \in {seen, <<>>}
    BY DEF Tick, Refresh, Retry, HandRead, HandBack, HandOver, Restart, Passed, Done, Enter, HandBackFor
  <1>3. run'.seen \in {run.seen, <<>>}
    <2>1. CASE Refresh
      <3>1. ASSUME NEW r \in Runs, NEW x, NEW y
            PROVE  [r EXCEPT !.stop = x, !.subs = y].seen = r.seen
        BY DEF Runs
      <3>2. run \in Runs /\ (UNCHANGED run \/ \E x, y : run' = [run EXCEPT !.stop = x, !.subs = y])
        BY <2>1 DEF Refresh, Passed, memory, LaneInv, LaneOK
      <3>3. CASE \E x, y : run' = [run EXCEPT !.stop = x, !.subs = y]
        <4>1. PICK x, y : run' = [run EXCEPT !.stop = x, !.subs = y]
          BY <3>3
        <4> QED BY <3>1, <3>2, <4>1
      <3> QED BY <3>2, <3>3
    <2>2. CASE ~Refresh
      BY <2>2 DEF Tick, Retry, HandRead, HandBack, HandOver, Restart, memory, HandedBack,
                  HandBackRefused, HandOverRefused, HandedOver, NoRun
    <2> QED BY <2>1, <2>2
  <1>4. \/ UNCHANGED pending
        \/ Drop(filing)
        \/ verdict' = NoVerdict /\ review' = NoVerdict
    BY DEF Tick, Refresh, Retry, HandRead, HandBack, HandOver, Restart, memory, HandedBack, Passed,
           HandBackRefused, HandOverRefused, HandedOver
  <1>5. Drawn(verdict') /\ Drawn(review') /\ Drawn(filing')
    BY <1>1, <1>4, DrawnStay
  <1>6. Given(run'.seen, numbered) /\ Given(seen', numbered)
    BY <1>2, <1>3, NumbersGiven
  <1>7. pc' \notin Drafting
    BY <1>1 DEF Drafting
  <1> QED BY <1>1, <1>5, <1>6, <1>7, FileRests

\* A session's verdict is of a number of its own, and nothing is filed of it yet.
LEMMA FileJudged == ASSUME LaneInv, FileInv, Exit PROVE FileInv'
  <1>1. /\ UNCHANGED <<steps, numbered, verdict, review>> /\ run'.seen = <<>> /\ UNCHANGED seen
        /\ pc = "none" /\ filing.kind = "none"
    BY LaneExit DEF Exit, github, pending, NoRun, ExitWithVerdict, ExitFailed, control, inHand, LaneInv,
                    Placed
  <1>2. Given(run'.seen, numbered) /\ Given(seen', numbered)
    BY <1>1, NumbersGiven
  <1>3. CASE UNCHANGED batches /\ UNCHANGED filing /\ pc' \in {"none", "hand_over", "hand_back"}
    <2>1. Drawn(verdict') /\ Drawn(review') /\ Drawn(filing')
      BY <1>1, <1>3, DrawnStay
    <2>2. pc' \notin Drafting
      BY <1>3 DEF Drafting
    <2> QED BY <1>1, <1>2, <1>3, <2>1, <2>2, FileRests
  <1>4. CASE ExitWithVerdict
    <2>1. filing' \in Verdicts /\ batches' = batches + 1 /\ pc' = "owed"
      BY <1>4 DEF ExitWithVerdict
    <2>2. /\ filing'.batch = batches + 1 /\ filing'.seen = run.seen
          /\ filing'.kind \in {"fits", "met"} => filing'.drafts = 0
      BY <2>1 DEF Verdicts, Verdict
    <2>3. batches \in Nat /\ numbered \in Nat
      BY DEF LaneInv, PastOK, GitHubOK
    <2>4. NumbersOf(steps, numbered, batches + 1) /\ \A k \in DOMAIN steps : steps[k].by # batches + 1
      BY <2>3 DEF FileInv, NumbersOf
    <2>5. OwnOf(filing', steps, numbered, batches + 1)
      BY <2>2, <2>3, <2>4, NumbersGiven DEF OwnOf
    <2>6. \A v \in {verdict, review} : OwnOf(v, steps, numbered, batches + 1)
      BY <2>3 DEF FileInv, VerdictsOK, OwnOf
    <2>7. \A v \in {verdict, review} : v.kind # "none" => v.batch # batches + 1
      BY <2>3 DEF FileInv, VerdictsOK, OwnOf
    <2>8. \A v, w \in {verdict, review, filing'} : Agree(v, w)
      BY <2>2, <2>7 DEF FileInv, VerdictsOK, Agree
    <2>9. VerdictsOK'
      BY <1>1, <1>2, <2>1, <2>5, <2>6, <2>8 DEF VerdictsOK
    <2>10. DraftsOf(filing', steps', pc', at', found')
      BY <2>1, DraftsRest DEF Drafting
    <2> QED BY <1>1, <2>1, <2>4, <2>9, <2>10 DEF FileInv
  <1> QED BY <1>1, <1>3, <1>4 DEF Exit, ExitFailed, history, control, inHand

\* A verdict read again, its steps read, and its sub-issues listed.
LEMMA FileReads == ASSUME LaneInv, FileInv, OwedRead \/ StepsRead \/ List PROVE FileInv'
  <1>1. pc \in FilingAt /\ UNCHANGED <<steps, numbered, batches>>
    <2>1. UNCHANGED batches
      BY DEF OwedRead, StepsRead, List, history, TryFails
    <2> QED BY <2>1 DEF OwedRead, StepsRead, List, FilingAt, github
  <1>2. run' = run
    BY DEF OwedRead, StepsRead, List, memory, TryFails
  <1>3. CASE TryFails
    <2>1. /\ pc' \notin Drafting /\ Drawn(verdict') /\ Drawn(review') /\ Drawn(filing')
          /\ seen' \in {seen, <<>>}
      BY <1>1, <1>3, FileFails
    <2> QED BY <1>1, <1>2, <2>1, NumbersGiven, FileRests
  <1>4. CASE /\ (Drop(filing) \/ UNCHANGED pending) /\ filing' \in {filing, NoVerdict}
             /\ seen' \in {seen, <<>>} /\ DraftsOf(filing', steps, pc', at', found')
    <2>1. Drawn(verdict') /\ Drawn(review') /\ Drawn(filing')
      BY <1>4, DrawnStay
    <2>2. Given(run'.seen, numbered') /\ Given(seen', numbered')
      BY <1>1, <1>2, <1>4, NumbersGiven
    <2> QED BY <1>1, <1>4, <2>1, <2>2, FileMoves DEF FileInv, VerdictsOK
  <1>5. CASE /\ (Drop(filing) \/ UNCHANGED pending)
             /\ \/ Done \/ Ask("steps") \/ HandBackFor("gap_limit", TRUE)
    <2>1. filing' \in {filing, NoVerdict} /\ seen' \in {seen, <<>>} /\ pc' \notin Drafting
      BY <1>5 DEF Done, Enter, Ask, HandBackFor, Drafting
    <2> QED BY <1>4, <1>5, <2>1, DraftsRest
  <1>6. CASE UNCHANGED pending /\ Ask(Begin)
    BY <1>1, <1>4, <1>6, FileBegins
  <1>7. CASE UNCHANGED pending /\ OnToDraft(0, Existing(Children))
    <2>1. OwnOf(filing, steps, numbered, batches) /\ filing.kind # "none" /\ HandsOK
          /\ steps \in Seq(Steps)
      BY <1>1, FilingIsDrawn DEF FileInv, VerdictsOK, LaneInv, GitHubOK
    <2>2. \A t : FiledTitle(filing, steps, t)
                    => t \in DOMAIN Existing(Children) /\ t \in 1..filing.drafts
      BY <1>1, <2>1, ExistingFinds, FilingIsDrawn
    <2>3. \A t \in DOMAIN Existing(Children) : FoundOf(filing, steps, t, Existing(Children)[t])
      BY <2>1, ExistingFinds
    <2>4. \A t \in Operator : ~(t <= 0)
      BY TitlesCount
    <2>5. DraftsOf(filing', steps, pc', at', found') /\ UNCHANGED <<filing, seen>>
      BY <1>7, <2>1, <2>2, <2>3, <2>4, DraftsOnward
    <2> QED BY <1>4, <1>7, <2>5
  <1>8. CASE OwedRead
    BY <1>3, <1>5, <1>6, <1>8 DEF OwedRead, Discard, memory
  <1>9. CASE StepsRead
    BY <1>3, <1>5, <1>6, <1>9 DEF StepsRead
  <1>10. CASE List
    BY <1>3, <1>7, <1>10 DEF List, memory
  <1> QED BY <1>8, <1>9, <1>10

\* A request that failed, its effect on the steps apart: what it leaves.
LEMMA FileGivenUp ==
    ASSUME LaneInv, FileInv, pc \in FilingAt, TryFails, numbered' \in {numbered, numbered + 1},
           NumbersOf(steps', numbered', batches), OnceOf(steps'),
           \A v \in {verdict, review, filing} : OwnOf(v, steps', numbered', batches)
    PROVE  FileInv'
  <1>1. /\ pc' \notin Drafting /\ Drawn(verdict') /\ Drawn(review') /\ Drawn(filing')
        /\ UNCHANGED <<run, batches>> /\ seen' \in {seen, <<>>}
    BY FileFails
  <1>2. \A q : Given(q, numbered) => Given(q, numbered')
    BY DEF Given, LaneInv, GitHubOK
  <1>3. Given(run'.seen, numbered') /\ Given(seen', numbered')
    BY <1>1, <1>2, NumbersGiven
  <1>4. VerdictsOK
    BY DEF FileInv
  <1> QED BY <1>1, <1>3, <1>4, DraftsRest, FileMoves

\* The new sub-issue is the first of its draft, and no verdict's session had seen it.
LEMMA FileGrows ==
    ASSUME LaneInv, FileInv, pc = "create", Created
    PROVE  /\ NumbersOf(steps', numbered', batches) /\ OnceOf(steps') /\ numbered' = numbered + 1
           /\ \A v \in {verdict, review, filing} : OwnOf(v, steps', numbered', batches)
           /\ \A t : t # at /\ FiledTitle(filing, steps', t) => FiledTitle(filing, steps, t)
           /\ \A t : t # at /\ MarkedOf(filing, steps, t) => MarkedOf(filing, steps', t)
           /\ \A t, n : t # at /\ FoundOf(filing, steps, t, n) => FoundOf(filing, steps', t, n)
           /\ FoundOf(filing, steps', at, numbered + 1)
  <1> DEFINE new == [n |-> numbered + 1, title |-> at, by |-> filing.batch,
                     open |-> TRUE, operator |-> FALSE]
  <1>1. pc \in FilingAt /\ filing \in Filed /\ at \in Nat /\ numbered \in Nat /\ batches \in Nat
        /\ steps \in Seq(Steps)
    BY DEF FilingAt, LaneInv, HandsOK, GitHubOK, PastOK
  <1>2. /\ filing.kind # "none" /\ filing.batch \in 1..batches /\ Given(filing.seen, numbered)
        /\ at \in 1..filing.drafts
        /\ \A t : FiledTitle(filing, steps, t) => t \in DOMAIN found
        /\ at \notin DOMAIN found
    BY <1>1, FilingIsDrawn DEF FileInv, DraftsOf
  <1>3. new \in Steps /\ new.n = numbered + 1 /\ new.by = filing.batch /\ new.title = at
    BY <1>1, <1>2 DEF Steps, Filed
  <1>4. steps' = Append(steps, new) /\ numbered' = numbered + 1
    BY DEF Created
  <1> HIDE DEF new
  <1>5. Added(steps, steps', new)
    BY <1>1, <1>3, <1>4, AppendAdds
  <1>6. new.by \in 0..batches /\ \A k \in DOMAIN steps : steps[k].by = new.by => steps[k].title # new.title
    BY <1>1, <1>2, <1>3 DEF FiledTitle
  <1>7. NumbersOf(steps', numbered + 1, batches) /\ OnceOf(steps')
    BY <1>1, <1>3, <1>5, <1>6, AddedKeeps DEF FileInv
  <1>8. \A v \in {verdict, review, filing} : OwnOf(v, steps', numbered + 1, batches)
    <2> TAKE v \in {verdict, review, filing}
    <2>1. OwnOf(v, steps, numbered, batches) /\ Agree(v, filing)
      BY DEF FileInv, VerdictsOK
    <2>2. CASE v.kind = "none"
      BY <2>2 DEF OwnOf
    <2>3. CASE v.kind # "none"
      <3>1. new.by = v.batch => new.n = numbered + 1 /\ new.title \in 1..v.drafts
        BY <1>2, <1>3, <2>1, <2>3 DEF Agree
      <3> QED BY <1>1, <1>5, <2>1, <3>1, AddedKeeps
    <2> QED BY <2>2, <2>3
  <1>9. \A k \in DOMAIN steps' : \/ k \in DOMAIN steps /\ steps'[k] = steps[k]
                                 \/ k \notin DOMAIN steps /\ steps'[k] = new
    BY <1>5 DEF Added
  <1>10. \A t : t # at /\ FiledTitle(filing, steps', t) => FiledTitle(filing, steps, t)
    BY <1>3, <1>9 DEF FiledTitle
  <1>11. \A k : Child(filing, steps, k) => Child(filing, steps', k) /\ steps'[k] = steps[k]
    BY <1>5 DEF Added, Child
  <1>12. \A t : t # at /\ MarkedOf(filing, steps, t) => MarkedOf(filing, steps', t)
    BY <1>10, <1>11 DEF MarkedOf
  <1>13. \A t, n : t # at /\ FoundOf(filing, steps, t, n) => FoundOf(filing, steps', t, n)
    BY <1>10, <1>11 DEF FoundOf
  <1>14. FoundOf(filing, steps', at, numbered + 1)
    <2>1. PICK k : k \in DOMAIN steps' /\ k \notin DOMAIN steps
      <3>1. Len(steps) \in Nat /\ DOMAIN steps = 1..Len(steps)
            /\ DOMAIN Append(steps, new) = 1..Len(steps) + 1
        BY <1>1, <1>3, AppendProperties, LenProperties
      <3> QED BY <1>4, <3>1
    <2>2. steps'[k].n = numbered + 1 /\ steps'[k].title = at
      BY <1>3, <1>9, <2>1
    <2>3. numbered + 1 \notin ToSet(filing.seen)
      BY <1>1, <1>2 DEF Given, ToSet
    <2>4. Child(filing, steps', k)
      BY <2>1, <2>2, <2>3 DEF Child
    <2> QED BY <2>2, <2>4 DEF FoundOf
  <1> QED BY <1>4, <1>7, <1>8, <1>10, <1>12, <1>13, <1>14

\* A draft's sub-issue is created.
LEMMA FileCreates == ASSUME LaneInv, FileInv, Create PROVE FileInv'
  <1>1. pc = "create" /\ pc \in FilingAt /\ numbered \in Nat /\ at \in Nat /\ HandsOK
    BY DEF Create, FilingAt, LaneInv, GitHubOK, HandsOK
  <1>2. CASE TryFails /\ Created
    BY <1>1, <1>2, FileGrows, FileGivenUp
  <1>3. CASE TryFails /\ UNCHANGED github
    BY <1>1, <1>3, FileGivenUp DEF FileInv, VerdictsOK, github
  <1>4. CASE /\ Created /\ MarkNext(WithChild(numbered + 1))
             /\ UNCHANGED <<memory, stored, history, bounds>>
    <2> DEFINE have == WithChild(numbered + 1)
    <2>1. /\ NumbersOf(steps', numbered', batches) /\ OnceOf(steps') /\ numbered' = numbered + 1
          /\ \A v \in {verdict, review, filing} : OwnOf(v, steps', numbered', batches)
          /\ \A t : t # at /\ FiledTitle(filing, steps', t) => FiledTitle(filing, steps, t)
          /\ \A t : t # at /\ MarkedOf(filing, steps, t) => MarkedOf(filing, steps', t)
          /\ \A t, n : t # at /\ FoundOf(filing, steps, t, n) => FoundOf(filing, steps', t, n)
          /\ FoundOf(filing, steps', at, numbered + 1)
      BY <1>1, <1>4, FileGrows
    <2>2. UNCHANGED <<run, verdict, review, batches>>
      BY <1>4 DEF memory, pending, history
    <2>3. DOMAIN have = {at} \cup DOMAIN found /\ have[at] = numbered + 1
          /\ \A t \in DOMAIN found : t # at => have[t] = found[t]
      BY DEF WithChild
    <2> HIDE DEF have
    <2>4. /\ at \in 1..filing.drafts
          /\ \A t : FiledTitle(filing, steps, t) => t \in DOMAIN found /\ t \in 1..filing.drafts
          /\ \A t \in DOMAIN found : FoundOf(filing, steps, t, found[t])
          /\ \A t \in Operator : t < at => MarkedOf(filing, steps, t)
      BY <1>1, FilingIsDrawn DEF FileInv, DraftsOf
    <2>5. \A t : FiledTitle(filing, steps', t) => t \in DOMAIN have /\ t \in 1..filing.drafts
      BY <2>1, <2>3, <2>4
    <2>6. \A t \in DOMAIN have : FoundOf(filing, steps', t, have[t])
      BY <2>1, <2>3, <2>4
    <2>7. \A t \in Operator : t < at => MarkedOf(filing, steps', t)
      BY <1>1, <2>1, <2>4, TitlesCount
    <2>8. DraftsOf(filing', steps', pc', at', found') /\ UNCHANGED <<filing, seen>>
      <3>1. CASE at \in Operator
        <4>1. pc' = "mark" /\ found' = have /\ UNCHANGED <<filing, seen, at>>
          BY <1>4, <3>1 DEF MarkNext, have
        <4> QED BY <2>4, <2>5, <2>6, <2>7, <4>1 DEF DraftsOf
      <3>2. CASE at \notin Operator
        <4>1. OnToDraft(at, have)
          BY <1>4, <3>2 DEF MarkNext, have
        <4>2. \A t \in Operator : t <= at => t < at
          BY <1>1, <3>2, TitlesCount
        <4> QED BY <1>1, <2>5, <2>6, <2>7, <4>1, <4>2, DraftsOnward
      <3> QED BY <3>1, <3>2
    <2>9. Given(run'.seen, numbered') /\ Given(seen', numbered')
      BY <1>1, <2>1, <2>2, <2>8, NumbersGiven DEF Given
    <2> QED BY <2>1, <2>2, <2>8, <2>9, DrawnStay, FileMoves DEF FileInv, pending
  <1> QED BY <1>2, <1>3, <1>4 DEF Create

\* A draft's sub-issue marked as an operator's is the one found for it.
LEMMA FileMarked ==
    ASSUME LaneInv, FileInv, Marked
    PROVE  /\ Like(steps, steps') /\ UNCHANGED numbered
           /\ \A t : t = at /\ FoundOf(filing, steps, t, found[t]) => MarkedOf(filing, steps', t)
  <1>1. /\ DOMAIN steps' = DOMAIN steps /\ UNCHANGED numbered
        /\ \A k \in DOMAIN steps : steps'[k] = IF steps[k].n = found[at]
                                               THEN [steps[k] EXCEPT !.operator = TRUE] ELSE steps[k]
    BY DEF Marked
  <1>2. \A k \in DOMAIN steps : steps[k] \in Steps
    BY ElementOfSeq, LenProperties DEF LaneInv, GitHubOK
  <1>3. \A s \in Steps : LET m == [s EXCEPT !.operator = TRUE]
                         IN  m.n = s.n /\ m.by = s.by /\ m.title = s.title /\ m.operator
    BY DEF Steps
  <1>4. Like(steps, steps')
    BY <1>1, <1>2, <1>3 DEF Like
  <1>5. \A k \in DOMAIN steps : steps[k].n = found[at] => steps'[k].operator
    BY <1>1, <1>2, <1>3
  <1>6. \A t : t = at /\ FoundOf(filing, steps, t, found[t]) => MarkedOf(filing, steps', t)
    BY <1>4, <1>5 DEF FoundOf, MarkedOf, FiledTitle, Like, Child
  <1> QED BY <1>1, <1>4, <1>6

\* A draft's sub-issue is marked.
LEMMA FileMarks == ASSUME LaneInv, FileInv, Mark PROVE FileInv'
  <1>1. pc = "mark" /\ pc \in FilingAt /\ numbered \in Nat /\ batches \in Nat /\ at \in Nat /\ HandsOK
    BY DEF Mark, FilingAt, LaneInv, GitHubOK, PastOK, HandsOK
  <1>2. CASE TryFails /\ UNCHANGED github
    BY <1>1, <1>2, FileGivenUp DEF FileInv, VerdictsOK, github
  <1>3. CASE Marked
    <2>1. Like(steps, steps') /\ UNCHANGED numbered
      BY <1>3, FileMarked
    <2>2. /\ NumbersOf(steps', numbered', batches) /\ OnceOf(steps')
          /\ \A v \in {verdict, review, filing} : OwnOf(v, steps', numbered', batches)
      BY <1>1, <2>1, LikeKeeps DEF FileInv, VerdictsOK
    <2>3. CASE TryFails
      BY <1>1, <2>1, <2>2, <2>3, FileGivenUp
    <2>4. CASE OnToDraft(at, found) /\ UNCHANGED <<memory, stored, history, bounds>>
      <3>1. UNCHANGED <<run, verdict, review, batches>>
        BY <2>4 DEF memory, pending, history
      <3>2. DraftsOf(filing, steps', "mark", at, found)
        BY <1>1, <2>1, LikeKeeps DEF FileInv
      <3>3. /\ \A t : FiledTitle(filing, steps', t) => t \in DOMAIN found
            /\ \A t \in DOMAIN found : FoundOf(filing, steps', t, found[t])
            /\ \A t \in Operator : t < at => MarkedOf(filing, steps', t)
        BY <3>2 DEF DraftsOf
      <3>4. \A t : FiledTitle(filing, steps', t) => FiledTitle(filing, steps, t)
        BY <2>1 DEF FiledTitle, Like
      <3>5. MarkedOf(filing, steps', at)
        <4>1. CASE ~FiledTitle(filing, steps', at)
          BY <4>1 DEF MarkedOf
        <4>2. CASE FiledTitle(filing, steps', at)
          <5>1. FoundOf(filing, steps, at, found[at])
            BY <1>1, <3>3, <4>2 DEF FileInv, DraftsOf
          <5> QED BY <1>3, <5>1, FileMarked
        <4> QED BY <4>1, <4>2
      <3>6. \A t \in Operator : t <= at => MarkedOf(filing, steps', t)
        BY <1>1, <3>3, <3>5, TitlesCount
      <3>7. DraftsOf(filing', steps', pc', at', found') /\ UNCHANGED <<filing, seen>>
        BY <1>1, <2>4, <3>3, <3>4, <3>6, FilingIsDrawn, DraftsOnward
      <3>8. Given(run'.seen, numbered') /\ Given(seen', numbered')
        BY <2>1, <3>1, <3>7, NumbersGiven
      <3> QED BY <2>2, <3>1, <3>7, <3>8, DrawnStay, FileMoves DEF FileInv, pending
    <2> QED BY <2>3, <2>4 DEF Mark
  <1> QED BY <1>2, <1>3 DEF Mark

\* The verdict's labels, its close and its comment.
LEMMA FileMovesOn == ASSUME LaneInv, FileInv, Swap \/ Met \/ Close \/ Comment PROVE FileInv'
  <1>1. pc \in {"swap", "met", "close", "comment"} /\ pc \in FilingAt /\ UNCHANGED <<steps, numbered>>
    BY DEF Swap, Met, Close, Comment, FilingAt, github
  <1>2. CASE TryFails
    BY <1>1, <1>2, FileGivenUp DEF FileInv, VerdictsOK, TryFails, history
  <1>3. UNCHANGED <<run, batches>>
    BY DEF Swap, Met, Close, Comment, Acted, memory, history, TryFails
  <1>4. CASE (Drop(filing) \/ UNCHANGED pending) /\ Done
    <2>1. filing' = NoVerdict /\ seen' = <<>> /\ pc' \notin Drafting
      BY <1>4 DEF Done, Enter, Drafting
    <2> QED BY <1>1, <1>3, <1>4, <2>1, NumbersGiven, DrawnStay, FileRests
  <1>5. CASE UNCHANGED pending /\ (Moved \/ Ask("close"))
    <2>1. /\ UNCHANGED seen /\ pc' \in {"comment", "close"}
          /\ \/ UNCHANGED filing
             \/ filing' = [filing EXCEPT !.swapped = TRUE]
      BY <1>5 DEF Moved, Ask
    <2>2. SameDraft(filing', filing)
      BY <2>1 DEF SameDraft, LaneInv, HandsOK, Filed
    <2>3. DraftsOf(filing, steps', pc', at', found')
      BY <1>1, <2>1 DEF FileInv, DraftsOf
    <2>4. DraftsOf(filing', steps', pc', at', found')
      BY <2>2, <2>3, SameFiling
    <2>5. Drawn(verdict') /\ Drawn(review') /\ Drawn(filing')
      BY <1>5, <2>2, DrawnStay DEF Drawn
    <2> QED BY <1>1, <1>3, <2>1, <2>4, <2>5, FileMoves DEF FileInv, VerdictsOK
  <1> QED BY <1>2, <1>4, <1>5 DEF Swap, Met, Close, Comment, memory

\* Humans, and the steps that close: the numbers they give are new, and no verdict's.
LEMMA FileLives == ASSUME LaneInv, FileInv, Human \/ StepCloses PROVE FileInv'
  <1>1. UNCHANGED <<run, verdict, review, filing, pc, at, found, seen, batches>>
    BY DEF Human, StepCloses, HumanAsks, HumanRelabels, HumanCloses, HumanReopensStep, HumanAddsStep,
           HumanUnlinks, Aside, memory, pending, control, inHand, history
  <1>2. numbered \in Nat /\ batches \in Nat /\ steps \in Seq(Steps)
    BY DEF LaneInv, GitHubOK, PastOK
  <1>3. /\ NumbersOf(steps, numbered, batches) /\ OnceOf(steps) /\ VerdictsOK
        /\ DraftsOf(filing, steps, pc, at, found)
        /\ \A v \in {verdict, review, filing} : OwnOf(v, steps, numbered, batches)
    BY DEF FileInv, VerdictsOK
  <1>4. ASSUME numbered' \in {numbered, numbered + 1},
               NumbersOf(steps', numbered', batches), OnceOf(steps'),
               \A v \in {verdict, review, filing} : OwnOf(v, steps', numbered', batches),
               DraftsOf(filing, steps', pc, at, found)
        PROVE  FileInv'
    <2>1. Given(run'.seen, numbered') /\ Given(seen', numbered')
      BY <1>1, <1>2, <1>4, NumbersGiven DEF Given
    <2> QED BY <1>1, <1>3, <1>4, <2>1, DrawnStay, FileMoves DEF pending
  <1>5. CASE UNCHANGED <<steps, numbered>>
    BY <1>3, <1>4, <1>5
  <1>6. CASE Like(steps, steps') /\ UNCHANGED numbered
    BY <1>2, <1>3, <1>4, <1>6, LikeKeeps
  <1>7. CASE steps' = <<>> /\ UNCHANGED numbered
    <2>1. DOMAIN steps' = {}
      BY <1>7
    <2> QED BY <1>2, <1>3, <1>4, <1>7, <2>1, NoneKeeps
  <1>8. CASE HumanAddsStep
    <2>1. PICK t \in Titles : steps' = Append(steps, [n |-> numbered + 1, title |-> t, by |-> 0,
                                                      open |-> TRUE, operator |-> FALSE])
      BY <1>8 DEF HumanAddsStep
    <2> DEFINE new == [n |-> numbered + 1, title |-> t, by |-> 0, open |-> TRUE, operator |-> FALSE]
    <2>2. t \in Nat /\ numbered' = numbered + 1
      BY <1>8, TitlesCount DEF HumanAddsStep
    <2>3. new \in Steps /\ new.n = numbered + 1 /\ new.by = 0
      BY <1>2, <2>2 DEF Steps
    <2> HIDE DEF new
    <2>4. Added(steps, steps', new)
      BY <1>2, <2>1, <2>3, AppendAdds DEF new
    <2>5. NumbersOf(steps', numbered', batches) /\ OnceOf(steps')
      BY <1>2, <1>3, <2>2, <2>3, <2>4, AddedKeeps
    <2>6. \A v \in {verdict, review, filing} : OwnOf(v, steps', numbered', batches)
      <3> TAKE v \in {verdict, review, filing}
      <3>1. CASE v.kind = "none"
        BY <3>1 DEF OwnOf
      <3>2. CASE v.kind # "none"
        <4>1. v.batch # 0
          BY <1>2, <1>3, <3>2 DEF OwnOf
        <4> QED BY <1>2, <1>3, <2>2, <2>3, <2>4, <4>1, AddedKeeps
      <3> QED BY <3>1, <3>2
    <2>7. DraftsOf(filing, steps', pc, at, found)
      <3>1. CASE pc \in FilingAt
        <4>1. new.by # filing.batch
          BY <1>2, <2>3, <3>1, FilingIsDrawn
        <4> QED BY <1>2, <1>3, <2>4, <4>1, AddedKeeps
      <3>2. CASE pc \notin FilingAt
        BY <3>2, DraftsRest DEF FilingAt, Drafting
      <3> QED BY <3>1, <3>2
    <2> QED BY <1>4, <2>2, <2>5, <2>6, <2>7
  <1>9. CASE StepCloses \/ HumanReopensStep
    <2>1. UNCHANGED numbered
      BY <1>9 DEF StepCloses, HumanReopensStep
    <2>2. PICK k \in DOMAIN steps, b \in BOOLEAN : steps' = [steps EXCEPT ![k].open = b]
      BY <1>9 DEF StepCloses, HumanReopensStep
    <2>3. \A j \in DOMAIN steps : steps[j] \in Steps
      BY <1>2, ElementOfSeq, LenProperties
    <2>4. \A s \in Steps : LET m == [s EXCEPT !.open = b]
                           IN  m.n = s.n /\ m.by = s.by /\ m.title = s.title /\ m.operator = s.operator
      BY DEF Steps
    <2>5. /\ DOMAIN steps' = DOMAIN steps
          /\ \A j \in DOMAIN steps : steps'[j] = IF j = k THEN [steps[k] EXCEPT !.open = b] ELSE steps[j]
      BY <2>2
    <2>6. Like(steps, steps')
      <3>1. steps[k] \in Steps
        BY <2>3
      <3>2. \A j \in DOMAIN steps :
                /\ steps'[j].n = steps[j].n /\ steps'[j].by = steps[j].by
                /\ steps'[j].title = steps[j].title /\ steps'[j].operator = steps[j].operator
        <4> TAKE j \in DOMAIN steps
        <4>1. CASE j = k
          BY <2>4, <2>5, <3>1, <4>1
        <4>2. CASE j # k
          BY <2>5, <4>2
        <4> QED BY <4>1, <4>2
      <3> QED BY <2>5, <3>2 DEF Like
    <2> QED BY <1>6, <2>1, <2>6
  <1> QED BY <1>5, <1>7, <1>8, <1>9 DEF Human, HumanAsks, HumanRelabels, HumanCloses, HumanUnlinks

\* The session's end and the worker's memory: nothing is filed.
LEMMA FileStays ==
    ASSUME LaneInv, FileInv, SessionEnds \/ Expire \/ Store \/ UNCHANGED vars
    PROVE  FileInv'
  <1>1. UNCHANGED <<steps, numbered, batches, verdict, review, filing, pc, at, found, seen>>
    BY DEF SessionEnds, Expire, Store, vars, github, memory, pending, control, inHand, history
  <1>2. run'.seen = run.seen
    BY DEF SessionEnds, Expire, Store, vars, memory, LaneInv, LaneOK, Runs
  <1> QED BY <1>1, <1>2 DEF FileInv, VerdictsOK

\* A step of the lane keeps what its verdicts file.
LEMMA FileNext == ASSUME LaneInv, FileInv, [Next]_vars PROVE FileInv'
  BY FileAsked, FilePasses, FileJudged, FileReads, FileCreates, FileMarks, FileMovesOn, FileLives,
     FileStays DEF Next, Worker

\* What is on GitHub of a verdict is what its drafts say, each once, whatever requests failed
\* and were repeated: no two sub-issues for one draft, and no operator's left unmarked once
\* the labels are swapped.
THEOREM VerdictsFiledAsDrafted == Spec => []FiledAsDrafted
  <1> DEFINE Inv == LaneInv /\ FileInv
  <1>1. Init => Inv
    BY LaneInit, NoVerdictTyped
    DEF Init, FileInv, NumbersOf, OnceOf, VerdictsOK, OwnOf, Agree, Given, DraftsOf, NoRun
  <1>2. Inv /\ [Next]_vars => Inv'
    BY LaneNext, FileNext
  <1>3. Inv => FiledAsDrafted
    <2> SUFFICES ASSUME Inv PROVE FiledAsDrafted
      OBVIOUS
    <2>1. FiledOnce
      BY DEF FileInv, OnceOf, FiledOnce
    <2>2. \A k : k \in Children <=> Child(filing, steps, k)
      BY DEF Children, Child
    <2>3. OperatorMarked
      <3> SUFFICES ASSUME pc = "comment", NEW k \in Children, steps[k].by = filing.batch,
                          steps[k].title \in Operator
                   PROVE  \E l \in Children : steps[l].title = steps[k].title /\ steps[l].operator
        BY DEF OperatorMarked
      <3>1. MarkedOf(filing, steps, steps[k].title)
        BY DEF FileInv, DraftsOf
      <3>2. FiledTitle(filing, steps, steps[k].title)
        BY <2>2 DEF FiledTitle, Child
      <3> QED BY <2>2, <3>1, <3>2 DEF MarkedOf
    <2> QED BY <2>1, <2>3 DEF FiledAsDrafted
  <1> QED BY <1>1, <1>2, <1>3, PTL DEF Spec
-----------------------------------------------------------------------------
(* What is in hand as each request is sent *)

\* A session may be about to start, once its last reads allow it.
Dispatching == pc \in {"approval", "sub_issues"} \/ (pc = "issues" /\ why # "note")

\* A session runs, or may be about to.
Going == run.kind # "none" \/ Dispatching

\* A parent at its gap limit is being handed over in place of the filing.
GapHand == pc = "hand_over" /\ why = "gap_limit"

\* What each request says of the verdict it is sent for, and of the session beside it: a
\* review is filed while none goes on, a hand-over after its last retry finds it kept as it is.
SendInv ==
    /\ phase = "refresh" => pc = "none" /\ run.kind # "none"
    /\ pc \in {"met", "close"} => filing.kind = "met"
    /\ pc = "comment" => filing.swapped
    /\ pc = "steps" => ~filing.swapped
    /\ pc = "hand_read" => filing.kind = "split"
    /\ pc = "hand_back" => ~OfReview(filing)
    /\ (pc = "hand_over" /\ why = "verdict") => verdict.kind # "none"
    /\ (pc \in {"hand_read", "hand_back", "hand_over"} /\ filing.kind \in {"fits", "split"})
           => verdict.kind # "none"
    /\ GapHand => review.kind = "none"
    /\ (pc = "hand_over" /\ OfReview(filing) /\ ~GapHand)
           => /\ review.kind = filing.kind /\ review.counts = filing.counts
              /\ review.swapped = filing.swapped
    /\ pc \in {"approval", "sub_issues", "issues"} => filing.kind = "none" /\ run.kind = "none"
    /\ pc \in {"hand_back", "hand_over"} => run.kind # "triage"
    /\ (review.kind # "none" \/ OfReview(filing)) => ~Going

\* With nothing in hand there is little to say.
LEMMA SendRests ==
    ASSUME pc' = "none", filing'.kind = "none", phase' = "refresh" => run'.kind # "none",
           review'.kind # "none" => run'.kind = "none"
    PROVE  SendInv'
  BY DEF SendInv, GapHand, Going, Dispatching, OfReview

\* A hand-over or a hand-back with no verdict in hand.
LEMMA SendHands ==
    ASSUME pc' \in {"hand_back", "hand_over"}, filing'.kind = "none", run'.kind = "none",
           phase' # "refresh", why' \notin {"verdict", "gap_limit"}
    PROVE  SendInv'
  BY DEF SendInv, GapHand, Going, Dispatching, OfReview

\* While a filing's next request is sent its verdict is the same.
LEMMA SendAsks ==
    ASSUME LaneInv, SendInv, pc \in FilingAt, pc' \in FilingAt, filing'.kind = filing.kind,
           UNCHANGED <<run, pending, phase>>,
           pc' \in {"met", "close"} => filing.kind = "met", pc' = "comment" => filing'.swapped,
           pc' = "steps" => ~filing'.swapped, pc' # "hand_read"
    PROVE  SendInv'
  <1>1. phase' # "refresh" /\ review' = review /\ run' = run
    BY DEF LaneInv, Placed, pending
  <1>2. pc' \notin {"hand_back", "hand_over", "approval", "sub_issues", "issues", "none"}
    BY DEF FilingAt
  <1>3. (review.kind # "none" \/ OfReview(filing)) => run.kind = "none"
    BY DEF SendInv, Going
  <1>4. OfReview(filing') <=> OfReview(filing)
    BY DEF OfReview
  <1> QED BY <1>1, <1>2, <1>3, <1>4 DEF SendInv, GapHand, Going, Dispatching

\* A filing's first request fits what is filed.
LEMMA SendBegins ==
    ASSUME LaneInv, SendInv, pc \in FilingAt, Ask(Begin), UNCHANGED <<run, pending>>
    PROVE  SendInv'
  <1>1. filing.kind \in {"fits", "split", "met", "next", "gap"}
    BY DEF LaneInv, Placed, HandsOK, Filed
  <1>2. /\ pc' \in {"list", "swap", "comment", "met"} /\ UNCHANGED <<filing, phase>>
        /\ pc' = "met" => filing.kind = "met"
        /\ pc' = "comment" => filing.swapped
    BY <1>1 DEF Ask, Begin, Filings
  <1>3. pc' \in FilingAt
    BY <1>2 DEF FilingAt
  <1> QED BY <1>2, <1>3, SendAsks

\* A try that failed keeps its verdict, as a hand-over after the last retry finds it.
LEMMA SendFails ==
    ASSUME LaneInv, SendInv, HoldInv, pc \in FilingAt, TryFails
    PROVE  /\ SendInv' /\ (pc' = "hand_over" => why' \in {"review", "verdict"})
           /\ (OfReview(review') /\ review'.swapped)
                 => (OfReview(review) /\ review.swapped) \/ (OfReview(filing) /\ filing.swapped)
           /\ pc' \in {"hand_over", "hand_back", "hand_read"} => UNCHANGED filing
  <1>1. /\ phase \in {"exit", "triage", "review"} /\ filing.kind # "none" /\ filing \in Filed
        /\ UNCHANGED run /\ Keep(Tried)
    BY TryFailsOK DEF LaneInv, Placed, HandsOK, TryFails
  <1>2. /\ Tried.kind = filing.kind /\ Tried.counts = filing.counts /\ Tried.swapped = filing.swapped
    BY <1>1 DEF Tried, Filed
  <1>3. run.kind # "triage" /\ (review.kind # "none" \/ OfReview(filing) => run.kind = "none")
    BY <1>1 DEF HoldInv, Clear, SendInv, Going
  <1>4. OfReview(Tried) <=> OfReview(filing)
    BY <1>2 DEF OfReview
  <1>5. /\ OfReview(filing) => review' = Tried
        /\ ~OfReview(filing) => verdict' = Tried /\ review' = review
    BY <1>1, <1>4 DEF Keep
  <1>6. review'.kind # "none" => run'.kind = "none"
    BY <1>1, <1>2, <1>3, <1>5 DEF OfReview
  <1>7. (OfReview(review') /\ review'.swapped)
           => (OfReview(review) /\ review.swapped) \/ (OfReview(filing) /\ filing.swapped)
    BY <1>2, <1>5
  <1>8. CASE Done
    <2>1. pc' = "none" /\ filing' = NoVerdict /\ phase' # "refresh"
      BY <1>1, <1>8 DEF Done, Enter, After
    <2> QED BY <1>6, <1>7, <2>1, NoVerdictTyped, SendRests
  <1>9. CASE OfReview(Tried) /\ HandBackFor("review", TRUE)
    <2>1. pc' = "hand_over" /\ why' = "review" /\ UNCHANGED <<phase, filing>>
      BY <1>9 DEF HandBackFor
    <2>2. review'.kind = filing.kind /\ review'.counts = filing.counts /\ review'.swapped = filing.swapped
      BY <1>2, <1>4, <1>5, <1>9
    <2>3. run'.kind = "none" /\ phase' # "refresh"
      BY <1>1, <1>3, <1>4, <1>9, <2>1
    <2>4. filing'.kind \notin {"fits", "split"}
      BY <1>4, <1>9, <2>1 DEF OfReview
    <2> QED BY <1>7, <2>1, <2>2, <2>3, <2>4 DEF SendInv, GapHand, Going, Dispatching
  <1>10. CASE ~OfReview(Tried) /\ HandBackVerdict
    <2>1. ~OfReview(filing) /\ filing.kind \in {"fits", "split"} /\ verdict'.kind = filing.kind
      BY <1>1, <1>2, <1>4, <1>5, <1>10 DEF OfReview, Filed
    <2>2. /\ UNCHANGED <<phase, filing>>
          /\ \/ pc' = "hand_read" /\ filing.kind = "split"
             \/ pc' \in {"hand_over", "hand_back"} /\ why' = "verdict"
      BY <1>10 DEF HandBackVerdict, Ask, HandBackFor
    <2>3. phase' # "refresh" /\ run'.kind # "triage" /\ verdict'.kind # "none" /\ ~OfReview(filing')
      BY <1>1, <1>3, <2>1, <2>2
    <2> QED BY <1>6, <1>7, <2>1, <2>2, <2>3 DEF SendInv, GapHand, Going, Dispatching
  <1> QED BY <1>8, <1>9, <1>10 DEF TryFails

\* A filing's requests.
LEMMA SendFiles ==
    ASSUME LaneInv, SendInv, HoldInv, GapInv, \/ OwedRead \/ StepsRead \/ List \/ Create \/ Mark \/ Swap
                                              \/ Met \/ Close \/ Comment
    PROVE  SendInv'
  <1>1. pc \in FilingAt /\ phase \in {"exit", "triage", "review"} /\ filing.kind # "none"
        /\ filing \in Filed /\ pc \notin {"hand_read", "none", "hand_over", "hand_back"}
    BY DEF OwedRead, StepsRead, List, Create, Mark, Swap, Met, Close, Comment, FilingAt,
           LaneInv, Placed, HandsOK
  <1>2. CASE TryFails
    BY <1>1, <1>2, SendFails
  <1>3. CASE Drop(filing) /\ Done /\ UNCHANGED run
    <2>1. pc' = "none" /\ filing' = NoVerdict /\ phase' # "refresh"
      BY <1>1, <1>3 DEF Done, Enter, After
    <2>2. review'.kind # "none" => run'.kind = "none"
      BY <1>3, DropClears DEF SendInv, Going
    <2> QED BY <2>1, <2>2, NoVerdictTyped, SendRests
  <1>4. CASE OwedRead
    <2>1. CASE Ask(Begin) /\ UNCHANGED memory
      BY <1>1, <2>1, SendBegins DEF memory
    <2>2. CASE Ask("steps") /\ UNCHANGED memory /\ ~filing.swapped
      <3>1. pc' = "steps" /\ pc' \in FilingAt /\ UNCHANGED <<filing, phase, run, pending>>
        BY <2>2 DEF Ask, FilingAt, memory
      <3> QED BY <1>1, <2>2, <3>1, SendAsks
    <2>3. CASE Discard /\ UNCHANGED <<run, record>>
      BY <1>3, <2>3 DEF Discard
    <2> QED BY <1>2, <1>4, <2>1, <2>2, <2>3 DEF OwedRead
  <1>5. CASE StepsRead
    <2>1. CASE Ask(Begin) /\ UNCHANGED <<pending, run>>
      BY <1>1, <2>1, SendBegins
    <2>2. CASE Drop(filing) /\ Done /\ UNCHANGED run
      BY <1>3, <2>2
    <2>3. CASE Drop(filing) /\ HandBackFor("gap_limit", TRUE) /\ UNCHANGED run
      <3>1. OfReview(filing)
        BY <1>5 DEF StepsRead, GapInv
      <3>2. review'.kind = "none" /\ run'.kind = "none"
        BY <2>3, <3>1, NoVerdictTyped DEF Drop, SendInv, Going
      <3>3. pc' = "hand_over" /\ why' = "gap_limit" /\ UNCHANGED <<filing, phase>>
        BY <2>3 DEF HandBackFor
      <3>4. filing'.kind \notin {"fits", "split"}
        BY <3>1, <3>3 DEF OfReview
      <3> QED BY <1>1, <3>1, <3>2, <3>3, <3>4 DEF SendInv, GapHand, Going, Dispatching
    <2> QED BY <1>2, <1>5, <2>1, <2>2, <2>3 DEF StepsRead
  <1>6. CASE List \/ Create \/ Mark
    <2>1. \/ TryFails
          \/ \E k, have : OnToDraft(k, have) /\ UNCHANGED memory
          \/ pc' = "mark" /\ UNCHANGED <<phase, filing>> /\ UNCHANGED memory
      BY <1>6 DEF List, Create, Mark, MarkNext
    <2>2. TryFails \/ (pc' \in {"swap", "mark", "create"} /\ UNCHANGED <<phase, filing, memory>>)
      BY <2>1 DEF OnToDraft
    <2>3. CASE pc' \in {"swap", "mark", "create"} /\ UNCHANGED <<phase, filing, memory>>
      <3>1. pc' \in FilingAt
        BY <2>3 DEF FilingAt
      <3> QED BY <1>1, <2>3, <3>1, SendAsks DEF memory
    <2> QED BY <1>2, <2>2, <2>3
  <1>7. CASE Swap \/ Met \/ Close
    <2>1. \/ TryFails
          \/ Moved /\ UNCHANGED memory
          \/ Ask("close") /\ pc = "met" /\ UNCHANGED memory
      BY <1>7 DEF Swap, Met, Close
    <2>2. CASE Moved /\ UNCHANGED memory
      <3>1. /\ pc' = "comment" /\ pc' \in FilingAt /\ UNCHANGED <<phase, run, pending>>
            /\ filing'.kind = filing.kind /\ filing'.swapped
        BY <1>1, <2>2 DEF Moved, FilingAt, memory, Filed
      <3> QED BY <1>1, <3>1, SendAsks
    <2>3. CASE Ask("close") /\ pc = "met" /\ UNCHANGED memory
      <3>1. pc' = "close" /\ pc' \in FilingAt /\ UNCHANGED <<filing, phase, run, pending>>
        BY <2>3 DEF Ask, FilingAt, memory
      <3>2. filing.kind = "met"
        BY <2>3 DEF SendInv
      <3> QED BY <1>1, <3>1, <3>2, SendAsks
    <2> QED BY <1>2, <2>1, <2>2, <2>3
  <1>8. CASE Comment
    BY <1>2, <1>3, <1>8 DEF Comment
  <1> QED BY <1>4, <1>5, <1>6, <1>7, <1>8

\* The read before a split is handed back, and what hands the issue to a human.
LEMMA SendsOver ==
    ASSUME LaneInv, SendInv, HoldInv, HandRead \/ HandBack \/ HandOver PROVE SendInv'
  <1>1. phase # "idle" /\ UNCHANGED run /\ filing \in Filed
    BY LaneHandRead, LaneHandBack, LaneHandOver
    DEF LaneInv, HandsOK, Placed, HandRead, HandBack, HandOver, FilingAt, memory
  <1>2. CASE Done /\ (Drop(filing) \/ UNCHANGED pending) /\ phase # "refresh"
    <2>1. pc' = "none" /\ filing' = NoVerdict /\ (phase' = "refresh" => FALSE)
      BY <1>1, <1>2 DEF Done, Enter, After, LaneInv, HandsOK
    <2>2. review'.kind # "none" => run'.kind = "none"
      BY <1>1, <1>2, DropClears DEF SendInv, Going
    <2> QED BY <2>1, <2>2, NoVerdictTyped, SendRests
  <1>3. CASE HandRead
    <2>1. /\ pc = "hand_read" /\ filing.kind = "split" /\ verdict.kind # "none" /\ UNCHANGED memory
          /\ phase \in {"exit", "triage", "review"} /\ run.kind # "triage"
      BY <1>3 DEF HandRead, SendInv, LaneInv, Placed, FilingAt, HoldInv, Clear
    <2>2. CASE Done
      BY <1>2, <2>1, <2>2 DEF memory
    <2>3. CASE HandBackFor("verdict", steps # <<>>)
      <3>1. /\ pc' \in {"hand_back", "hand_over"} /\ why' = "verdict" /\ UNCHANGED <<phase, filing>>
        BY <2>3 DEF HandBackFor
      <3>2. UNCHANGED <<verdict, review, run>> /\ ~OfReview(filing)
        BY <2>1 DEF memory, pending, OfReview
      <3>3. review'.kind # "none" => run'.kind = "none"
        BY <3>2 DEF SendInv, Going
      <3> QED BY <2>1, <3>1, <3>2, <3>3 DEF SendInv, GapHand, Going, Dispatching
    <2> QED BY <1>3, <2>2, <2>3 DEF HandRead
  <1>4. CASE HandBack \/ HandOver
    <2>1. Done /\ (Drop(filing) \/ UNCHANGED pending)
      BY <1>4, LaneHandBack, LaneHandOver
    <2>2. phase # "refresh"
      BY <1>4 DEF HandBack, HandOver, SendInv
    <2> QED BY <1>2, <2>1, <2>2
  <1> QED BY <1>3, <1>4

\* What the candidates and the watch read.
LEMMA SendDispatches ==
    ASSUME LaneInv, SendInv, \/ CandidatesRead \/ Approval \/ RequestedReview
                             \/ WatchRead \/ WatchIssues \/ WatchApproval
    PROVE  SendInv'
  <1>1. /\ phase \in {"candidates", "watch"} /\ filing.kind = "none" /\ UNCHANGED pending
        /\ pc \in {"none", "approval", "sub_issues", "issues"}
        /\ pc # "none" => run.kind = "none"
    <2>1. UNCHANGED pending
      BY LaneCandidates, LaneApproval, LaneRequested, LaneWatchRead, LaneWatchIssues, LaneWatchApproval
      DEF memory
    <2>2. /\ phase \in {"candidates", "watch"} /\ pc \in {"none", "approval", "sub_issues", "issues"}
      BY DEF CandidatesRead, Approval, RequestedReview, WatchRead, WatchIssues, WatchApproval,
             LaneInv, Placed
    <2> QED BY <2>1, <2>2 DEF LaneInv, Placed, SendInv
  <1>2. review.kind # "none" => run.kind = "none" /\ ~Dispatching
    BY DEF SendInv, Going
  <1>3. CASE Done /\ (UNCHANGED run \/ Dispatching)
    <2>1. pc' = "none" /\ filing' = NoVerdict /\ phase' # "refresh"
      BY <1>1, <1>3 DEF Done, Enter, After
    <2>2. review'.kind # "none" => run'.kind = "none"
      BY <1>1, <1>2, <1>3 DEF pending
    <2> QED BY <2>1, <2>2, NoVerdictTyped, SendRests
  <1>4. ASSUME NEW reason \in {"refused", "limit", "waiting"}, NEW parent, HandBackFor(reason, parent),
               UNCHANGED run, run.kind = "none"
        PROVE  SendInv'
    <2>1. pc' \in {"hand_back", "hand_over"} /\ why' = reason /\ UNCHANGED <<phase, filing>>
      BY <1>4 DEF HandBackFor
    <2>2. reason \notin {"verdict", "gap_limit"}
      BY <1>4
    <2> QED BY <1>1, <1>4, <2>1, <2>2, SendHands
  <1>5. CASE Passed
    BY <1>3, <1>5 DEF Passed, memory
  <1>6. ASSUME NEW kind, NEW known, Start(kind, known), Dispatching PROVE SendInv'
    BY <1>3, <1>6 DEF Start
  <1>7. CASE CandidatesRead
    <2>1. CASE Done /\ UNCHANGED run
      BY <1>3, <2>1
    <2>2. CASE /\ ~Busy /\ UNCHANGED <<phase, filing, run>>
               /\ pc' = (CASE note -> "hand_over"
                         [] ~note /\ ~escape -> "approval"
                         [] OTHER -> IF steps = <<>> THEN "hand_back" ELSE "hand_over")
               /\ why' = (CASE note -> "note" [] ~note /\ escape -> "failed" [] OTHER -> "none")
      <3>1. pc' \in {"hand_over", "hand_back", "approval"} /\ why' \in {"note", "failed", "none"}
        BY <2>2
      <3>2. run'.kind = "none" /\ review'.kind = "none" /\ filing'.kind = "none" /\ phase' # "refresh"
        BY <1>1, <2>2 DEF Busy, pending
      <3>3. CASE pc' = "approval"
        BY <3>2, <3>3 DEF SendInv, GapHand, OfReview
      <3>4. CASE pc' # "approval"
        BY <3>1, <3>2, <3>4, SendHands
      <3> QED BY <3>3, <3>4
    <2> QED BY <1>5, <1>7, <2>1, <2>2 DEF CandidatesRead
  <1>8. CASE Approval
    <2>1. pc = "approval" /\ run.kind = "none" /\ Dispatching
      BY <1>8 DEF Approval, SendInv, Dispatching
    <2>2. CASE HandBackFor("refused", subs) /\ UNCHANGED memory
      BY <1>4, <2>1, <2>2 DEF memory
    <2>3. CASE Ask("sub_issues") /\ UNCHANGED memory
      <3>1. pc' = "sub_issues" /\ UNCHANGED <<phase, filing, run, review>>
        BY <2>3 DEF Ask, memory, pending
      <3>2. review.kind = "none"
        BY <1>2, <2>1
      <3> QED BY <1>1, <2>1, <3>1, <3>2 DEF SendInv, GapHand, OfReview
    <2> QED BY <1>5, <1>6, <1>8, <2>1, <2>2, <2>3 DEF Approval
  <1>9. CASE RequestedReview
    <2>1. pc = "sub_issues" /\ run.kind = "none" /\ Dispatching
      BY <1>9 DEF RequestedReview, SendInv, Dispatching
    <2>2. CASE AskToWait /\ UNCHANGED run
      BY <1>4, <2>1, <2>2 DEF AskToWait
    <2> QED BY <1>5, <1>6, <1>9, <2>1, <2>2 DEF RequestedReview
  <1>10. CASE WatchRead
    <2>1. CASE Done /\ UNCHANGED run
      BY <1>3, <2>1
    <2>2. CASE run.kind = "none" /\ review.kind = "none" /\ pc' = "issues" /\ UNCHANGED <<phase, filing, run>>
      <3>1. review'.kind = "none"
        BY <1>1, <2>2 DEF pending
      <3> QED BY <1>1, <2>2, <3>1 DEF SendInv, GapHand, OfReview
    <2> QED BY <1>5, <1>10, <2>1, <2>2 DEF WatchRead
  <1>11. CASE WatchIssues
    <2>1. pc = "issues" /\ run.kind = "none"
      BY <1>11 DEF WatchIssues, SendInv
    <2>2. CASE why = "note" /\ Ask("hand_over") /\ UNCHANGED memory
      <3>1. pc' = "hand_over" /\ why' = "note" /\ UNCHANGED <<phase, filing, run>>
        BY <2>2 DEF Ask, memory
      <3> QED BY <1>1, <2>1, <3>1, SendHands
    <2>3. CASE OverCap /\ UNCHANGED memory
      BY <1>4, <2>1, <2>3 DEF OverCap, memory
    <2>4. CASE why # "note" /\ pc' = "approval" /\ UNCHANGED <<phase, filing>> /\ UNCHANGED memory
      <3>1. review'.kind = "none" /\ run'.kind = "none"
        BY <1>1, <1>2, <2>1, <2>4 DEF Dispatching, memory, pending
      <3> QED BY <1>1, <2>4, <3>1 DEF SendInv, GapHand, OfReview
    <2> QED BY <1>5, <1>11, <2>1, <2>2, <2>3, <2>4 DEF WatchIssues
  <1>12. CASE WatchApproval
    <2>1. pc = "approval" /\ run.kind = "none" /\ Dispatching
      BY <1>12 DEF WatchApproval, SendInv, Dispatching
    <2>2. CASE HandBackFor("refused", TRUE) /\ UNCHANGED memory
      BY <1>4, <2>1, <2>2 DEF memory
    <2> QED BY <1>5, <1>6, <1>12, <2>1, <2>2 DEF WatchApproval
  <1> QED BY <1>7, <1>8, <1>9, <1>10, <1>11, <1>12

\* A step in which the worker does nothing leaves what is in hand.
LEMMA SendStays ==
    ASSUME SendInv, UNCHANGED <<pending, control>>, run'.kind = run.kind
    PROVE  SendInv'
  BY DEF SendInv, GapHand, Going, Dispatching, OfReview, pending, control, inHand

\* A step of the lane leaves what each request says of what is in hand.
LEMMA SendNext == ASSUME LaneInv, SendInv, HoldInv, GapInv, [Next]_vars PROVE SendInv'
  <1>1. CASE Tick
    <2>1. /\ pc' = "none" /\ filing'.kind = "none" /\ UNCHANGED <<run, review>>
          /\ phase' = "refresh" => run.kind # "none"
      BY <1>1, NoVerdictTyped DEF Tick, Enter, memory, pending
    <2>2. review'.kind # "none" => run'.kind = "none"
      BY <2>1 DEF SendInv, Going
    <2> QED BY <2>1, <2>2, SendRests
  <1>2. CASE Refresh
    <2>1. /\ pc' = "none" /\ filing'.kind = "none" /\ UNCHANGED review /\ run'.kind = run.kind
          /\ phase' # "refresh"
      BY <1>2, LaneRefresh, NoVerdictTyped DEF Refresh, Passed, Done, Enter, After, pending
    <2>2. review'.kind # "none" => run'.kind = "none"
      BY <2>1 DEF SendInv, Going
    <2> QED BY <2>1, <2>2, SendRests
  <1>3. CASE Retry
    <2>1. /\ phase \in {"triage", "review"} /\ pc = "none" /\ UNCHANGED <<run, verdict, review>>
      BY <1>3 DEF Retry, memory, pending
    <2>2. review.kind # "none" => run.kind = "none"
      BY DEF SendInv, Going
    <2>3. CASE Done
      <3>1. pc' = "none" /\ filing'.kind = "none" /\ phase' # "refresh"
        BY <2>1, <2>3, NoVerdictTyped DEF Done, Enter, After
      <3> QED BY <2>1, <2>2, <3>1, SendRests
    <2>4. CASE pc' = "owed" /\ UNCHANGED phase /\ filing' \in {verdict, review}
      <3>1. OfReview(filing') => review.kind # "none"
        BY <2>4 DEF LaneInv, PendOK, OfReview
      <3> QED BY <2>1, <2>2, <2>4, <3>1 DEF SendInv, GapHand, Going, Dispatching
    <2> QED BY <1>3, <2>3, <2>4 DEF Retry
  <1>4. CASE Exit
    <2>1. /\ UNCHANGED <<verdict, review>> /\ run'.kind = "none" /\ phase = "idle" /\ pc = "none"
          /\ filing.kind = "none"
      BY <1>4, LaneExit DEF Exit, NoRun, pending, LaneInv, Placed
    <2>2. CASE UNCHANGED control
      <3>1. UNCHANGED <<pc, phase, filing>>
        BY <2>2 DEF control, inHand
      <3> QED BY <2>1, <3>1, SendRests
    <2>3. CASE ExitWithVerdict
      BY <2>1, <2>3 DEF ExitWithVerdict, SendInv, GapHand, Going, Dispatching
    <2>4. CASE /\ phase' = "exit" /\ why' = "failed" /\ UNCHANGED filing
               /\ pc' \in {"hand_over", "hand_back"}
      BY <2>1, <2>4, SendHands
    <2>5. \/ UNCHANGED control
          \/ ExitWithVerdict
          \/ /\ phase' = "exit" /\ why' = "failed" /\ UNCHANGED filing
             /\ pc' \in {"hand_over", "hand_back"}
      BY <1>4 DEF Exit, ExitFailed
    <2> QED BY <2>2, <2>3, <2>4, <2>5
  <1>5. CASE SessionEnds
    BY <1>5, LaneSessionEnds, SendStays
  <1>6. CASE Expire
    BY <1>6, LaneExpire, SendStays
  <1>7. CASE Store
    BY <1>7, LaneStore, SendStays DEF memory
  <1>8. CASE Restart
    BY <1>8, NoVerdictTyped, SendRests DEF Restart, Enter, NoRun
  <1>9. CASE Human \/ StepCloses
    BY <1>9, LaneHumans, SendStays DEF memory
  <1>10. CASE UNCHANGED vars
    BY <1>10, SendStays DEF vars, memory
  <1> QED
    BY <1>1, <1>2, <1>3, <1>4, <1>5, <1>6, <1>7, <1>8, <1>9, <1>10, SendFiles, SendsOver, SendDispatches
    DEF Next, Worker
-----------------------------------------------------------------------------
(* How many sessions fail before a human hears of it *)

\* The failures counted are those that a human has not heard of, but for one.
InTime == vain <= failures + 1

\* A hand-back of a triage session's issue is owed, or a hand-over or a hand-back for failed
\* sessions is on its way.
Owing   == escape /\ "triage_todo" \in labels /\ Clear
Failing == /\ why = "failed"
           /\ pc = "hand_over" \/ (pc = "hand_back" /\ "triage_todo" \in labels /\ Clear)

\* Nothing in the lane would start a session on the issue.
Out == ~Candidate /\ ~Watched(record) /\ Clear

\* Why more may have failed than are counted: a human is about to be told, or no session starts.
Excused == note \/ Owing \/ Failing \/ state = "closed" \/ Out

\* A triage session runs, or is about to start if the last reads allow it.
Triaging == run.kind = "triage" \/ (phase = "candidates" /\ pc \in {"approval", "sub_issues"})

\* A review's move landed, its comment still to come.
MoveLanded == \/ OfReview(review) /\ review.swapped
              \/ OfReview(filing) /\ filing.swapped

\* A note to wait is about to be written.
ToWait == pc = "hand_over" /\ why = "waiting"

FailInv ==
    /\ failures < MaxAttempts /\ vain <= MaxAttempts + 1
    /\ InTime \/ Excused
    /\ (Going \/ ToWait) => InTime
    /\ ((state = "closed" /\ Going) \/ run.stop = "gone" \/ MoveLanded) => vain = 0
    /\ Triaging => "triage_todo" \in labels \/ vain = 0

\* A human has heard of every failure, or it counts no longer.
LEMMA FailsTold ==
    ASSUME vain' = 0, failures' \in Nat, failures' < MaxAttempts PROVE FailInv'
  <1>1. MaxAttempts \in Nat /\ vain' <= MaxAttempts + 1
    BY TriageAssumption
  <1>2. \A f \in Nat : 0 <= f + 1
    OBVIOUS
  <1>3. InTime'
    BY <1>2 DEF InTime
  <1> QED BY <1>1, <1>3 DEF FailInv

\* So it is when the chain is forgotten with that.
LEMMA FailsForgotten == ASSUME vain' = 0, ForgetChain PROVE FailInv'
  <1>1. MaxAttempts \in Nat \ {0}
    BY TriageAssumption
  <1> QED BY <1>1, FailsTold DEF ForgetChain

\* A step that counts nothing: what it may not do.
LEMMA FailsKept ==
    ASSUME FailInv, UNCHANGED <<failures, vain>>, InTime \/ (Excused => Excused'),
           (Going' \/ ToWait') => Going \/ ToWait \/ InTime,
           (state' = "closed" /\ Going') => (state = "closed" /\ Going) \/ vain = 0,
           run'.stop = "gone" => run.stop = "gone" \/ vain = 0,
           MoveLanded' => MoveLanded \/ vain = 0,
           Triaging' => vain = 0 \/ "triage_todo" \in labels'
                                 \/ (Triaging /\ "triage_todo" \notin labels)
    PROVE  FailInv'
  <1>1. InTime' <=> InTime
    BY DEF InTime
  <1>2. InTime' \/ Excused'
    BY <1>1 DEF FailInv
  <1>3. (Going' \/ ToWait') => InTime'
    BY <1>1 DEF FailInv
  <1> QED BY <1>1, <1>2, <1>3 DEF FailInv

\* What leaves Excused be: the worker only asks on, with no verdict dropped.
LEMMA ExcusedStays ==
    ASSUME Excused, UNCHANGED <<state, labels, escape, note>>, Watched(record') => Watched(record),
           Clear => Clear', Failing => Failing'
    PROVE  Excused'
  <1>1. Candidate' <=> Candidate
    BY DEF Candidate
  <1>2. Owing => Owing'
    BY DEF Owing
  <1>3. Out => Out'
    BY <1>1 DEF Out
  <1> QED BY <1>2, <1>3 DEF Excused

\* A closed issue's chain may be forgotten, with sessions that failed untold.
LEMMA FailsClosed ==
    ASSUME LaneInv, FailInv, state = "closed", UNCHANGED <<state, vain, run, labels>>, ForgetChain,
           pc' = "none", MoveLanded' => MoveLanded, phase' = phase \/ pc' = "none"
    PROVE  FailInv'
  <1>1. failures' = 0 /\ MaxAttempts \in Nat \ {0} /\ vain \in Nat
    BY TriageAssumption DEF ForgetChain, LaneInv, PastOK
  <1>2. Going' => Going /\ vain = 0
    BY DEF Going, Dispatching, FailInv
  <1>3. ~ToWait' /\ (Triaging' => Triaging) /\ Excused'
    BY DEF ToWait, Triaging, Excused
  <1> QED BY <1>1, <1>2, <1>3 DEF FailInv, InTime

\* While a filing's requests are sent, with a verdict in hand, the chain is not looked at.
LEMMA FailsFiling ==
    ASSUME LaneInv, FailInv, SendInv, HoldInv, pc \in FilingAt,
           UNCHANGED <<failures, vain, escape, note, run>>,
           state' = "closed" => state = "closed" \/ OfReview(filing), state = "closed" => state' = "closed",
           pc' \in FilingAt \cup {"none", "hand_back", "hand_over"},
           pc' = "hand_over" => why' # "waiting", MoveLanded' => MoveLanded
    PROVE  FailInv'
  <1>1. filing.kind # "none" /\ ~Clear /\ run.kind # "triage"
    BY DEF LaneInv, Placed, HoldInv, Clear
  <1>2. pc \notin {"hand_over", "hand_back"} /\ pc' \notin {"approval", "sub_issues", "issues"}
    BY DEF FilingAt
  <1>3. Excused => Excused'
    BY <1>1, <1>2 DEF Excused, Owing, Failing, Out
  <1>4. Going' => Going
    BY <1>2 DEF Going, Dispatching
  <1>5. (state' = "closed" /\ Going') => (state = "closed" /\ Going)
    BY <1>4 DEF SendInv
  <1>6. ~ToWait' /\ ~Triaging'
    BY <1>1, <1>2 DEF ToWait, Triaging
  <1> QED BY <1>3, <1>4, <1>5, <1>6, FailsKept

\* A verdict dropped moved no other.
LEMMA DropMoves ==
    ASSUME Drop(filing) \/ UNCHANGED pending, filing' = NoVerdict \/ UNCHANGED filing
    PROVE  MoveLanded' => MoveLanded
  <1>1. ~OfReview(NoVerdict)
    BY NoVerdictTyped DEF OfReview
  <1>2. OfReview(review') /\ review'.swapped => OfReview(review) /\ review.swapped
    BY <1>1 DEF Drop, pending
  <1> QED BY <1>1, <1>2 DEF MoveLanded

\* A filing's try that failed.
LEMMA FailsRetried ==
    ASSUME LaneInv, FailInv, SendInv, HoldInv, pc \in FilingAt, TryFails,
           state' = "closed" => state = "closed" \/ OfReview(filing), state = "closed" => state' = "closed"
    PROVE  FailInv'
  <1>1. /\ UNCHANGED <<run, chain, history>>
        /\ \/ pc' = "none" /\ filing' = NoVerdict
           \/ filing' = filing /\ pc' \in {"hand_over", "hand_read", "hand_back"}
    BY TryFailsOK
  <1>2. /\ (pc' = "hand_over" => why' \in {"review", "verdict"})
        /\ OfReview(review') /\ review'.swapped => MoveLanded
    BY SendFails DEF MoveLanded
  <1>3. MoveLanded' => MoveLanded
    BY <1>1, <1>2, NoVerdictTyped DEF MoveLanded, OfReview
  <1>4. pc' \in FilingAt \cup {"none", "hand_back", "hand_over"}
    BY <1>1 DEF FilingAt
  <1> QED BY <1>1, <1>2, <1>3, <1>4, FailsFiling DEF chain, history

\* The filing's next request.
LEMMA FailsAsks ==
    ASSUME LaneInv, FailInv, SendInv, HoldInv, pc \in FilingAt, pc' \in FilingAt,
           UNCHANGED <<filing, run, pending, chain, vain, state>>
    PROVE  FailInv'
  <1>1. MoveLanded' => MoveLanded
    BY DEF MoveLanded, pending
  <1>2. pc' # "hand_over"
    BY DEF FilingAt
  <1> QED BY <1>1, <1>2, FailsFiling DEF chain

\* The filing given up while the issue is open.
LEMMA FailsDropped ==
    ASSUME LaneInv, FailInv, SendInv, HoldInv, pc \in FilingAt, Done,
           Drop(filing) \/ UNCHANGED pending, UNCHANGED <<run, chain, vain, state>>
    PROVE  FailInv'
  <1>1. pc' = "none" /\ filing' = NoVerdict
    BY DEF Done, Enter
  <1>2. MoveLanded' => MoveLanded
    BY <1>1, DropMoves
  <1> QED BY <1>1, <1>2, FailsFiling DEF chain

\* The chain stands within the attempts, whatever is counted.
LEMMA FailsBelow ==
    ASSUME LaneInv, FailInv, UNCHANGED failures, vain' = 0 PROVE FailInv'
  BY FailsTold DEF FailInv, LaneInv, ChainOK

\* The requests of a filing.
LEMMA FailsFiles ==
    ASSUME LaneInv, FailInv, SendInv, HoldInv, \/ OwedRead \/ StepsRead \/ List \/ Create \/ Mark \/ Swap
                                               \/ Met \/ Close \/ Comment
    PROVE  FailInv'
  <1>1. pc \in FilingAt /\ filing \in Filed
    BY DEF OwedRead, StepsRead, List, Create, Mark, Swap, Met, Close, Comment, FilingAt, LaneInv, HandsOK
  <1>2. CASE TryFails /\ UNCHANGED state
    BY <1>1, <1>2, FailsRetried
  <1>3. CASE OwedRead
    <2>1. ASSUME NEW r \in FilingAt, Ask(r), UNCHANGED <<memory, history, github>>
          PROVE  FailInv'
      <3>1. pc' \in FilingAt /\ UNCHANGED <<filing, run, pending, chain, vain, state>>
        BY <2>1 DEF Ask, memory, github, history
      <3> QED BY <1>1, <3>1, FailsAsks
    <2>2. Begin \in FilingAt /\ "steps" \in FilingAt
      BY <1>1, <1>3 DEF Begin, Filings, FilingAt, LaneInv, Placed, Filed
    <2>3. CASE Discard /\ UNCHANGED <<run, record, history, github>>
      <3>1. /\ Drop(filing) /\ Done /\ pc' = "none" /\ filing' = NoVerdict
            /\ UNCHANGED <<run, vain, state, labels>>
        BY <2>3 DEF Discard, Done, Enter, history, github
      <3>2. CASE UNCHANGED chain
        BY <1>1, <3>1, <3>2, FailsDropped
      <3>3. CASE state # "open" /\ ForgetChain
        <4>1. state = "closed"
          BY <3>3 DEF LaneInv, GitHubOK
        <4> QED BY <3>1, <3>3, <4>1, DropMoves, FailsClosed
      <3> QED BY <2>3, <3>2, <3>3 DEF Discard
    <2> QED BY <1>2, <1>3, <2>1, <2>2, <2>3 DEF OwedRead, github
  <1>4. CASE StepsRead
    <2>1. CASE Drop(filing) /\ Done /\ UNCHANGED <<run, chain, vain, state>>
      BY <1>1, <2>1, FailsDropped
    <2>2. CASE vain' = 0 /\ UNCHANGED chain
      BY <2>2, FailsBelow DEF chain
    <2>3. CASE Ask(Begin) /\ UNCHANGED <<run, pending, chain, vain, state>>
      <3>1. Begin \in FilingAt
        BY <1>1, <1>4 DEF Begin, Filings, FilingAt, LaneInv, Placed, StepsRead, Filed
      <3> QED BY <1>1, <2>3, <3>1, FailsAsks DEF Ask
    <2> QED BY <1>2, <1>4, <2>1, <2>2, <2>3 DEF StepsRead, github
  <1>5. CASE List \/ Create \/ Mark
    <2>1. UNCHANGED state
      BY <1>5 DEF List, Create, Mark, Created, Marked, github
    <2>2. \/ TryFails
          \/ \E k, have : OnToDraft(k, have) /\ UNCHANGED <<memory, history>>
          \/ pc' = "mark" /\ UNCHANGED filing /\ UNCHANGED <<memory, history>>
      BY <1>5 DEF List, Create, Mark, MarkNext
    <2>3. TryFails \/ (pc' \in {"swap", "mark", "create"} /\ UNCHANGED <<filing, memory, history>>)
      BY <2>2 DEF OnToDraft
    <2>4. CASE pc' \in {"swap", "mark", "create"} /\ UNCHANGED <<filing, memory, history>>
      <3>1. pc' \in FilingAt
        BY <2>4 DEF FilingAt
      <3> QED BY <1>1, <2>1, <2>4, <3>1, FailsAsks DEF memory, history
    <2> QED BY <1>2, <2>1, <2>3, <2>4
  <1>6. CASE Swap \/ Close
    <2>1. CASE Acted /\ UNCHANGED memory
      BY <2>1, FailsBelow DEF Acted, memory, chain
    <2>2. CASE TryFails
      <3>1. state' = "closed" => state = "closed" \/ OfReview(filing)
        BY <1>6 DEF Swap, Close, SendInv, OfReview
      <3>2. state = "closed" => state' = "closed"
        BY <1>6 DEF Swap, Close
      <3> QED BY <1>1, <2>2, <3>1, <3>2, FailsRetried
    <2> QED BY <1>6, <2>1, <2>2 DEF Swap, Close
  <1>7. CASE Met
    <2>1. CASE Ask("close") /\ UNCHANGED <<memory, history, state>>
      <3>1. "close" \in FilingAt
        BY DEF FilingAt
      <3> QED BY <1>1, <2>1, <3>1, FailsAsks DEF Ask, memory, history
    <2> QED BY <1>2, <1>7, <2>1 DEF Met
  <1>8. CASE Comment
    <2>1. CASE ForgetChain /\ (OfReview(filing) => UNCHANGED vain) /\ (~OfReview(filing) => vain' = 0)
      <3>1. filing.swapped
        BY <1>8 DEF Comment, SendInv
      <3>2. vain' = 0
        BY <2>1, <3>1 DEF FailInv, MoveLanded
      <3> QED BY <2>1, <3>2, FailsForgotten
    <2> QED BY <1>2, <1>8, <2>1 DEF Comment, github
  <1> QED BY <1>3, <1>4, <1>5, <1>6, <1>7, <1>8

\* The read before a split is handed back, and what hands the issue to a human.
LEMMA FailsOver ==
    ASSUME LaneInv, FailInv, SendInv, HoldInv, HandRead \/ HandBack \/ HandOver PROVE FailInv'
  <1>1. CASE HandRead
    <2>1. pc \in FilingAt /\ UNCHANGED <<run, pending, chain, vain, state>>
      BY <1>1 DEF HandRead, FilingAt, memory, history, github
    <2>2. CASE Done
      BY <2>1, <2>2, FailsDropped
    <2>3. CASE HandBackFor("verdict", steps # <<>>)
      <3>1. pc' \in {"hand_over", "hand_back"} /\ why' = "verdict" /\ UNCHANGED filing
        BY <2>3 DEF HandBackFor
      <3>2. MoveLanded' => MoveLanded
        BY <2>1, <3>1, DropMoves
      <3> QED BY <2>1, <3>1, <3>2, FailsFiling DEF chain
    <2> QED BY <1>1, <2>2, <2>3 DEF HandRead
  <1>2. CASE HandBack
    <2>1. CASE HandedBack /\ vain' = 0
      BY <2>1, FailsForgotten DEF HandedBack
    <2>2. CASE HandBackRefused /\ labels' # labels /\ vain' = 0
      BY <2>2, FailsBelow DEF HandBackRefused
    <2>3. CASE HandBackRefused /\ labels' = labels /\ vain' = vain
      <3>1. /\ UNCHANGED <<run, pending, failures, note, record, state, vain, labels>>
            /\ escape' = (why = "failed" \/ escape) /\ Done
        BY <1>2, <2>3 DEF HandBackRefused, HandBack
      <3>2. pc' = "none" /\ filing' = NoVerdict /\ pc = "hand_back"
        BY <1>2, <3>1 DEF Done, Enter, HandBack
      <3>3. Clear => Clear'
        BY <3>1, <3>2, NoVerdictTyped DEF Clear, pending
      <3>4. Excused => Excused'
        <4>1. Owing => Owing'
          BY <3>1, <3>3 DEF Owing
        <4>2. Failing => Owing'
          BY <3>1, <3>2, <3>3 DEF Owing, Failing
        <4>3. Out => Out'
          BY <3>1, <3>3 DEF Out, Candidate, Watched
        <4> QED BY <3>1, <4>1, <4>2, <4>3 DEF Excused
      <3>5. MoveLanded' => MoveLanded
        BY <3>1, <3>2, DropMoves
      <3>6. (Going' => Going) /\ ~ToWait' /\ (Triaging' => Triaging)
        BY <3>1, <3>2 DEF Going, Dispatching, ToWait, Triaging
      <3> QED BY <3>1, <3>4, <3>5, <3>6, FailsKept
    <2> QED BY <1>2, <2>1, <2>2, <2>3 DEF HandBack
  <1>3. CASE HandOver
    <2>1. pc = "hand_over" /\ run.kind # "triage" /\ pc' = "none" /\ filing' = NoVerdict
          /\ UNCHANGED <<run, state>>
      BY <1>3, LaneHandOver DEF HandOver, SendInv, Done, Enter
    <2>2. (Going' => Going) /\ ~ToWait' /\ ~Triaging'
      BY <2>1 DEF Going, Dispatching, ToWait, Triaging
    <2>3. ASSUME UNCHANGED <<pending, failures, vain>>, InTime \/ (Excused => Excused') PROVE FailInv'
      <3>1. MoveLanded' => MoveLanded
        BY <2>1, <2>3, DropMoves
      <3> QED BY <2>1, <2>2, <2>3, <3>1, FailsKept
    <2>4. why = "waiting" => InTime
      BY <2>1 DEF FailInv, ToWait
    <2>5. CASE HandedOver /\ why = "waiting"
      BY <2>3, <2>4, <2>5 DEF HandedOver, chain
    <2>6. CASE HandedOver /\ why # "waiting"
      BY <2>6, FailsForgotten DEF HandedOver
    <2>7. CASE HandOverRefused /\ why = "verdict"
      <3>1. /\ UNCHANGED <<pending, failures>> /\ (note => vain' = 0) /\ (~note => vain' = vain)
        BY <2>7 DEF HandOverRefused
      <3>2. CASE note
        BY <3>1, <3>2, FailsBelow
      <3>3. CASE ~note
        <4>1. verdict.kind # "none"
          BY <2>1, <2>7 DEF SendInv
        <4>2. Excused => Excused'
          BY <2>1, <2>7, <3>3, <4>1 DEF Excused, Owing, Failing, Out, Clear
        <4> QED BY <2>3, <3>1, <3>3, <4>2
      <3> QED BY <3>2, <3>3
    <2>8. CASE HandOverRefused /\ why # "verdict"
      <3>1. UNCHANGED <<pending, failures, vain>> /\ (why = "waiting" \/ note')
        BY <2>8 DEF HandOverRefused, Owed
      <3>2. note' => Excused'
        BY DEF Excused
      <3> QED BY <2>3, <2>4, <3>1, <3>2
    <2> QED BY <1>3, <2>5, <2>6, <2>7, <2>8 DEF HandOver
  <1> QED BY <1>1, <1>2, <1>3

\* What the candidates read: a session starts in time, or a human is told.
LEMMA FailsCandidates ==
    ASSUME LaneInv, FailInv, CandidatesRead PROVE FailInv'
  <1>1. /\ UNCHANGED <<run, pending, failures, record, vain, github>> /\ phase = "candidates"
        /\ pc = "none" /\ filing.kind = "none" /\ (filing' = NoVerdict \/ UNCHANGED filing)
    <2>1. UNCHANGED failures
      BY DEF CandidatesRead, Passed, memory, chain
    <2>2. /\ UNCHANGED <<run, pending, record, github>> /\ phase = "candidates" /\ pc = "none"
          /\ (filing' = NoVerdict \/ UNCHANGED filing)
      BY LaneCandidates DEF CandidatesRead
    <2>3. UNCHANGED vain
      BY DEF CandidatesRead, Passed, history
    <2> QED BY <2>1, <2>2, <2>3 DEF LaneInv, Placed
  <1>2. (Candidate' <=> Candidate) /\ (MoveLanded' => MoveLanded) /\ filing'.kind = "none"
    BY <1>1, DropMoves, NoVerdictTyped DEF Candidate, github
  <1>3. ASSUME InTime \/ (Excused => Excused'), pc' \notin {"issues", "sub_issues"},
               pc' = "approval" => InTime /\ Candidate, pc' = "hand_over" => why' # "waiting"
        PROVE  FailInv'
    <2>1. ~ToWait' /\ (Going' => Going \/ InTime)
      BY <1>1, <1>3 DEF ToWait, Going, Dispatching
    <2>2. (state' = "closed" /\ Going') => (state = "closed" /\ Going)
      BY <1>1, <1>3 DEF Going, Dispatching, Candidate, github
    <2>3. Triaging' => "triage_todo" \in labels' \/ (Triaging /\ "triage_todo" \notin labels)
      BY <1>1, <1>3 DEF Triaging, Candidate, github
    <2> QED BY <1>1, <1>2, <1>3, <2>1, <2>2, <2>3, FailsKept
  <1>4. ASSUME UNCHANGED <<escape, note>> PROVE Excused => Excused'
    <2>1. ~Failing /\ (Clear => Clear')
      BY <1>1, <1>2 DEF Failing, Clear, pending
    <2> QED BY <1>1, <1>4, <2>1, ExcusedStays DEF github, Watched
  <1>5. CASE Passed
    <2>1. UNCHANGED <<escape, note>> /\ pc' = "none"
      BY <1>5 DEF Passed, Done, Enter, memory, chain
    <2> QED BY <1>3, <1>4, <2>1
  <1>6. CASE TakenBack
    <2>1. ~Candidate /\ Out'
      BY <1>1, <1>2, <1>6 DEF TakenBack, Out, Clear, pending, Watched
    <2>2. pc' = "none"
      BY <1>5, <2>1 DEF CandidatesRead, Passed, Done, Enter
    <2> QED BY <1>3, <2>1, <2>2 DEF Excused
  <1>7. CASE ~TakenBack /\ ~Passed
    <2>1. escape' = escape /\ note' = note
      BY <1>7 DEF CandidatesRead, LaneInv, ChainOK
    <2>2. CASE Done
      BY <1>3, <1>4, <2>1, <2>2 DEF Done, Enter
    <2>3. CASE /\ Candidate
               /\ pc' = (CASE note -> "hand_over"
                         [] ~note /\ ~escape -> "approval"
                         [] OTHER -> IF steps = <<>> THEN "hand_back" ELSE "hand_over")
               /\ why' = (CASE note -> "note" [] ~note /\ escape -> "failed" [] OTHER -> "none")
      <3>1. pc' \in {"hand_over", "hand_back", "approval"} /\ why' \in {"note", "failed", "none"}
        BY <2>3
      <3>2. pc' = "approval" => ~note /\ ~escape
        BY <2>3
      <3>3. pc' = "approval" => ~Excused
        BY <1>1, <2>3, <3>2 DEF Excused, Owing, Failing, Out, Candidate
      <3>4. pc' = "approval" => InTime /\ Candidate
        BY <2>3, <3>3 DEF FailInv
      <3> QED BY <1>3, <1>4, <2>1, <3>1, <3>4
    <2> QED BY <1>7, <2>2, <2>3 DEF CandidatesRead
  <1> QED BY <1>5, <1>6, <1>7

\* A start, or what is asked on the way to one, comes in time.
LEMMA FailsStarts ==
    ASSUME LaneInv, FailInv, SendInv, UNCHANGED <<failures, vain, pending, state, labels>>,
           Dispatching, filing' = NoVerdict \/ UNCHANGED filing,
           run'.kind = "triage" => Triaging, run'.stop = "gone" => run.stop = "gone",
           (phase' = "candidates" /\ pc' \in {"approval", "sub_issues"}) => Triaging
    PROVE  FailInv'
  <1>1. InTime /\ Going
    BY DEF FailInv, Going
  <1>2. MoveLanded' => MoveLanded
    BY DropMoves
  <1>3. Triaging' => "triage_todo" \in labels' \/ (Triaging /\ "triage_todo" \notin labels)
    BY DEF Triaging
  <1> QED BY <1>1, <1>2, <1>3, FailsKept

\* A step of the dispatch that leaves the chain and asks for nothing.
LEMMA FailsPassed ==
    ASSUME LaneInv, FailInv, UNCHANGED <<github, memory, vain>>, filing.kind = "none",
           pc \notin {"hand_over", "hand_back"}, pc' = "none", filing' = NoVerdict
    PROVE  FailInv'
  <1>1. (MoveLanded' => MoveLanded) /\ UNCHANGED <<state, labels, run, pending, failures, escape, note, record>>
    BY DropMoves DEF memory, chain, github
  <1>2. ~Failing /\ (Clear => Clear')
    BY <1>1, NoVerdictTyped DEF Failing, Clear, pending
  <1>3. Excused => Excused'
    BY <1>1, <1>2, ExcusedStays DEF Watched
  <1>4. (Going' => Going) /\ ~ToWait' /\ (Triaging' => Triaging)
    BY <1>1 DEF Going, Dispatching, ToWait, Triaging
  <1> QED BY <1>1, <1>3, <1>4, FailsKept

\* What a candidate's and a parent's last reads decide.
LEMMA FailsDispatched ==
    ASSUME LaneInv, FailInv, SendInv, Approval \/ RequestedReview \/ WatchIssues \/ WatchApproval
    PROVE  FailInv'
  <1>1. /\ filing.kind = "none" /\ pc \in {"approval", "sub_issues", "issues"} /\ UNCHANGED <<state, labels>>
        /\ phase = "candidates" \/ pc # "sub_issues"
    BY DEF Approval, RequestedReview, WatchIssues, WatchApproval, SendInv, LaneInv, Placed, github
  <1>2. CASE Passed /\ UNCHANGED github
    <2>1. pc' = "none" /\ filing' = NoVerdict /\ UNCHANGED <<memory, vain>>
      BY <1>2 DEF Passed, Done, Enter, history
    <2> QED BY <1>1, <1>2, <2>1, FailsPassed
  <1>3. ASSUME NEW reason, NEW parent, HandBackFor(reason, parent), Dispatching,
               UNCHANGED <<run, pending, chain, vain>>
        PROVE  FailInv'
    <2>1. pc' \in {"hand_over", "hand_back"} /\ UNCHANGED <<phase, filing>>
      BY <1>3 DEF HandBackFor
    <2>2. run'.kind = "triage" => Triaging
      BY <1>3 DEF Triaging
    <2> QED BY <1>1, <1>3, <2>1, <2>2, FailsStarts DEF chain
  <1>4. ASSUME NEW kind \in {"triage", "parent_review"}, NEW known, Start(kind, known), Dispatching,
               kind = "triage" => Triaging
        PROVE  FailInv'
    <2>1. /\ run'.kind = kind /\ run'.stop = "none" /\ pc' = "none" /\ filing' = NoVerdict
          /\ UNCHANGED <<pending, failures, vain>>
      BY <1>4 DEF Start, Done, Enter, chain, history
    <2> QED BY <1>1, <1>4, <2>1, FailsStarts
  <1>5. CASE Approval
    <2>1. Dispatching /\ Triaging /\ UNCHANGED github
      BY <1>5 DEF Approval, Dispatching, Triaging
    <2>2. CASE HandBackFor("refused", subs) /\ UNCHANGED <<memory, history>>
      BY <1>3, <2>1, <2>2 DEF memory, history
    <2>3. CASE Ask("sub_issues") /\ UNCHANGED <<memory, history>>
      <3>1. UNCHANGED <<run, pending, failures, vain, filing>> /\ pc' = "sub_issues"
        BY <2>3 DEF Ask, memory, chain, history
      <3>2. run'.kind = "triage" => Triaging
        BY <2>1
      <3> QED BY <1>1, <2>1, <3>1, <3>2, FailsStarts
    <2> QED BY <1>2, <1>4, <1>5, <2>1, <2>2, <2>3 DEF Approval
  <1>6. CASE RequestedReview
    <2>1. Dispatching /\ Triaging /\ UNCHANGED github
      BY <1>1, <1>6 DEF RequestedReview, Dispatching, Triaging
    <2>2. CASE AskToWait /\ UNCHANGED <<run, pending, chain, history>>
      BY <1>3, <2>1, <2>2 DEF AskToWait, history
    <2> QED BY <1>2, <1>4, <1>6, <2>1, <2>2 DEF RequestedReview
  <1>7. CASE WatchIssues
    <2>1. pc = "issues" /\ phase = "watch" /\ UNCHANGED github
      BY <1>7 DEF WatchIssues, LaneInv, Placed
    <2>2. CASE why = "note" /\ Ask("hand_over") /\ UNCHANGED <<memory, history>>
      <3>1. /\ pc' = "hand_over" /\ why' = "note" /\ UNCHANGED <<phase, filing>>
            /\ UNCHANGED <<run, pending, failures, escape, note, record, vain, state, labels>>
        BY <2>1, <2>2 DEF Ask, memory, chain, history, github
      <3>2. ~Failing /\ (Clear => Clear')
        BY <2>1, <3>1 DEF Failing, Clear, pending
      <3>3. Excused => Excused'
        BY <3>1, <3>2, ExcusedStays DEF Watched
      <3>4. (Going' => Going) /\ ~ToWait' /\ (Triaging' => Triaging) /\ (MoveLanded' => MoveLanded)
        BY <2>1, <3>1, DropMoves DEF Going, Dispatching, ToWait, Triaging
      <3> QED BY <3>1, <3>3, <3>4, FailsKept
    <2>3. CASE why # "note" /\ OverCap /\ UNCHANGED <<memory, history>>
      BY <1>3, <2>1, <2>3 DEF OverCap, memory, history, Dispatching
    <2>4. CASE why # "note" /\ pc' = "approval" /\ UNCHANGED <<phase, filing, memory, history>>
      <3>1. Dispatching /\ UNCHANGED <<run, pending, failures, vain>>
        BY <2>1, <2>4 DEF Dispatching, memory, chain, history
      <3>2. run'.kind = "triage" => Triaging
        BY <3>1 DEF Triaging
      <3> QED BY <1>1, <2>1, <2>4, <3>1, <3>2, FailsStarts
    <2>5. \/ Passed
          \/ why = "note" /\ Ask("hand_over") /\ UNCHANGED <<memory, history>>
          \/ why # "note" /\ OverCap /\ UNCHANGED <<memory, history>>
          \/ why # "note" /\ pc' = "approval" /\ UNCHANGED <<phase, filing, memory, history>>
      BY <1>7 DEF WatchIssues
    <2> QED BY <1>2, <2>1, <2>2, <2>3, <2>4, <2>5
  <1>8. CASE WatchApproval
    <2>1. Dispatching /\ UNCHANGED github
      BY <1>8 DEF WatchApproval, Dispatching
    <2>2. CASE HandBackFor("refused", TRUE) /\ UNCHANGED <<memory, history>>
      BY <1>3, <2>1, <2>2 DEF memory, history
    <2> QED BY <1>2, <1>4, <1>8, <2>1, <2>2 DEF WatchApproval
  <1> QED BY <1>5, <1>6, <1>7, <1>8

\* What the watch reads: a review due is in time, a note owed is written first.
LEMMA FailsWatched ==
    ASSUME LaneInv, FailInv, WatchRead PROVE FailInv'
  <1>1. /\ phase = "watch" /\ pc = "none" /\ filing.kind = "none"
        /\ UNCHANGED <<run, pending, vain, github>>
    BY DEF WatchRead, Passed, memory, history, LaneInv, Placed
  <1>2. CASE Passed \/ (Done /\ UNCHANGED <<chain, record>>)
    <2>1. pc' = "none" /\ filing' = NoVerdict /\ UNCHANGED memory
      BY <1>1, <1>2 DEF Passed, Done, Enter, memory
    <2> QED BY <1>1, <2>1, FailsPassed
  <1>3. CASE state = "closed" /\ ForgetChain /\ Done
    <2>1. pc' = "none" /\ filing' = NoVerdict
      BY <1>3 DEF Done, Enter
    <2> QED BY <1>1, <1>3, <2>1, DropMoves, FailsClosed DEF github
  <1>4. CASE /\ Watched(record) /\ state # "closed" /\ UNCHANGED <<chain, record>>
             /\ run.kind = "none" /\ (note \/ ParentReviewDue)
             /\ pc' = "issues" /\ why' = (IF note THEN "note" ELSE "none")
             /\ UNCHANGED <<phase, filing>>
    <2>1. UNCHANGED <<failures, escape, note, state, labels>>
      BY <1>1, <1>4 DEF chain, github
    <2>2. ~Failing /\ (Clear => Clear') /\ (MoveLanded' => MoveLanded)
      BY <1>1, <1>4, DropMoves DEF Failing, Clear, pending
    <2>3. Excused => Excused'
      BY <1>4, <2>1, <2>2, ExcusedStays
    <2>4. ~note => ~Excused
      BY <1>1, <1>4, <2>2 DEF Excused, Owing, Out, ParentReviewDue
    <2>5. ~note => InTime
      BY <2>4 DEF FailInv
    <2>6. Going' => InTime /\ state' # "closed"
      BY <1>1, <1>4, <2>1, <2>5 DEF Going, Dispatching
    <2>7. ~ToWait' /\ ~Triaging'
      BY <1>1, <1>4 DEF ToWait, Triaging
    <2> QED BY <1>1, <2>1, <2>2, <2>3, <2>6, <2>7, FailsKept
  <1>5. \/ Passed \/ (Done /\ UNCHANGED <<chain, record>>)
        \/ state = "closed" /\ ForgetChain /\ Done
        \/ /\ Watched(record) /\ state # "closed" /\ UNCHANGED <<chain, record>>
           /\ run.kind = "none" /\ (note \/ ParentReviewDue)
           /\ pc' = "issues" /\ why' = (IF note THEN "note" ELSE "none")
           /\ UNCHANGED <<phase, filing>>
    BY DEF WatchRead
  <1> QED BY <1>2, <1>3, <1>4, <1>5

\* A session's end: its failure counts, and the last of a chain hands the issue to a human.
LEMMA FailsExit ==
    ASSUME LaneInv, FailInv, SendInv, HoldInv, Exit PROVE FailInv'
  <1>1. /\ run.kind # "none" /\ run \in Runs /\ run' = NoRun /\ phase = "idle" /\ pc = "none"
        /\ filing.kind = "none" /\ UNCHANGED <<github, pending, record>>
    BY LaneExit DEF Exit, LaneInv, LaneOK, Placed
  <1>2. /\ Going /\ InTime /\ run'.kind = "none" /\ run'.stop = "none" /\ ~MoveLanded
        /\ review.kind = "none"
    BY <1>1, NoVerdictTyped DEF Going, FailInv, SendInv, NoRun, MoveLanded, OfReview
  <1>3. /\ UNCHANGED <<state, labels>> /\ failures \in Nat /\ vain \in Nat /\ MaxAttempts \in Nat \ {0}
    BY <1>1, TriageAssumption DEF github, LaneInv, ChainOK, PastOK
  <1>4. CASE UNCHANGED control /\ UNCHANGED history /\ UNCHANGED failures
    <2>1. UNCHANGED <<pc, phase, filing, vain, review>>
      BY <1>1, <1>4 DEF control, inHand, history, pending
    <2>2. ~Going' /\ ~ToWait' /\ ~MoveLanded' /\ ~Triaging'
      BY <1>1, <1>2, <2>1 DEF Going, Dispatching, ToWait, MoveLanded, Triaging
    <2> QED BY <1>2, <1>4, <2>1, <2>2, FailsKept
  <1>5. CASE run.stop = "gone" /\ ForgetChain /\ UNCHANGED history
    <2>1. vain' = 0
      BY <1>5 DEF FailInv, history
    <2> QED BY <1>5, <2>1, FailsForgotten
  <1>6. CASE ExitWithVerdict
    <2>1. UNCHANGED <<failures, vain, review>> /\ pc' = "owed" /\ phase' = "exit"
      BY <1>1, <1>6 DEF ExitWithVerdict, chain, pending
    <2>2. ~filing'.swapped
      <3>1. filing' \in Verdicts
        BY <1>6 DEF ExitWithVerdict
      <3> QED BY <3>1 DEF Verdicts, Verdict
    <2>3. ~Going' /\ ~ToWait' /\ ~MoveLanded' /\ ~Triaging'
      BY <1>2, <2>1, <2>2 DEF Going, Dispatching, ToWait, MoveLanded, Triaging
    <2> QED BY <1>2, <2>1, <2>3, FailsKept
  <1>7. CASE ExitFailed
    <2>1. vain' = vain + 1 /\ vain <= failures + 1 /\ failures < MaxAttempts
      BY <1>2, <1>7 DEF ExitFailed, InTime, FailInv
    <2>2. CASE failures + 1 < MaxAttempts /\ failures' = failures + 1 /\ UNCHANGED control
      <3>1. InTime'
        BY <1>3, <2>1, <2>2 DEF InTime
      <3>2. vain' <= MaxAttempts + 1 /\ failures' < MaxAttempts
        BY <1>3, <2>1, <2>2
      <3>3. UNCHANGED <<pc, phase, filing, review>>
        BY <1>1, <2>2 DEF control, inHand, pending
      <3>4. ~Going' /\ ~MoveLanded' /\ ~Triaging'
        BY <1>1, <1>2, <3>3 DEF Going, Dispatching, MoveLanded, Triaging
      <3> QED BY <1>2, <3>1, <3>2, <3>4 DEF FailInv
    <2>3. CASE /\ ~(failures + 1 < MaxAttempts) /\ ForgetChain /\ phase' = "exit" /\ why' = "failed"
               /\ pc' = (IF run.kind = "parent_review" \/ run.subs THEN "hand_over" ELSE "hand_back")
               /\ UNCHANGED filing
      <3>1. failures' = 0 /\ failures' < MaxAttempts /\ vain' <= MaxAttempts + 1
        BY <1>3, <2>1, <2>3 DEF ForgetChain
      <3>2. ~Going' /\ ~ToWait' /\ ~MoveLanded' /\ ~Triaging'
        <4>1. pc' \in {"hand_over", "hand_back"} /\ UNCHANGED review
          BY <1>1, <2>3 DEF pending
        <4> QED BY <1>2, <2>3, <4>1 DEF Going, Dispatching, ToWait, MoveLanded, Triaging
      <3>3. InTime' \/ Failing'
        <4>1. CASE pc' = "hand_over"
          BY <2>3, <4>1 DEF Failing
        <4>2. CASE pc' # "hand_over"
          <5>1. run.kind = "triage" /\ pc' = "hand_back"
            BY <1>1, <2>3, <4>2 DEF Runs
          <5>2. Clear'
            BY <1>1, <2>3, <5>1 DEF HoldInv, Clear, pending
          <5>3. CASE "triage_todo" \in labels
            BY <1>3, <2>3, <5>1, <5>2, <5>3 DEF Failing
          <5>4. CASE "triage_todo" \notin labels
            <6>1. vain = 0
              BY <5>1, <5>4 DEF FailInv, Triaging
            <6> QED BY <2>1, <3>1, <6>1 DEF InTime
          <5> QED BY <5>3, <5>4
        <4> QED BY <4>1, <4>2
      <3> QED BY <1>2, <3>1, <3>2, <3>3 DEF FailInv, Excused
    <2> QED BY <1>7, <2>2, <2>3 DEF ExitFailed
  <1>8. CASE waiting' = TRUE /\ UNCHANGED <<failures, escape, note, control, history>>
    BY <1>4, <1>8
  <1> QED BY <1>4, <1>5, <1>6, <1>7, <1>8 DEF Exit, chain

\* A step in which the worker does nothing, and no human touches the issue.
LEMMA FailsStay ==
    ASSUME FailInv, UNCHANGED <<state, labels, pending, failures, escape, note, record, control, vain>>,
           run'.kind = run.kind, run'.stop = run.stop
    PROVE  FailInv'
  <1>1. UNCHANGED <<phase, pc, why, filing, verdict, review>>
    BY DEF control, inHand, pending
  <1>2. /\ Going' <=> Going
        /\ ToWait' <=> ToWait
        /\ Triaging' <=> Triaging
        /\ MoveLanded' <=> MoveLanded
    BY <1>1 DEF Going, Dispatching, ToWait, Triaging, MoveLanded
  <1>3. (Clear => Clear') /\ (Failing => Failing')
    BY <1>1 DEF Clear, Failing
  <1>4. Excused => Excused'
    BY <1>3, ExcusedStays DEF Watched
  <1> QED BY <1>2, <1>4, FailsKept

\* A step of the lane leaves the failures within their bounds.
LEMMA FailsNext == ASSUME LaneInv, FailInv, SendInv, HoldInv, [Next]_vars PROVE FailInv'
  <1>1. CASE Tick
    <2>1. /\ UNCHANGED <<github, memory, vain>> /\ pc' = "none" /\ filing' = NoVerdict
          /\ pc = "none" /\ filing.kind = "none"
      BY <1>1, LaneTick DEF Tick, LaneInv, Placed, history
    <2> QED BY <2>1, FailsPassed
  <1>2. CASE Refresh
    <2>1. /\ pc = "none" /\ run.kind # "none" /\ filing.kind = "none"
      BY <1>2 DEF Refresh, SendInv, LaneInv, Placed
    <2>2. /\ UNCHANGED <<state, labels, pending, record, vain>> /\ run'.kind = run.kind
          /\ pc' = "none" /\ filing' = NoVerdict
      BY <1>2, LaneRefresh DEF github, history
    <2>3. UNCHANGED <<failures, escape, note>>
      BY <1>2 DEF Refresh, Passed, memory, chain
    <2>4. run'.stop = "gone" => run.stop = "gone" \/ state = "closed"
      <3>1. CASE Passed
        BY <3>1 DEF Passed, memory
      <3>2. CASE run' = [run EXCEPT !.stop = IF @ = "gone" \/ StopFor = "none" THEN @ ELSE StopFor,
                                    !.subs = IF state = "closed" THEN @ ELSE steps # <<>>]
        <4>1. run'.stop = IF run.stop = "gone" \/ StopFor = "none" THEN run.stop ELSE StopFor
          BY <3>2 DEF LaneInv, LaneOK, Runs
        <4> QED BY <4>1 DEF StopFor
      <3> QED BY <1>2, <3>1, <3>2 DEF Refresh
    <2>5. run'.stop = "gone" => run.stop = "gone" \/ vain = 0
      BY <2>1, <2>4 DEF FailInv, Going
    <2>6. ~Failing /\ (Clear => Clear') /\ (MoveLanded' => MoveLanded)
      BY <2>1, <2>2, DropMoves, NoVerdictTyped DEF Failing, Clear, pending
    <2>7. Excused => Excused'
      BY <2>2, <2>3, <2>6, ExcusedStays DEF Watched
    <2>8. Going /\ ~ToWait' /\ (Triaging' => Triaging)
      BY <2>1, <2>2 DEF Going, ToWait, Triaging
    <2> QED BY <2>2, <2>3, <2>5, <2>6, <2>7, <2>8, FailsKept
  <1>3. CASE Retry
    <2>1. /\ UNCHANGED <<github, memory, vain>> /\ pc = "none" /\ filing.kind = "none"
      BY <1>3 DEF Retry, LaneInv, Placed, history
    <2>2. CASE Done
      BY <2>1, <2>2, FailsPassed DEF Done, Enter
    <2>3. CASE pc' = "owed" /\ filing' \in {verdict, review} /\ filing'.kind # "none"
      <3>1. UNCHANGED <<state, labels, run, failures, escape, note, record, verdict, review>>
        BY <2>1 DEF github, memory, chain, pending
      <3>2. MoveLanded' => MoveLanded
        BY <2>3, <3>1 DEF MoveLanded, LaneInv, PendOK, OfReview
      <3>3. ~Failing /\ (Clear => Clear')
        BY <2>1, <2>3, <3>1 DEF Failing, Clear
      <3>4. Excused => Excused'
        BY <3>1, <3>3, ExcusedStays DEF Watched
      <3>5. (Going' => Going) /\ ~ToWait' /\ (Triaging' => Triaging)
        BY <2>3, <3>1 DEF Going, Dispatching, ToWait, Triaging
      <3> QED BY <2>1, <3>1, <3>2, <3>4, <3>5, FailsKept
    <2> QED BY <1>3, <2>2, <2>3 DEF Retry
  <1>4. CASE SessionEnds
    <2>1. run'.stop = run.stop
      BY <1>4 DEF SessionEnds, LaneInv, LaneOK, Runs
    <2> QED BY <1>4, <2>1, LaneSessionEnds, FailsStay DEF SessionEnds, github, history, chain
  <1>5. CASE Expire
    BY <1>5, FailsStay DEF Expire, github, history
  <1>6. CASE Store
    BY <1>6, FailsStay DEF Store, github, history, memory, chain
  <1>7. CASE Restart
    BY <1>7, FailsForgotten DEF Restart
  <1>8. CASE Human \/ StepCloses
    <2>1. UNCHANGED <<memory, control>>
      BY <1>8, LaneHumans
    <2>2. vain' = 0 \/ UNCHANGED <<state, labels, vain>>
      BY <1>8 DEF Human, StepCloses, HumanAsks, HumanRelabels, HumanCloses, HumanReopensStep,
                  HumanAddsStep, HumanUnlinks, Touched, history
    <2> QED BY <2>1, <2>2, FailsBelow, FailsStay DEF memory, chain
  <1>9. CASE UNCHANGED vars
    BY <1>9, FailsStay DEF vars, github, history, memory, chain
  <1> QED
    BY <1>1, <1>2, <1>3, <1>4, <1>5, <1>6, <1>7, <1>8, <1>9, FailsFiles, FailsOver, FailsCandidates,
       FailsDispatched, FailsWatched, FailsExit
    DEF Next, Worker
-----------------------------------------------------------------------------
(* How many reviews are acted on *)

\* The reviews that may be acted on: with none allowed, the first one a human asks for.
Most == IF MaxReviews = 0 THEN 1 ELSE MaxReviews

\* The review being filed, or waiting for its retry.
InHand       == IF OfReview(filing) THEN filing ELSE review
ReviewInHand == OfReview(InHand) /\ ~GapHand
MovedInHand  == ReviewInHand /\ InHand.swapped

\* So many reviews and gap rounds are counted.
Within(reviews, rounds) == acted <= reviews /\ gaps <= rounds

\* What a review counts is what was acted on, and once its move landed it is acted on itself.
Fits(v) == IF v.swapped THEN Within(v.counts[1], v.counts[2])
           ELSE /\ acted < v.counts[1] /\ acted < Most
                /\ (IF v.kind = "gap" THEN gaps + 1 ELSE gaps) <= v.counts[2]

\* A verdict or a hand-over not yet on GitHub accounts for the request.
Settling == note \/ GapHand \/ verdict.kind # "none" \/ filing.kind \in {"fits", "split"}

\* What the requests before a review, and those of a filing, say of what is counted.
AskInv ==
    /\ (phase = "watch" /\ (pc = "approval" \/ (pc = "issues" /\ why # "note")))
           => Within(record.reviews, record.gaps)
    /\ (phase = "watch" /\ pc = "approval") => record.reviews < MaxReviews
    /\ (phase = "candidates" /\ pc \in {"approval", "sub_issues"}) => acted = 0 /\ gaps = 0
    /\ (pc \in {"list", "create", "mark", "swap"} /\ filing.kind = "gap" /\ ~filing.swapped)
           => filing.counts[2] <= MaxGaps

\* What is acted on since a human touched the issue is counted: by the record, but for a review
\* whose move landed and whose comment has not, or by the request that starts the count anew.
RoundInv ==
    /\ acted <= Most /\ gaps <= MaxGaps
    /\ AskInv
    /\ run.kind = "parent_review" => Within(record.reviews, record.gaps) /\ acted < Most
    /\ ReviewInHand => Fits(InHand)
    /\ (Watched(record) /\ ~MovedInHand)
           => Within(IF GapHand THEN record.reviews + 1 ELSE record.reviews, record.gaps)
    /\ "triage_todo" \in labels => gaps = 0
    /\ (Candidate /\ acted # 0) => Settling
    /\ (MovedInHand \/ Going) => ~Candidate \/ acted = 0

\* The cap on reviews is a number, and not nought.
LEMMA MostTyped == Most \in Nat /\ Most >= 1 /\ MaxGaps \in Nat /\ MaxReviews \in Nat
                   /\ (MaxReviews > 0 => Most = MaxReviews)
  BY TriageAssumption DEF Most

\* The counts of a record and of a verdict are numbers.
LEMMA CountsTyped ==
    ASSUME LaneInv
    PROVE  /\ record.reviews \in Nat /\ record.gaps \in Nat /\ acted \in Nat /\ gaps \in Nat
           /\ filing.counts[1] \in Nat /\ filing.counts[2] \in Nat
           /\ review.counts[1] \in Nat /\ review.counts[2] \in Nat
           /\ InHand.counts[1] \in Nat /\ InHand.counts[2] \in Nat
  <1>1. \A v \in Filed : v.counts[1] \in Nat /\ v.counts[2] \in Nat
    BY DEF Filed
  <1>2. record.reviews \in Nat /\ record.gaps \in Nat
    BY DEF LaneInv, LaneOK, Parents
  <1>3. filing \in Filed /\ review \in Filed /\ acted \in Nat /\ gaps \in Nat
    BY DEF LaneInv, HandsOK, PendOK, PastOK
  <1> QED BY <1>1, <1>2, <1>3 DEF InHand

\* A request of another kind says nothing of what is counted.
LEMMA AsksNothing ==
    ASSUME pc' \notin {"approval", "sub_issues", "issues", "list", "create", "mark", "swap"}
    PROVE  AskInv'
  BY DEF AskInv

\* A step that counts nothing: what it may not do.
LEMMA RoundsKept ==
    ASSUME RoundInv, AskInv', UNCHANGED <<acted, gaps>>, Candidate' => Candidate,
           "triage_todo" \in labels' => "triage_todo" \in labels,
           run'.kind = "parent_review" => run.kind = "parent_review",
           (run'.kind = "parent_review" \/ Watched(record'))
               => record'.reviews = record.reviews /\ record'.gaps = record.gaps,
           Watched(record') => Watched(record) /\ (GapHand' <=> GapHand) /\ (MovedInHand => MovedInHand'),
           ReviewInHand' => /\ ReviewInHand /\ InHand'.kind = InHand.kind
                            /\ InHand'.counts = InHand.counts /\ InHand'.swapped = InHand.swapped,
           (Candidate' /\ Settling) => Settling' \/ acted = 0,
           Going' => Going \/ ~Candidate' \/ acted = 0
    PROVE  RoundInv'
  <1>1. acted' <= Most /\ gaps' <= MaxGaps
    BY DEF RoundInv
  <1>2. run'.kind = "parent_review" => Within(record.reviews, record.gaps)' /\ acted' < Most
    BY DEF RoundInv, Within
  <1>3. ReviewInHand' => Fits(InHand)'
    BY DEF RoundInv, Fits, Within
  <1>4. (Watched(record) /\ ~MovedInHand)'
            => Within(IF GapHand THEN record.reviews + 1 ELSE record.reviews, record.gaps)'
    BY DEF RoundInv, Within
  <1>5. MovedInHand' => MovedInHand
    BY DEF MovedInHand
  <1>6. (MovedInHand' \/ Going') => ~Candidate' \/ acted' = 0
    BY <1>5 DEF RoundInv
  <1>7. (Candidate' /\ acted' # 0) => Settling'
    BY DEF RoundInv
  <1>8. "triage_todo" \in labels' => gaps' = 0
    BY DEF RoundInv
  <1> QED BY <1>1, <1>2, <1>3, <1>4, <1>6, <1>7, <1>8 DEF RoundInv

\* The count starts anew.
LEMMA RoundsAnew ==
    ASSUME LaneInv', AskInv', acted' = 0, gaps' = 0,
           ReviewInHand' => \/ InHand'.swapped
                            \/ /\ InHand'.counts[1] >= 1
                               /\ InHand'.kind = "gap" => InHand'.counts[2] >= 1
    PROVE  RoundInv'
  <1>1. 0 <= Most /\ 0 < Most /\ 0 <= MaxGaps
    BY MostTyped
  <1>2. \A n, m \in Nat : Within(n, m)'
    BY DEF Within
  <1>3. /\ record'.reviews \in Nat /\ record'.gaps \in Nat
        /\ InHand'.counts[1] \in Nat /\ InHand'.counts[2] \in Nat
    <2>1. \A v \in Filed : v.counts[1] \in Nat /\ v.counts[2] \in Nat
      BY DEF Filed
    <2>2. filing' \in Filed /\ review' \in Filed /\ record' \in Parents
      BY DEF LaneInv, HandsOK, PendOK, LaneOK
    <2> QED BY <2>1, <2>2 DEF InHand, Parents
  <1>4. ReviewInHand' => Fits(InHand)'
    BY <1>1, <1>2, <1>3 DEF Fits
  <1>5. record'.reviews + 1 \in Nat
    BY <1>3
  <1> QED BY <1>1, <1>2, <1>3, <1>4, <1>5 DEF RoundInv

\* Nothing is counted, and the review in hand is the same.
LEMMA RoundsSame ==
    ASSUME RoundInv, AskInv', UNCHANGED <<acted, gaps>>, Candidate' => Candidate,
           "triage_todo" \in labels' => "triage_todo" \in labels,
           run'.kind = "parent_review" => run.kind = "parent_review",
           (run'.kind = "parent_review" \/ Watched(record'))
               => record'.reviews = record.reviews /\ record'.gaps = record.gaps,
           Watched(record') => Watched(record), ~GapHand, ~GapHand',
           InHand'.kind = InHand.kind, InHand'.counts = InHand.counts, InHand'.swapped = InHand.swapped,
           (Candidate' /\ Settling) => Settling' \/ acted = 0,
           Going' => Going \/ ~Candidate' \/ acted = 0
    PROVE  RoundInv'
  <1>1. (ReviewInHand' <=> ReviewInHand) /\ (MovedInHand' <=> MovedInHand)
    BY DEF ReviewInHand, MovedInHand, OfReview
  <1> QED BY <1>1, RoundsKept

\* With nothing in hand, before and after, what waits for its retry is the review in hand.
LEMMA RoundsIdle ==
    ASSUME RoundInv, AskInv', UNCHANGED <<acted, gaps, review>>, Candidate' => Candidate,
           "triage_todo" \in labels' => "triage_todo" \in labels,
           run'.kind = "parent_review" => run.kind = "parent_review",
           (run'.kind = "parent_review" \/ Watched(record'))
               => record'.reviews = record.reviews /\ record'.gaps = record.gaps,
           Watched(record') => Watched(record), ~GapHand, ~GapHand',
           ~OfReview(filing), ~OfReview(filing'),
           (Candidate' /\ Settling) => Settling' \/ acted = 0,
           Going' => Going \/ ~Candidate' \/ acted = 0
    PROVE  RoundInv'
  <1>1. InHand' = review /\ InHand = review
    BY DEF InHand
  <1> QED BY <1>1, RoundsSame

\* A filing's try that failed.
LEMMA RoundsFail ==
    ASSUME LaneInv, RoundInv, SendInv, HoldInv, pc \in FilingAt, TryFails, Candidate' => Candidate,
           "triage_todo" \in labels' => "triage_todo" \in labels
    PROVE  RoundInv'
  <1>1. /\ UNCHANGED <<run, chain, record, history>> /\ filing \in Filed /\ filing.kind # "none"
        /\ \/ pc' = "none" /\ filing' = NoVerdict
           \/ filing' = filing /\ pc' \in {"hand_over", "hand_read", "hand_back"}
    BY TryFailsOK DEF LaneInv, HandsOK, Placed
  <1>2. /\ Tried.kind = filing.kind /\ Tried.counts = filing.counts /\ Tried.swapped = filing.swapped
        /\ (OfReview(Tried) <=> OfReview(filing)) /\ Keep(Tried)
    BY <1>1 DEF Tried, Filed, OfReview, TryFails
  <1>3. pc' = "hand_over" => why' \in {"review", "verdict"}
    BY SendFails
  <1>4. ~GapHand /\ ~GapHand' /\ AskInv'
    BY <1>1, <1>3, AsksNothing DEF GapHand, FilingAt
  <1>5. UNCHANGED <<acted, gaps, note>> /\ (Going' => Going)
    BY <1>1 DEF history, chain, Going, Dispatching
  <1>6. ~OfReview(NoVerdict)
    BY NoVerdictTyped DEF OfReview
  <1>7. CASE OfReview(filing)
    <2>1. review' = Tried /\ verdict' = verdict /\ InHand = filing
      BY <1>2, <1>7 DEF Keep, InHand
    <2>2. InHand' = filing \/ InHand' = Tried
      BY <1>1, <1>6, <1>7, <2>1 DEF InHand
    <2>3. Settling => Settling'
      BY <1>4, <1>5, <1>7, <2>1 DEF Settling, OfReview
    <2> QED BY <1>1, <1>2, <1>4, <1>5, <2>1, <2>2, <2>3, RoundsSame DEF Watched
  <1>8. CASE ~OfReview(filing)
    <2>1. verdict' = Tried /\ review' = review /\ ~OfReview(filing')
      BY <1>1, <1>2, <1>6, <1>8 DEF Keep
    <2>2. Settling'
      BY <1>1, <1>2, <2>1 DEF Settling
    <2> QED BY <1>1, <1>4, <1>5, <1>8, <2>1, <2>2, RoundsIdle DEF Watched
  <1> QED BY <1>7, <1>8

\* The filing's next request, with the same verdict in hand.
LEMMA RoundsOn ==
    ASSUME LaneInv, RoundInv, pc \in FilingAt, pc' \in FilingAt, AskInv',
           UNCHANGED <<filing, memory, acted, gaps>>, Candidate' => Candidate,
           "triage_todo" \in labels' => "triage_todo" \in labels
    PROVE  RoundInv'
  <1>1. ~GapHand /\ ~GapHand' /\ UNCHANGED <<run, record, review, verdict, note>>
    BY DEF GapHand, FilingAt, memory, pending, chain
  <1>2. InHand' = InHand
    BY <1>1 DEF InHand
  <1>3. (Settling => Settling') /\ (Going' => Going)
    BY <1>1 DEF Settling, Going, Dispatching, FilingAt
  <1> QED BY <1>1, <1>2, <1>3, RoundsSame DEF Watched

\* The filing given up, its move not made.
LEMMA RoundsDropped ==
    ASSUME LaneInv, RoundInv, pc \in FilingAt, Done, Drop(filing), ~Candidate \/ UNCHANGED note,
           UNCHANGED <<run, record, acted, gaps, labels, state>>,
           OfReview(filing) => ~filing.swapped, ~OfReview(filing) => ~Candidate
    PROVE  RoundInv'
  <1>1. pc' = "none" /\ filing' = NoVerdict /\ ~OfReview(filing') /\ ~OfReview(NoVerdict)
    BY NoVerdictTyped DEF Done, Enter, OfReview
  <1>2. ~GapHand /\ ~GapHand' /\ AskInv' /\ (Going' => Going) /\ (Candidate' <=> Candidate)
    BY <1>1, AsksNothing DEF GapHand, FilingAt, Going, Dispatching, Candidate
  <1>3. CASE OfReview(filing)
    <2>1. review' = NoVerdict /\ verdict' = verdict /\ ~OfReview(InHand') /\ InHand = filing
      BY <1>1, <1>3 DEF Drop, InHand
    <2>2. ~ReviewInHand' /\ ~MovedInHand
      BY <1>3, <2>1 DEF ReviewInHand, MovedInHand
    <2>3. (Candidate /\ Settling) => Settling'
      BY <1>2, <1>3, <2>1 DEF Settling, OfReview
    <2> QED BY <1>2, <2>2, <2>3, RoundsKept DEF Watched
  <1>4. CASE ~OfReview(filing)
    <2>1. review' = review
      BY <1>4 DEF Drop
    <2> QED BY <1>1, <1>2, <1>4, <2>1, RoundsIdle DEF Watched
  <1> QED BY <1>3, <1>4

\* Whether a verdict is still owed, and for a review whether its steps are as they were seen.
LEMMA RoundsRead ==
    ASSUME LaneInv, RoundInv, SendInv, HoldInv, GapInv, OwedRead \/ StepsRead PROVE RoundInv'
  <1>1. /\ pc \in FilingAt /\ UNCHANGED github /\ UNCHANGED <<labels, state>>
        /\ filing \in Filed /\ filing.kind # "none" /\ (Candidate' <=> Candidate)
    BY DEF OwedRead, StepsRead, FilingAt, LaneInv, HandsOK, Placed, github, Candidate
  <1>2. CASE TryFails
    BY <1>1, <1>2, RoundsFail
  <1>3. Begin \in FilingAt /\ Begin \notin {"approval", "sub_issues", "issues", "create", "mark", "steps"}
        /\ (filing.kind = "gap" => Begin = "list")
    BY <1>1 DEF Begin, Filings, FilingAt, Filed
  <1>4. CASE OwedRead
    <2>1. CASE Ask("steps") /\ UNCHANGED <<memory, history>>
      <3>1. pc' = "steps" /\ pc' \in FilingAt /\ UNCHANGED <<filing, memory, acted, gaps>>
        BY <2>1 DEF Ask, FilingAt, history
      <3> QED BY <1>1, <3>1, AsksNothing, RoundsOn
    <2>2. CASE Ask(Begin) /\ UNCHANGED <<memory, history>> /\ (filing.kind = "gap" => filing.swapped)
      <3>1. pc' = Begin /\ UNCHANGED <<filing, memory, acted, gaps>>
        BY <2>2 DEF Ask, history
      <3>2. AskInv'
        BY <1>3, <2>2, <3>1 DEF AskInv
      <3> QED BY <1>1, <1>3, <3>1, <3>2, RoundsOn
    <2>3. CASE /\ Discard /\ UNCHANGED <<run, record, history>>
               /\ OfReview(filing) => ~filing.swapped
               /\ ~OfReview(filing) => ~Candidate
      <3>1. Drop(filing) /\ Done /\ UNCHANGED <<run, record, acted, gaps>>
        BY <2>3 DEF Discard, history
      <3>2. ~Candidate \/ UNCHANGED note
        BY <2>3 DEF Discard, Candidate, chain
      <3> QED BY <1>1, <2>3, <3>1, <3>2, RoundsDropped
    <2>4. CloseUnderError => filing.kind = "met"
      BY DEF CloseUnderError, Own
    <2>5. \/ TryFails
          \/ Ask("steps") /\ UNCHANGED <<memory, history>>
          \/ Ask(Begin) /\ UNCHANGED <<memory, history>> /\ (filing.kind = "gap" => filing.swapped)
          \/ /\ Discard /\ UNCHANGED <<run, record, history>>
             /\ OfReview(filing) => ~filing.swapped
             /\ ~OfReview(filing) => ~Candidate
      <3>1. CASE OfReview(filing)
        BY <1>4, <2>4, <3>1 DEF OwedRead
      <3>2. CASE ~OfReview(filing)
        BY <1>4, <3>2 DEF OwedRead, VerdictOwed, OfReview
      <3> QED BY <3>1, <3>2
    <2> QED BY <1>2, <2>1, <2>2, <2>3, <2>5
  <1>5. CASE StepsRead
    <2>1. OfReview(filing) /\ ~filing.swapped /\ pc = "steps"
      BY <1>5 DEF StepsRead, GapInv, SendInv
    <2>2. CASE Drop(filing) /\ Done /\ UNCHANGED <<run, chain, record, acted, gaps>>
      BY <1>1, <2>1, <2>2, RoundsDropped DEF chain
    <2>3. CASE Ask(Begin) /\ UNCHANGED <<memory, acted, gaps>> /\ ~PastGapLimit(filing)
      <3>1. pc' = Begin /\ UNCHANGED filing
        BY <2>3 DEF Ask
      <3>2. filing.counts[2] \in Nat /\ MaxGaps \in Nat
        BY <1>1, MostTyped DEF Filed
      <3>3. filing.kind = "gap" => filing.counts[2] <= MaxGaps
        BY <2>3, <3>2 DEF PastGapLimit
      <3>4. AskInv'
        BY <1>3, <3>1, <3>3 DEF AskInv
      <3> QED BY <1>1, <1>3, <2>3, <3>1, <3>4, RoundsOn
    <2>4. CASE /\ Drop(filing) /\ HandBackFor("gap_limit", TRUE) /\ acted' = acted + 1
               /\ UNCHANGED <<run, chain, record, gaps>>
      <3>1. /\ pc' = "hand_over" /\ why' = "gap_limit" /\ GapHand' /\ UNCHANGED filing
        BY <2>4 DEF HandBackFor, GapHand
      <3>2. ~GapHand /\ InHand = filing /\ ReviewInHand /\ ~MovedInHand
        BY <2>1 DEF GapHand, InHand, ReviewInHand, MovedInHand
      <3>3. acted < Most /\ acted \in Nat /\ Most \in Nat /\ record.reviews \in Nat
        BY <2>1, <3>2, MostTyped, CountsTyped DEF RoundInv, Fits
      <3>4. run.kind = "none" /\ ~Going' /\ ~ReviewInHand' /\ ~MovedInHand'
        BY <2>1, <2>4, <3>1 DEF SendInv, Going, Dispatching, ReviewInHand, MovedInHand
      <3>5. Watched(record') => Within(record.reviews + 1, record.gaps)'
        BY <2>4, <3>2, <3>3 DEF RoundInv, Within, Watched
      <3>6. acted' <= Most /\ gaps' <= MaxGaps /\ ("triage_todo" \in labels' => gaps' = 0)
        BY <1>1, <2>4, <3>3 DEF RoundInv
      <3>7. record'.reviews = record.reviews /\ record'.gaps = record.gaps /\ run'.kind = "none"
        BY <2>4, <3>4
      <3> QED BY <3>1, <3>4, <3>5, <3>6, <3>7, AsksNothing DEF RoundInv, Settling
    <2> QED BY <1>2, <1>5, <2>2, <2>3, <2>4 DEF StepsRead, memory
  <1> QED BY <1>4, <1>5

\* The drafts are listed, made and marked: nothing is counted yet.
LEMMA RoundsDraft ==
    ASSUME LaneInv, RoundInv, SendInv, HoldInv, List \/ Create \/ Mark PROVE RoundInv'
  <1>1. /\ pc \in FilingAt /\ pc \in {"list", "create", "mark"} /\ UNCHANGED <<labels, state>>
    BY DEF List, Create, Mark, FilingAt, Created, Marked, github
  <1>2. Candidate' <=> Candidate
    BY <1>1 DEF Candidate
  <1>3. \/ TryFails
        \/ \E k, have : OnToDraft(k, have) /\ UNCHANGED <<memory, history>>
        \/ pc' = "mark" /\ UNCHANGED filing /\ UNCHANGED <<memory, history>>
    BY DEF List, Create, Mark, MarkNext
  <1>4. TryFails \/ (pc' \in {"swap", "mark", "create"} /\ UNCHANGED <<filing, memory, history>>)
    BY <1>3 DEF OnToDraft
  <1>5. CASE pc' \in {"swap", "mark", "create"} /\ UNCHANGED <<filing, memory, history>>
    <2>1. pc' \in FilingAt /\ UNCHANGED <<acted, gaps>>
      BY <1>5 DEF FilingAt, history
    <2>2. AskInv'
      BY <1>1, <1>5 DEF RoundInv, AskInv
    <2> QED BY <1>1, <1>2, <1>5, <2>1, <2>2, RoundsOn
  <1> QED BY <1>1, <1>2, <1>4, <1>5, RoundsFail

\* A verdict's move: a review is acted on with it, if it was not before.
LEMMA RoundsMoved ==
    ASSUME LaneInv, RoundInv, SendInv, Moved, Acted, UNCHANGED memory, pc \in {"swap", "close"},
           filing.kind # "none", ~Candidate', pc = "close" => filing.kind = "met",
           "triage_todo" \in labels' => "triage_todo" \in labels /\ filing.kind = "met"
    PROVE  RoundInv'
  <1>1. /\ filing \in Filed /\ pc' = "comment" /\ filing'.swapped
        /\ filing'.kind = filing.kind /\ filing'.counts = filing.counts
        /\ UNCHANGED <<run, record, review, verdict, note>>
    BY DEF Moved, LaneInv, HandsOK, Filed, memory, pending, chain
  <1>2. ~GapHand /\ ~GapHand' /\ AskInv' /\ (Going' => Going)
    BY <1>1, AsksNothing DEF GapHand, Going, Dispatching
  <1>3. OfReview(filing') <=> OfReview(filing)
    BY <1>1 DEF OfReview
  <1>4. CASE ~OfReview(filing)
    <2>1. UNCHANGED <<acted, gaps>>
      BY <1>4 DEF Acted, OfReview
    <2>2. "triage_todo" \in labels' => "triage_todo" \in labels
      OBVIOUS
    <2> QED BY <1>1, <1>2, <1>3, <1>4, <2>1, <2>2, RoundsIdle DEF Watched
  <1>5. CASE OfReview(filing)
    <2>1. InHand = filing /\ InHand' = filing' /\ ReviewInHand /\ MovedInHand'
      BY <1>1, <1>2, <1>3, <1>5 DEF InHand, ReviewInHand, MovedInHand
    <2>2. Fits(filing) /\ run.kind = "none"
      BY <1>5, <2>1 DEF RoundInv, SendInv, Going
    <2>3. /\ acted \in Nat /\ gaps \in Nat /\ Most \in Nat /\ MaxGaps \in Nat
          /\ filing.counts[1] \in Nat /\ filing.counts[2] \in Nat
      BY CountsTyped, MostTyped
    <2>4. (filing.kind = "gap" /\ ~filing.swapped) => filing.counts[2] <= MaxGaps
      BY DEF RoundInv, AskInv
    <2>5. /\ acted' = (IF filing.swapped THEN acted ELSE acted + 1)
          /\ gaps' = (IF filing.kind = "gap" /\ ~filing.swapped THEN gaps + 1 ELSE gaps)
      BY <1>5 DEF Acted
    <2>6. /\ acted' <= filing.counts[1] /\ gaps' <= filing.counts[2]
          /\ acted' <= Most /\ gaps' <= MaxGaps
      <3>1. acted <= Most /\ gaps <= MaxGaps
        BY DEF RoundInv
      <3>2. CASE filing.swapped
        BY <2>2, <2>5, <3>1, <3>2 DEF Fits, Within
      <3>3. CASE ~filing.swapped
        BY <2>2, <2>3, <2>4, <2>5, <3>1, <3>3 DEF Fits
      <3> QED BY <3>2, <3>3
    <2>7. Fits(InHand)'
      BY <1>1, <2>1, <2>6 DEF Fits, Within
    <2>8. "triage_todo" \in labels' => gaps' = 0
      BY <2>5 DEF RoundInv
    <2> QED BY <1>1, <1>2, <2>1, <2>2, <2>6, <2>7, <2>8 DEF RoundInv
  <1> QED BY <1>4, <1>5

\* The moves of a filing, and its comment: what a review counts is then the record's.
LEMMA RoundsFiled ==
    ASSUME LaneInv, RoundInv, SendInv, HoldInv, Swap \/ Met \/ Close \/ Comment PROVE RoundInv'
  <1>1. pc \in FilingAt /\ filing \in Filed /\ filing.kind # "none"
    BY DEF Swap, Met, Close, Comment, FilingAt, LaneInv, HandsOK, Placed
  <1>2. "triage_todo" \notin Held /\ "triage_todo" \notin Held \cup {"complete"}
    BY HeldOK DEF Held, LaneInv
  <1>3. CASE TryFails
    <2>1. \/ UNCHANGED <<labels, state>>
          \/ "triage_todo" \notin labels'
          \/ UNCHANGED labels /\ state' = "closed"
      BY <1>2 DEF Swap, Met, Close, Comment, github
    <2>2. (Candidate' => Candidate) /\ ("triage_todo" \in labels' => "triage_todo" \in labels)
      BY <2>1 DEF Candidate
    <2> QED BY <1>1, <1>3, <2>2, RoundsFail
  <1>4. CASE Swap /\ ~TryFails
    <2>1. pc = "swap" /\ labels' = Held /\ Moved /\ Acted /\ UNCHANGED memory
      BY <1>4 DEF Swap
    <2> QED BY <1>1, <1>2, <2>1, RoundsMoved DEF Candidate
  <1>5. CASE Close /\ ~TryFails
    <2>1. pc = "close" /\ state' = "closed" /\ UNCHANGED labels /\ Moved /\ Acted /\ UNCHANGED memory
      BY <1>5 DEF Close
    <2>2. filing.kind = "met" /\ ~Candidate'
      BY <2>1 DEF SendInv, Candidate
    <2> QED BY <1>1, <2>1, <2>2, RoundsMoved
  <1>6. CASE Met /\ ~TryFails
    <2>1. "triage_todo" \notin labels' /\ Ask("close") /\ UNCHANGED <<memory, history>>
      BY <1>2, <1>6 DEF Met
    <2>2. pc' = "close" /\ pc' \in FilingAt /\ UNCHANGED <<filing, memory, acted, gaps>>
      BY <2>1 DEF Ask, FilingAt, history
    <2> QED BY <1>1, <2>1, <2>2, AsksNothing, RoundsOn DEF Candidate
  <1>7. CASE Comment /\ ~TryFails
    <2>1. /\ pc = "comment" /\ Drop(filing) /\ Done /\ UNCHANGED <<run, github>>
          /\ IF OfReview(filing) THEN UNCHANGED <<acted, gaps, vain>>
                                 ELSE acted' = 0 /\ gaps' = 0 /\ vain' = 0
          /\ record' = CASE OfReview(filing) -> Counted
                         [] filing.kind = "split" -> Parent
                         [] filing.kind = "fits" -> [record EXCEPT !.finished = record.known]
      BY <1>7 DEF Comment
    <2>6. OfReview(filing) => record' = Counted
      BY <2>1 DEF OfReview
    <2>2. /\ pc' = "none" /\ filing' = NoVerdict /\ ~OfReview(NoVerdict) /\ AskInv' /\ ~GapHand /\ ~GapHand'
          /\ UNCHANGED <<labels, state>> /\ filing.swapped
      BY <2>1, NoVerdictTyped, AsksNothing DEF Done, Enter, OfReview, GapHand, github, SendInv
    <2>3. (Going' => Going) /\ (Candidate' <=> Candidate)
      BY <2>1, <2>2 DEF Going, Dispatching, Candidate
    <2>4. CASE OfReview(filing)
      <3>1. InHand = filing /\ ReviewInHand /\ MovedInHand /\ ~ReviewInHand' /\ run.kind = "none"
        BY <2>1, <2>2, <2>4
        DEF Drop, InHand, ReviewInHand, MovedInHand, SendInv, Going
      <3>2. Within(filing.counts[1], filing.counts[2])
        BY <2>2, <3>1 DEF RoundInv, Fits
      <3>3. record'.reviews = filing.counts[1] /\ record'.gaps = filing.counts[2]
        BY <2>4, <2>6 DEF Counted, Parent, NoParent
      <3>4. Within(record.reviews, record.gaps)'
        BY <2>1, <2>4, <3>2, <3>3 DEF Within
      <3>5. ~MovedInHand' /\ UNCHANGED <<acted, gaps>>
        BY <2>1, <2>4, <3>1 DEF MovedInHand
      <3>6. (Candidate' /\ acted' # 0) => FALSE
        BY <2>3, <3>1, <3>5 DEF RoundInv
      <3>7. acted' <= Most /\ gaps' <= MaxGaps /\ ("triage_todo" \in labels' => gaps' = 0)
        BY <2>2, <3>5 DEF RoundInv
      <3> QED BY <2>1, <2>2, <3>1, <3>4, <3>5, <3>6, <3>7 DEF RoundInv
    <2>5. CASE ~OfReview(filing)
      <3>1. review' = review /\ InHand = review /\ InHand' = review
        BY <2>1, <2>2, <2>5 DEF Drop, InHand
      <3>2. LaneInv'
        BY <1>7, LaneComment
      <3>3. acted \in Nat /\ gaps \in Nat /\ review.counts[1] \in Nat /\ review.counts[2] \in Nat
        BY CountsTyped
      <3>4. ReviewInHand' => Fits(review)
        BY <2>2, <3>1 DEF RoundInv, ReviewInHand
      <3>5. ReviewInHand' => \/ review.swapped
                             \/ /\ review.counts[1] >= 1
                                /\ review.kind = "gap" => review.counts[2] >= 1
        BY <3>3, <3>4 DEF Fits
      <3> QED BY <2>1, <2>2, <2>5, <3>1, <3>2, <3>5, RoundsAnew
    <2> QED BY <2>4, <2>5
  <1> QED BY <1>3, <1>4, <1>5, <1>6, <1>7

\* A split's own read, and a hand-back, are of no review.
LEMMA RoundsBack ==
    ASSUME LaneInv, RoundInv, SendInv, HandRead \/ HandBack PROVE RoundInv'
  <1>1. /\ ~OfReview(filing) /\ UNCHANGED <<run, record, acted, gaps, state>>
        /\ filing \in Filed /\ pc \in {"hand_read", "hand_back"}
        /\ filing.kind \in {"fits", "split"} => verdict.kind # "none"
    BY LaneHandBack DEF HandRead, HandBack, SendInv, LaneInv, HandsOK, OfReview, memory, history, github
  <1>2. ~GapHand
    BY <1>1 DEF GapHand
  <1>3. CASE HandRead
    <2>1. /\ UNCHANGED <<verdict, review, labels>> /\ verdict.kind # "none"
      BY <1>3 DEF HandRead, SendInv, memory, pending, github
    <2>2. \/ filing' = NoVerdict /\ pc' = "none"
          \/ UNCHANGED filing /\ pc' \in {"hand_back", "hand_over"} /\ why' = "verdict"
      BY <1>3 DEF HandRead, Done, Enter, HandBackFor
    <2>3. ~OfReview(filing') /\ ~GapHand' /\ AskInv' /\ (Going' => Going) /\ Settling'
      BY <1>1, <2>1, <2>2, NoVerdictTyped, AsksNothing
      DEF OfReview, GapHand, Going, Dispatching, Settling
    <2> QED BY <1>1, <1>2, <2>1, <2>3, RoundsIdle DEF Watched, Candidate
  <1>4. CASE HandBack
    <2>1. pc' = "none" /\ filing' = NoVerdict
      BY <1>4 DEF HandBack, Done, Enter
    <2>2. ~OfReview(filing') /\ ~GapHand' /\ AskInv' /\ (Going' => Going)
      BY <1>1, <2>1, NoVerdictTyped, AsksNothing DEF OfReview, GapHand, Going, Dispatching
    <2>3. CASE HandedBack /\ labels' = labels \ {"triage_todo"}
      <3>1. UNCHANGED review
        BY <1>1, <2>3 DEF HandedBack, Drop, pending
      <3>2. ~Candidate' /\ "triage_todo" \notin labels'
        BY <2>3 DEF Candidate
      <3> QED BY <1>1, <1>2, <2>2, <3>1, <3>2, RoundsIdle DEF Watched
    <2>4. CASE HandBackRefused /\ labels' \in {labels, labels \ {"triage_todo"}}
      <3>1. UNCHANGED <<verdict, review, note>>
        BY <2>4 DEF HandBackRefused, pending
      <3>2. /\ "triage_todo" \in labels' => UNCHANGED labels
            /\ Candidate' => Candidate
        BY <1>1, <2>4 DEF Candidate
      <3>3. Settling => Settling'
        BY <1>1, <1>2, <3>1 DEF Settling
      <3> QED BY <1>1, <1>2, <2>2, <3>1, <3>2, <3>3, RoundsIdle DEF Watched
    <2> QED BY <1>4, <2>3, <2>4 DEF HandBack
  <1> QED BY <1>3, <1>4

\* A hand-over: at the gap limit the review is counted, taken or refused.
LEMMA RoundsOver ==
    ASSUME LaneInv, RoundInv, SendInv, GapInv, HandInv, HandOver PROVE RoundInv'
  <1>1. /\ pc = "hand_over" /\ pc' = "none" /\ filing' = NoVerdict /\ UNCHANGED <<run, acted, gaps, state>>
        /\ record \in Parents /\ (Drop(filing) \/ UNCHANGED pending) /\ labels' \in {labels, Held}
    BY LaneHandOver DEF HandOver, Done, Enter, LaneInv, LaneOK
  <1>2. ~OfReview(filing') /\ ~GapHand' /\ AskInv' /\ (Going' => Going) /\ "triage_todo" \notin Held
    BY <1>1, NoVerdictTyped, AsksNothing, HeldOK DEF OfReview, GapHand, Going, Dispatching, LaneInv
  <1>3. /\ "triage_todo" \in labels' => labels' = labels
        /\ Candidate' => Candidate
    BY <1>1, <1>2 DEF Candidate
  <1>4. /\ ReviewInHand' => /\ ReviewInHand /\ InHand'.kind = InHand.kind
                            /\ InHand'.counts = InHand.counts /\ InHand'.swapped = InHand.swapped
        /\ (MovedInHand /\ UNCHANGED pending) => MovedInHand'
    <2>1. InHand' = review' /\ ~OfReview(NoVerdict)
      BY <1>2, NoVerdictTyped DEF InHand, OfReview
    <2>2. CASE GapHand
      <3>1. ~OfReview(review)
        BY <2>2 DEF SendInv, OfReview
      <3>2. ~OfReview(review')
        BY <1>1, <2>1, <3>1 DEF Drop, pending
      <3> QED BY <2>1, <2>2, <3>2 DEF ReviewInHand, MovedInHand
    <2>3. CASE OfReview(filing) /\ ~GapHand
      <3>1. /\ review.kind = filing.kind /\ review.counts = filing.counts /\ review.swapped = filing.swapped
        BY <1>1, <2>3 DEF SendInv
      <3>2. InHand = filing /\ OfReview(review)
        BY <2>3, <3>1 DEF InHand, OfReview
      <3>3. review' = review \/ ~OfReview(review')
        BY <1>1, <2>1 DEF Drop, pending
      <3>4. UNCHANGED pending => review' = review
        BY DEF pending
      <3> QED BY <1>2, <2>1, <2>3, <3>1, <3>2, <3>3, <3>4 DEF ReviewInHand, MovedInHand, OfReview
    <2>4. CASE ~OfReview(filing) /\ ~GapHand
      <3>1. InHand = review /\ review' = review
        BY <1>1, <2>4 DEF InHand, Drop, pending
      <3> QED BY <1>2, <2>1, <2>4, <3>1 DEF ReviewInHand, MovedInHand
    <2> QED BY <2>2, <2>3, <2>4
  <1>5. GapHand => OfReview(filing) /\ run.kind = "none" /\ record.known
    BY DEF GapHand, GapInv, SendInv, Going, HandInv, Reviewing
  <1>6. ASSUME NEW r \in Parents
        PROVE  /\ [r EXCEPT !.known = TRUE, !.handed = TRUE].reviews = r.reviews
               /\ [r EXCEPT !.known = TRUE, !.handed = TRUE].gaps = r.gaps
               /\ [r EXCEPT !.known = TRUE, !.reviews = r.reviews + 1].reviews = r.reviews + 1
               /\ [r EXCEPT !.known = TRUE, !.reviews = r.reviews + 1].gaps = r.gaps
    BY DEF Parents
  <1>7. CASE HandedOver /\ labels' = Held
    <2>1. ~Candidate' /\ "triage_todo" \notin labels'
      BY <1>2, <1>7 DEF Candidate
    <2>2. CASE why = "waiting"
      <3>1. UNCHANGED <<pending, record>> /\ ~GapHand
        BY <1>7, <2>2 DEF HandedOver, GapHand
      <3> QED BY <1>1, <1>2, <1>4, <2>1, <3>1, RoundsKept DEF Watched
    <2>3. CASE why # "waiting"
      <3>1. /\ record' = IF why = "gap_limit" THEN CountedAfter
                                              ELSE [record EXCEPT !.known = TRUE, !.handed = TRUE]
        BY <1>7, <2>3 DEF HandedOver
      <3>2. ~Watched(record')
        BY <1>1, <3>1, CountedAfterTyped, HandedTyped
      <3>3. run'.kind = "parent_review" => record'.reviews = record.reviews /\ record'.gaps = record.gaps
        BY <1>1, <1>5, <1>6, <3>1 DEF GapHand
      <3> QED BY <1>1, <1>2, <1>4, <2>1, <3>2, <3>3, RoundsKept
    <2> QED BY <2>2, <2>3
  <1>8. CASE HandOverRefused
    <2>1. UNCHANGED pending
      BY <1>8 DEF HandOverRefused
    <2>2. CASE why = "gap_limit"
      <3>1. /\ record' = [record EXCEPT !.known = TRUE, !.reviews = record.reviews + 1]
            /\ note' = TRUE
        BY <1>8, <2>2 DEF HandOverRefused, Owed
      <3>2. /\ record'.reviews = record.reviews + 1 /\ record'.gaps = record.gaps
            /\ record.known /\ Watched(record') => Watched(record)
        BY <1>1, <1>6, <3>1, CountedOnlyTyped
      <3>3. GapHand /\ ~MovedInHand /\ run.kind = "none" /\ record.known
        BY <1>1, <1>5, <2>2 DEF GapHand, MovedInHand, ReviewInHand
      <3>4. Watched(record') => Within(record.reviews, record.gaps)'
        BY <1>1, <3>2, <3>3 DEF RoundInv, Within
      <3>5. ~ReviewInHand' /\ ~MovedInHand'
        BY <1>4, <3>3 DEF ReviewInHand, MovedInHand
      <3>6. /\ Settling' /\ ~Going' /\ run'.kind = "none"
        BY <1>1, <1>2, <1>5, <3>1, <3>3 DEF Settling, Going, Dispatching
      <3>7. acted' <= Most /\ gaps' <= MaxGaps /\ ("triage_todo" \in labels' => gaps' = 0)
        BY <1>1, <1>3 DEF RoundInv
      <3> QED BY <1>2, <3>4, <3>5, <3>6, <3>7 DEF RoundInv
    <2>3. CASE why # "gap_limit"
      <3>1. UNCHANGED record /\ ~GapHand
        BY <1>8, <2>3 DEF HandOverRefused, GapHand
      <3>2. Settling => Settling'
        <4>1. verdict' = verdict
          BY <2>1 DEF pending
        <4>2. CASE why = "waiting"
          <5>1. UNCHANGED note
            BY <1>8, <4>2 DEF HandOverRefused
          <5>2. filing.kind \in {"fits", "split"} => verdict.kind # "none"
            BY <1>1 DEF SendInv
          <5> QED BY <3>1, <4>1, <5>1, <5>2 DEF Settling
        <4>3. CASE why = "verdict"
          <5>1. verdict.kind # "none"
            BY <1>1, <4>3 DEF SendInv
          <5> QED BY <4>1, <5>1 DEF Settling
        <4>4. CASE why \notin {"waiting", "verdict"}
          <5>1. note'
            BY <1>8, <4>4 DEF HandOverRefused, Owed
          <5> QED BY <5>1 DEF Settling
        <4> QED BY <4>2, <4>3, <4>4
      <3> QED BY <1>1, <1>2, <1>3, <1>4, <2>1, <3>1, <3>2, RoundsKept DEF Watched
    <2> QED BY <2>2, <2>3
  <1> QED BY <1>7, <1>8 DEF HandOver

\* With nothing in hand the review in hand is the one that waits, and no move of it landed
\* while a session may start.
LEMMA RoundsFree ==
    ASSUME RoundInv, ~GapHand, filing.kind = "none", review.kind = "none"
    PROVE  /\ ~MovedInHand /\ ~ReviewInHand
           /\ Watched(record) => Within(record.reviews, record.gaps)
  <1>1. ~OfReview(InHand)
    BY DEF InHand, OfReview
  <1> QED BY <1>1 DEF RoundInv, MovedInHand, ReviewInHand

\* What the candidates read: a request with nothing else in its way starts the count anew.
LEMMA RoundsCandidates ==
    ASSUME LaneInv, RoundInv, CandidatesRead PROVE RoundInv'
  <1>1. /\ UNCHANGED <<run, pending, record, github, acted, gaps>> /\ phase = "candidates"
        /\ pc = "none" /\ filing.kind = "none" /\ (filing' = NoVerdict \/ UNCHANGED filing)
    <2>1. /\ UNCHANGED <<run, pending, record, github>> /\ phase = "candidates" /\ pc = "none"
          /\ (filing' = NoVerdict \/ UNCHANGED filing)
      BY LaneCandidates DEF CandidatesRead
    <2>2. UNCHANGED <<acted, gaps>>
      BY DEF CandidatesRead, Passed, history
    <2> QED BY <2>1, <2>2 DEF LaneInv, Placed
  <1>2. /\ ~OfReview(filing) /\ ~OfReview(filing') /\ ~GapHand /\ (Candidate' <=> Candidate)
        /\ UNCHANGED <<review, verdict, labels>> /\ filing'.kind = "none"
    BY <1>1, NoVerdictTyped DEF OfReview, GapHand, Candidate, pending, github
  <1>3. ASSUME AskInv', ~GapHand', Candidate /\ note => note', Going' => Going \/ acted = 0 PROVE RoundInv'
    <2>1. (Candidate /\ Settling) => Settling'
      BY <1>1, <1>2, <1>3 DEF Settling
    <2> QED BY <1>1, <1>2, <1>3, <2>1, RoundsIdle DEF Watched
  <1>4. CASE Passed
    <2>1. pc' = "none" /\ note' = note
      BY <1>4 DEF Passed, Done, Enter, memory, chain
    <2> QED BY <1>1, <1>3, <2>1, AsksNothing DEF GapHand, Going, Dispatching
  <1>5. CASE ~Passed
    <2>1. Candidate /\ note => note'
      BY <1>5 DEF CandidatesRead, TakenBack
    <2>2. CASE Done
      <3>1. pc' = "none"
        BY <2>2 DEF Done, Enter
      <3> QED BY <1>1, <1>3, <2>1, <3>1, AsksNothing DEF GapHand, Going, Dispatching
    <2>3. CASE /\ Candidate /\ ~Busy
               /\ pc' = (CASE note -> "hand_over"
                         [] ~note /\ ~escape -> "approval"
                         [] OTHER -> IF steps = <<>> THEN "hand_back" ELSE "hand_over")
               /\ why' = (CASE note -> "note" [] ~note /\ escape -> "failed" [] OTHER -> "none")
               /\ UNCHANGED phase
      <3>1. pc' \in {"hand_over", "hand_back", "approval"} /\ why' \in {"note", "failed", "none"}
        BY <2>3
      <3>2. pc' = "approval" => ~note
        BY <2>3
      <3>3. pc' = "approval" => acted = 0 /\ gaps = 0
        <4>1. pc' = "approval" => ~Settling
          BY <1>1, <1>2, <2>3, <3>2 DEF Settling, Busy
        <4> QED BY <2>3, <4>1 DEF RoundInv, Candidate
      <3>4. AskInv' /\ ~GapHand' /\ (Going' => Going \/ acted = 0)
        BY <1>1, <2>3, <3>1, <3>3 DEF AskInv, GapHand, Going, Dispatching
      <3> QED BY <1>3, <2>1, <3>4
    <2> QED BY <1>5, <2>2, <2>3 DEF CandidatesRead
  <1> QED BY <1>4, <1>5

\* What a candidate's last reads decide: with its counts at nought whatever starts is within them.
LEMMA RoundsAsked ==
    ASSUME LaneInv, RoundInv, SendInv, Approval \/ RequestedReview PROVE RoundInv'
  <1>1. /\ filing.kind = "none" /\ run.kind = "none" /\ pc \in {"approval", "sub_issues"}
        /\ phase = "candidates" /\ acted = 0 /\ gaps = 0 /\ Going /\ review.kind = "none"
        /\ UNCHANGED <<labels, state, pending>>
    <2>1. phase = "candidates" /\ pc \in {"approval", "sub_issues"} /\ UNCHANGED <<labels, state>>
      BY DEF Approval, RequestedReview, LaneInv, Placed, github
    <2>2. UNCHANGED pending
      BY LaneApproval, LaneRequested
    <2>3. acted = 0 /\ gaps = 0 /\ Going
      BY <2>1 DEF RoundInv, AskInv, Going, Dispatching
    <2> QED BY <2>1, <2>2, <2>3 DEF SendInv
  <1>2. /\ UNCHANGED <<acted, gaps>> /\ (filing' = NoVerdict \/ UNCHANGED filing)
    BY DEF Approval, RequestedReview, Passed, AskToWait, HandBackFor, Ask, Start, Done, Enter, history
  <1>3. LaneInv'
    BY LaneApproval, LaneRequested
  <1>4. pc' \in {"none", "hand_back", "hand_over", "sub_issues"}
    BY DEF Approval, RequestedReview, Passed, AskToWait, HandBackFor, Ask, Start, Done, Enter
  <1>5. AskInv'
    BY <1>1, <1>2, <1>4 DEF AskInv
  <1>6. ~OfReview(InHand')
    BY <1>1, <1>2, NoVerdictTyped DEF InHand, OfReview, pending
  <1>7. ~ReviewInHand'
    BY <1>6 DEF ReviewInHand
  <1> QED BY <1>1, <1>2, <1>3, <1>5, <1>7, RoundsAnew

\* What the watch reads, and what its last reads decide: a review starts within the record.
LEMMA RoundsWatched ==
    ASSUME LaneInv, RoundInv, SendInv, WatchRead \/ WatchIssues \/ WatchApproval PROVE RoundInv'
  <1>1. /\ filing.kind = "none" /\ pc \in {"none", "issues", "approval"} /\ phase = "watch"
        /\ UNCHANGED <<labels, state, pending, acted, gaps>> /\ (filing' = NoVerdict \/ UNCHANGED filing)
        /\ phase' = "watch" \/ pc' = "none"
    <2>1. phase = "watch" /\ pc \in {"none", "issues", "approval"} /\ UNCHANGED github
      BY DEF WatchRead, WatchIssues, WatchApproval, LaneInv, Placed
    <2>2. UNCHANGED pending
      BY LaneWatchRead, LaneWatchIssues, LaneWatchApproval DEF memory
    <2>3. UNCHANGED <<acted, gaps>>
      BY DEF WatchRead, WatchIssues, WatchApproval, Passed, Start, history
    <2>4. /\ filing' = NoVerdict \/ UNCHANGED filing
          /\ phase' = phase \/ pc' = "none"
      BY DEF WatchRead, WatchIssues, WatchApproval, Passed, Start, OverCap, HandBackFor, Ask, Done, Enter
    <2> QED BY <2>1, <2>2, <2>3, <2>4 DEF SendInv, LaneInv, Placed, github
  <1>2. /\ ~OfReview(filing) /\ ~OfReview(filing') /\ ~GapHand /\ (Candidate' <=> Candidate)
        /\ UNCHANGED <<review, verdict, labels>> /\ filing'.kind = "none"
    BY <1>1, NoVerdictTyped DEF OfReview, GapHand, Candidate, pending
  <1>3. ASSUME AskInv', ~GapHand', ~Candidate \/ note' = note, Going' => Going \/ ~Candidate,
               UNCHANGED <<run, record>>
        PROVE  RoundInv'
    <2>1. (Candidate /\ Settling) => Settling'
      BY <1>1, <1>2, <1>3 DEF Settling
    <2> QED BY <1>1, <1>2, <1>3, <2>1, RoundsIdle DEF Watched
  <1>4. CASE Passed \/ (Done /\ UNCHANGED <<run, chain, record>>)
    <2>1. pc' = "none" /\ note' = note /\ UNCHANGED <<run, record>>
      BY <1>4 DEF Passed, Done, Enter, memory, chain
    <2> QED BY <1>3, <2>1, AsksNothing DEF GapHand, Going, Dispatching
  <1>5. ASSUME NEW reason \in {"limit", "refused"}, HandBackFor(reason, TRUE), UNCHANGED memory
        PROVE  RoundInv'
    <2>1. pc' = "hand_over" /\ why' = reason /\ reason # "gap_limit" /\ UNCHANGED <<note, run, record>>
      BY <1>5 DEF HandBackFor, memory, chain
    <2> QED BY <1>3, <2>1, AsksNothing DEF GapHand, Going, Dispatching
  <1>6. CASE WatchRead
    <2>1. pc = "none" /\ phase = "watch" /\ UNCHANGED run
      BY <1>6, LaneWatchRead DEF WatchRead
    <2>2. CASE state = "closed" /\ record' = [record EXCEPT !.finished = TRUE] /\ Done
      <3>1. pc' = "none" /\ ~Candidate
        BY <2>2 DEF Done, Enter, Candidate
      <3>2. /\ ~Watched(record') /\ record'.reviews = record.reviews /\ record'.gaps = record.gaps
        BY <2>2 DEF Watched, LaneInv, LaneOK, Parents
      <3>3. AskInv' /\ ~GapHand' /\ (Going' => Going)
        BY <2>1, <3>1, AsksNothing DEF GapHand, Going, Dispatching
      <3> QED BY <1>1, <1>2, <2>1, <3>1, <3>2, <3>3, RoundsIdle
    <2>3. CASE /\ Watched(record) /\ UNCHANGED <<chain, record>> /\ run.kind = "none" /\ review.kind = "none"
               /\ (note \/ ParentReviewDue) /\ pc' = "issues" /\ why' = (IF note THEN "note" ELSE "none")
      <3>1. Within(record.reviews, record.gaps)
        BY <1>1, <1>2, <2>3, RoundsFree
      <3>2. AskInv' /\ ~GapHand'
        BY <1>1, <2>3, <3>1 DEF AskInv, Within, GapHand
      <3>3. Going' => ~Candidate
        BY <2>1, <2>3 DEF Going, Dispatching, ParentReviewDue, Candidate
      <3> QED BY <1>3, <2>1, <2>3, <3>2, <3>3 DEF chain
    <2>4. \/ Passed \/ (Done /\ UNCHANGED <<run, chain, record>>)
          \/ state = "closed" /\ record' = [record EXCEPT !.finished = TRUE] /\ Done
          \/ /\ Watched(record) /\ UNCHANGED <<chain, record>> /\ run.kind = "none" /\ review.kind = "none"
             /\ (note \/ ParentReviewDue) /\ pc' = "issues" /\ why' = (IF note THEN "note" ELSE "none")
      BY <1>6 DEF WatchRead
    <2> QED BY <1>4, <2>2, <2>3, <2>4
  <1>7. CASE WatchIssues
    <2>1. pc = "issues"
      BY <1>7 DEF WatchIssues
    <2>2. CASE why = "note" /\ Ask("hand_over") /\ UNCHANGED memory
      <3>1. pc' = "hand_over" /\ why' = "note" /\ UNCHANGED <<note, run, record>>
        BY <2>2 DEF Ask, memory, chain
      <3> QED BY <1>3, <3>1, AsksNothing DEF GapHand, Going, Dispatching
    <2>3. CASE OverCap /\ UNCHANGED memory
      BY <1>5, <2>3 DEF OverCap
    <2>4. CASE why # "note" /\ ~(record.reviews >= MaxReviews) /\ pc' = "approval" /\ UNCHANGED memory
      <3>1. UNCHANGED <<note, run, record>> /\ Going /\ ~GapHand'
        BY <2>1, <2>4 DEF memory, chain, Going, Dispatching, GapHand
      <3>2. record.reviews < MaxReviews
        BY <2>4, CountsTyped, MostTyped
      <3>3. Within(record.reviews, record.gaps)
        BY <1>1, <2>1, <2>4 DEF RoundInv, AskInv
      <3>4. AskInv'
        BY <1>1, <2>4, <3>1, <3>2, <3>3 DEF AskInv, Within
      <3> QED BY <1>3, <3>1, <3>4
    <2>5. \/ Passed
          \/ why = "note" /\ Ask("hand_over") /\ UNCHANGED memory
          \/ OverCap /\ UNCHANGED memory
          \/ why # "note" /\ ~(record.reviews >= MaxReviews) /\ pc' = "approval" /\ UNCHANGED memory
      BY <1>7 DEF WatchIssues
    <2> QED BY <1>4, <2>2, <2>3, <2>4, <2>5
  <1>8. CASE WatchApproval
    <2>1. pc = "approval" /\ Going /\ Within(record.reviews, record.gaps) /\ record.reviews < MaxReviews
      BY <1>1, <1>8 DEF WatchApproval, RoundInv, AskInv, Going, Dispatching
    <2>2. CASE HandBackFor("refused", TRUE) /\ UNCHANGED memory
      BY <1>5, <2>2
    <2>3. CASE Start("parent_review", seen) /\ UNCHANGED record
      <3>1. pc' = "none" /\ filing' = NoVerdict /\ run'.kind = "parent_review" /\ UNCHANGED note
        BY <2>3 DEF Start, Done, Enter, chain
      <3>2. acted < Most
        BY <2>1, CountsTyped, MostTyped DEF Within
      <3>3. review.kind = "none"
        BY <2>1 DEF SendInv
      <3>4. ~MovedInHand /\ ~ReviewInHand' /\ ~MovedInHand' /\ ~GapHand'
        BY <1>1, <1>2, <3>1, <3>3, RoundsFree DEF InHand, OfReview, ReviewInHand, MovedInHand, GapHand
      <3>5. Within(record.reviews, record.gaps)'
        BY <1>1, <2>1, <2>3 DEF Within
      <3>6. (Candidate' /\ acted' # 0) => Settling'
        <4>1. (Candidate /\ acted # 0) => Settling
          BY DEF RoundInv
        <4> QED BY <1>1, <1>2, <3>1, <4>1 DEF Settling
      <3>7. Going' => ~Candidate' \/ acted' = 0
        BY <1>1, <1>2, <2>1 DEF RoundInv
      <3>8. acted' <= Most /\ gaps' <= MaxGaps /\ ("triage_todo" \in labels' => gaps' = 0)
        BY <1>1 DEF RoundInv
      <3> QED BY <1>1, <3>1, <3>2, <3>4, <3>5, <3>6, <3>7, <3>8, AsksNothing DEF RoundInv
    <2> QED BY <1>4, <1>8, <2>2, <2>3 DEF WatchApproval
  <1> QED BY <1>6, <1>7, <1>8

\* What a review's session answers counts one more than the record, and a gap round if it is one.
LEMMA VerdictsCount ==
    ASSUME LaneInv, NEW v \in Verdicts
    PROVE  /\ v.counts[1] = record.reviews + 1 /\ ~v.swapped
           /\ v.counts[2] = IF v.kind = "gap" THEN record.gaps + 1 ELSE record.gaps
  <1> DEFINE counts == <<record.reviews + 1, record.gaps>>
  <1>1. PICK kind, d : v = Verdict(kind, d, run.seen,
                                   IF kind = "gap" THEN <<counts[1], counts[2] + 1>> ELSE counts)
    BY DEF Verdicts
  <1>2. /\ v.kind = kind /\ ~v.swapped
        /\ v.counts = IF kind = "gap" THEN <<counts[1], counts[2] + 1>> ELSE counts
    BY <1>1 DEF Verdict
  <1> QED BY <1>2

\* A session over: its verdict fits what is counted, and a failure is told of nothing here.
LEMMA RoundsExit ==
    ASSUME LaneInv, RoundInv, SendInv, Exit PROVE RoundInv'
  <1>1. /\ UNCHANGED <<github, pending, record>> /\ run' = NoRun /\ run.kind # "none"
        /\ filing.kind = "none" /\ pc = "none"
    BY LaneExit DEF Exit, LaneInv, Placed
  <1>2. /\ Going /\ review.kind = "none" /\ ~GapHand /\ run'.kind = "none" /\ ~OfReview(filing)
        /\ UNCHANGED <<labels, state, review, verdict>>
    BY <1>1 DEF Going, SendInv, GapHand, NoRun, OfReview, pending, github
  <1>3. /\ ~MovedInHand /\ ~ReviewInHand /\ (Watched(record) => Within(record.reviews, record.gaps))
        /\ (Candidate' <=> Candidate) /\ (~Candidate \/ acted = 0)
    BY <1>1, <1>2, RoundsFree DEF RoundInv, Candidate
  <1>4. UNCHANGED <<acted, gaps>>
    BY DEF Exit, ExitWithVerdict, ExitFailed, history
  <1>5. ASSUME pc' \in {"none", "hand_over", "hand_back"}, pc' = "hand_over" => why' = "failed",
               filing' = filing
        PROVE  RoundInv'
    <2>1. ~GapHand' /\ ~Going' /\ AskInv'
      BY <1>2, <1>5, AsksNothing DEF GapHand, Going, Dispatching
    <2> QED BY <1>1, <1>2, <1>3, <1>4, <1>5, <2>1, RoundsIdle DEF Watched
  <1>6. CASE ExitWithVerdict
    <2>1. filing' \in Verdicts /\ pc' = "owed"
      BY <1>6 DEF ExitWithVerdict
    <2>2. /\ filing'.counts[1] = record.reviews + 1 /\ ~filing'.swapped
          /\ filing'.counts[2] = IF filing'.kind = "gap" THEN record.gaps + 1 ELSE record.gaps
          /\ (OfReview(filing') <=> run.kind = "parent_review")
      BY <1>1, <2>1, VerdictsCount, VerdictsTyped
    <2>3. ~GapHand' /\ ~Going' /\ AskInv'
      BY <1>2, <2>1, AsksNothing DEF GapHand, Going, Dispatching
    <2>4. CASE OfReview(filing')
      <3>1. Within(record.reviews, record.gaps) /\ acted < Most /\ InHand' = filing'
        BY <2>2, <2>4 DEF RoundInv, InHand
      <3>2. acted < record.reviews + 1 /\ gaps <= record.gaps /\ gaps + 1 <= record.gaps + 1
        BY <3>1, CountsTyped DEF Within
      <3>3. Fits(InHand)'
        BY <1>4, <2>2, <3>1, <3>2 DEF Fits
      <3>4. ~MovedInHand' /\ Within(record.reviews, record.gaps)'
        BY <1>1, <1>4, <2>2, <3>1 DEF MovedInHand, Within
      <3>5. acted' <= Most /\ gaps' <= MaxGaps /\ ("triage_todo" \in labels' => gaps' = 0)
        BY <1>2, <1>4 DEF RoundInv
      <3> QED BY <1>2, <1>3, <1>4, <2>3, <3>3, <3>4, <3>5 DEF RoundInv
    <2>5. CASE ~OfReview(filing')
      BY <1>1, <1>2, <1>3, <1>4, <2>3, <2>5, RoundsIdle DEF Watched
    <2> QED BY <2>4, <2>5
  <1>7. CASE UNCHANGED control
    BY <1>1, <1>5, <1>7 DEF control, inHand
  <1>8. CASE ExitFailed
    BY <1>5, <1>7, <1>8 DEF ExitFailed
  <1> QED BY <1>6, <1>7, <1>8 DEF Exit

\* What a tick begins with, and what it takes up again.
LEMMA RoundsTaken ==
    ASSUME LaneInv, RoundInv, SendInv, Tick \/ Refresh \/ Retry PROVE RoundInv'
  <1>1. /\ UNCHANGED <<github, pending, record, acted, gaps, note>> /\ pc = "none" /\ filing.kind = "none"
        /\ run'.kind = run.kind
    <2>1. CASE Tick
      BY <2>1 DEF Tick, LaneInv, Placed, memory, chain, history
    <2>2. CASE Refresh
      BY <2>2, LaneRefresh DEF Refresh, Passed, SendInv, LaneInv, Placed, memory, chain, history
    <2>3. CASE Retry
      BY <2>3 DEF Retry, LaneInv, Placed, memory, chain, history
    <2> QED BY <2>1, <2>2, <2>3
  <1>2. /\ ~GapHand /\ ~OfReview(filing) /\ InHand = review /\ (Candidate' <=> Candidate)
        /\ UNCHANGED <<labels, review, verdict>>
    BY <1>1 DEF GapHand, OfReview, InHand, Candidate, github, pending
  <1>3. \/ pc' = "none" /\ filing' = NoVerdict
        \/ pc' = "owed" /\ (filing' = verdict \/ (filing' = review /\ OfReview(review)))
    <2>1. CASE Tick \/ Refresh
      BY <2>1, LaneTick, LaneRefresh
    <2>2. CASE Retry
      <3>1. \/ Done
            \/ pc' = "owed" /\ (filing' = verdict \/ (filing' = review /\ review.kind # "none"))
        <4>1. CASE phase = "triage"
          BY <2>2, <4>1 DEF Retry
        <4>2. CASE phase = "review"
          BY <2>2, <4>2 DEF Retry
        <4> QED BY <2>2, <4>1, <4>2 DEF Retry
      <3>2. review.kind # "none" => OfReview(review)
        BY DEF LaneInv, PendOK, OfReview
      <3> QED BY <3>1, <3>2 DEF Done, Enter
    <2> QED BY <2>1, <2>2
  <1>4. ~GapHand' /\ AskInv' /\ (Going' => Going)
    BY <1>1, <1>3, AsksNothing DEF GapHand, Going, Dispatching
  <1>5. Settling => Settling'
    BY <1>1, <1>2 DEF Settling
  <1>6. InHand' = review
    BY <1>2, <1>3, NoVerdictTyped DEF InHand, OfReview, LaneInv, PendOK
  <1> QED BY <1>1, <1>2, <1>4, <1>5, <1>6, RoundsSame DEF Watched

\* A step in which the worker does nothing, and no human touches the issue.
LEMMA RoundsStay ==
    ASSUME RoundInv, UNCHANGED <<state, labels, pending, note, record, control, acted, gaps>>,
           run'.kind = run.kind
    PROVE  RoundInv'
  <1>1. UNCHANGED <<phase, pc, why, filing, verdict, review>>
    BY DEF control, inHand, pending
  <1>2. /\ (GapHand' <=> GapHand) /\ (Going' <=> Going) /\ (Candidate' <=> Candidate) /\ InHand' = InHand
    BY <1>1 DEF GapHand, Going, Dispatching, Candidate, InHand
  <1>3. (ReviewInHand' <=> ReviewInHand) /\ (MovedInHand' <=> MovedInHand)
    BY <1>2 DEF ReviewInHand, MovedInHand, OfReview
  <1>4. Settling' <=> Settling
    BY <1>1, <1>2 DEF Settling
  <1>5. AskInv'
    BY <1>1 DEF RoundInv, AskInv, Within
  <1> QED BY <1>2, <1>3, <1>4, <1>5, RoundsKept DEF Watched

\* What humans do starts the count anew where they touch the issue, and else leaves it.
LEMMA RoundsLive ==
    ASSUME LaneInv, RoundInv, Human \/ StepCloses PROVE RoundInv'
  <1>1. UNCHANGED <<memory, control>> /\ LaneInv'
    BY LaneHumans
  <1>2. UNCHANGED <<run, verdict, review, note, record, phase, pc, why, filing>>
    BY <1>1 DEF memory, control, inHand, pending, chain
  <1>3. CASE UNCHANGED <<state, labels, acted, gaps>>
    BY <1>1, <1>2, <1>3, RoundsStay DEF memory
  <1>4. CASE acted' = 0 /\ gaps' = 0
    <2>1. InHand' = InHand /\ (ReviewInHand' <=> ReviewInHand)
      BY <1>2 DEF InHand, ReviewInHand, GapHand, OfReview
    <2>2. ReviewInHand' => \/ InHand.swapped
                           \/ /\ InHand.counts[1] >= 1
                              /\ InHand.kind = "gap" => InHand.counts[2] >= 1
      <3>1. ReviewInHand => Fits(InHand)
        BY DEF RoundInv
      <3> QED BY <2>1, <3>1, CountsTyped DEF Fits
    <2>3. Within(record.reviews, record.gaps)'
      BY <1>2, <1>4, CountsTyped DEF Within
    <2>4. AskInv'
      BY <1>2, <1>4, <2>3 DEF RoundInv, AskInv
    <2> QED BY <1>1, <1>4, <2>1, <2>2, <2>4, RoundsAnew
  <1> QED BY <1>3, <1>4 DEF Human, StepCloses, HumanAsks, HumanRelabels, HumanCloses, HumanReopensStep,
                            HumanAddsStep, HumanUnlinks, Touched, history

\* The next process counts what the record it finds says, and anew where a request is open.
LEMMA RoundsRestart ==
    ASSUME LaneInv, RoundInv, Restart PROVE RoundInv'
  <1>1. /\ pc' = "none" /\ filing' = NoVerdict /\ review' = NoVerdict /\ run' = NoRun
        /\ record' = (IF stored.finished THEN NoParent ELSE stored) /\ UNCHANGED labels
    BY LaneRestart DEF github
  <1>2. /\ stored.reviews \in Nat /\ stored.gaps \in Nat
        /\ acted' = IF "triage_todo" \in labels THEN 0
                    ELSE IF stored.reviews < acted THEN stored.reviews ELSE acted
        /\ gaps' = IF "triage_todo" \in labels THEN 0
                   ELSE IF stored.gaps < gaps THEN stored.gaps ELSE gaps
    BY DEF Restart, LaneInv, LaneOK, Parents
  <1>3. acted' <= acted /\ acted' <= stored.reviews /\ gaps' <= gaps /\ gaps' <= stored.gaps
        /\ acted' \in Nat /\ gaps' \in Nat
    BY <1>2, CountsTyped
  <1>4. acted <= Most /\ gaps <= MaxGaps
    BY DEF RoundInv
  <1>5. acted' <= Most /\ gaps' <= MaxGaps
    BY <1>3, <1>4, CountsTyped, MostTyped
  <1>6. Watched(record') => record' = stored
    BY <1>1, ParentsTyped DEF Watched
  <1>7. Watched(record') => Within(record.reviews, record.gaps)'
    BY <1>3, <1>6 DEF Within
  <1>8. /\ ~ReviewInHand' /\ ~GapHand' /\ AskInv' /\ run'.kind = "none" /\ ~MovedInHand' /\ ~Going'
    BY <1>1, NoVerdictTyped, AsksNothing
    DEF InHand, OfReview, ReviewInHand, MovedInHand, GapHand, NoRun, Going, Dispatching
  <1>9. ("triage_todo" \in labels' => gaps' = 0) /\ (Candidate' => acted' = 0)
    BY <1>1, <1>2 DEF Candidate
  <1> QED BY <1>5, <1>7, <1>8, <1>9 DEF RoundInv

\* A step of the lane leaves what is counted within its caps.
LEMMA RoundsNext ==
    ASSUME LaneInv, RoundInv, SendInv, HoldInv, GapInv, HandInv, [Next]_vars PROVE RoundInv'
  <1>1. CASE SessionEnds
    BY <1>1, LaneSessionEnds, RoundsStay DEF SessionEnds, github, chain, history
  <1>2. CASE Expire
    BY <1>2, RoundsStay DEF Expire, github, history
  <1>3. CASE Store
    BY <1>3, RoundsStay DEF Store, github, memory, chain, history
  <1>4. CASE UNCHANGED vars
    BY <1>4, RoundsStay DEF vars, github, memory, chain, history
  <1> QED
    BY <1>1, <1>2, <1>3, <1>4, RoundsTaken, RoundsExit, RoundsRead, RoundsDraft, RoundsFiled, RoundsBack,
       RoundsOver, RoundsCandidates, RoundsAsked, RoundsWatched, RoundsLive, RoundsRestart
    DEF Next, Worker

\* What a human's request may cost before a human is asked again is bounded on every path: the
\* reviews acted on and the gap rounds by their caps (parent_review_due, past_gap_limit), the
\* failed sessions by max_attempts and the one under way as `triage_todo` comes off
\* (_triage_failed), whatever GitHub refuses and however often the worker restarts.
THEOREM SessionsStayBounded == Spec => []SessionsBounded
  <1> DEFINE Inv == LaneInv /\ GapInv /\ HandInv /\ HoldInv /\ SendInv /\ FailInv /\ RoundInv
  <1>1. Init => Inv
    <2> SUFFICES ASSUME Init PROVE Inv
      OBVIOUS
    <2>1. LaneInv /\ MaxAttempts \in Nat \ {0}
      BY LaneInit, TriageAssumption
    <2>2. /\ run.kind = "none" /\ run.stop = "none" /\ verdict.kind = "none" /\ review.kind = "none"
          /\ filing.kind = "none" /\ pc = "none" /\ phase = "idle" /\ ~Watched(record)
          /\ filing = NoVerdict /\ review = NoVerdict /\ state = "open"
      BY NoVerdictTyped, ParentsTyped DEF Init, NoRun, Watched
    <2>3. /\ ~Going /\ ~GapHand /\ ~OfReview(filing) /\ ~OfReview(review) /\ ~ReviewInHand
          /\ ~MovedInHand /\ ~MoveLanded /\ ~ToWait /\ ~Triaging /\ ~Reviewing
      BY <2>2 DEF Going, Dispatching, GapHand, OfReview, ReviewInHand, MovedInHand, InHand, MoveLanded,
                  ToWait, Triaging, Reviewing
    <2>4. GapInv /\ HandInv /\ HoldInv /\ SendInv
      BY <2>2, <2>3 DEF Init, GapInv, HandInv, HoldInv, SendInv
    <2>5. acted = 0 /\ gaps = 0 /\ vain = 0 /\ failures = 0
      BY DEF Init
    <2>6. InTime /\ vain <= MaxAttempts + 1 /\ failures < MaxAttempts
      BY <2>1, <2>5 DEF InTime
    <2>7. FailInv
      BY <2>2, <2>3, <2>5, <2>6 DEF FailInv
    <2>8. acted <= Most /\ gaps <= MaxGaps
      BY <2>5, MostTyped
    <2>9. AskInv
      BY <2>2 DEF AskInv
    <2>10. RoundInv
      BY <2>2, <2>3, <2>5, <2>8, <2>9 DEF RoundInv
    <2> QED BY <2>1, <2>4, <2>7, <2>10
  <1>2. Inv /\ [Next]_vars => Inv'
    BY LaneNext, GapNext, HandNext, HoldNext, SendNext, FailsNext, RoundsNext
  <1>3. Inv => SessionsBounded
    <2> SUFFICES ASSUME Inv PROVE SessionsBounded
      OBVIOUS
    <2>1. acted <= MaxReviews \/ (acted = 1 /\ MaxReviews = 0)
      <3>1. acted <= Most
        BY DEF RoundInv
      <3> QED BY <3>1, CountsTyped, MostTyped DEF Most
    <2> QED BY <2>1 DEF SessionsBounded, RoundsEnd, GapsEnd, FailsInBounds, RoundInv, FailInv
  <1> QED BY <1>1, <1>2, <1>3, PTL DEF Spec
=============================================================================
