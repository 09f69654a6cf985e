----------------------------- MODULE TurnsProofs -----------------------------
(***************************************************************************)
(* A session that is resumed was interrupted, and the end of a run is      *)
(* complete, of its process and of what is told of it, for any number of   *)
(* runs and turns and of failures, kills and acts of humans.               *)
(***************************************************************************)
EXTENDS Turns, TLAPS

Categories == {"workspace_error", "hook_error", "github_error", "claude_not_found", "run_timeout",
               "turn_timeout", "cancelled", "turn_failed", "budget_exceeded", "process_exit", "ok",
               "none"}
Reasons == {"verdict", "max_turns", "issue_moved", "blocked"}
Stops == Reasons \cup {"none", "cancelled", "run_timeout", "failure"}
Causes == {"none", "moved", "stalled", "shutdown"}
Verdicts == {"none", "cancelled", "run_timeout", "turn_timeout"}
Runs == [id : 0..MaxRuns, session : 0..MaxRuns, phase : Phases, resuming : BOOLEAN,
         turn : 0..MaxTurns, cancel : BOOLEAN, cause : Causes, late : BOOLEAN, hard : BOOLEAN,
         verdict : Verdicts, outcome : Outcomes, stop : Stops]
Claudes == [leader : {"none", "live", "clean", "failed"}, piped : BOOLEAN, child : BOOLEAN,
            said : {"nothing", "success", "budget", "error", "verdict", "blocked"}]
Records == [session : 0..MaxRuns, last : {"none"} \cup Outcomes]

\* The types of the variables, and a turn that is begun is one of those the run has.
TypesOK ==
    /\ kind \in Kinds /\ label \in {"todo", "in_progress", "moved"} /\ held \in BOOLEAN
    /\ worker \in {"up", "stopping", "down"}
    /\ run \in Runs
    /\ run.phase \in {"idle", "refresh", "closing", "over"} \/ run.turn < MaxTurns
    /\ claude \in Claudes
    /\ record \in Records
    /\ row \in [RunIds -> {"none", "open"} \cup Outcomes]
    /\ of \in [RunIds -> 0..MaxRuns]
    /\ fate \in [RunIds -> {"kept", "cut", "abandoned", "unsaved"}]

\* The runs started one after another, each on its own session or on an earlier run's.
StartedInOrder == \A r, q \in RunIds : q < r /\ row[r] # "none" => row[q] # "none"
SessionsKnown ==
    /\ \A r \in RunIds : IF row[r] = "none" THEN of[r] = 0 /\ fate[r] = "kept"
                                            ELSE of[r] \in 1..r
    /\ record.session # 0 => row[record.session] # "none"
    /\ kind = "triage" => record = NoRecord

\* The run going is the newest, open until it is over, and lost once its task is cancelled.
RunIsNewest ==
    /\ run.phase = "idle" => run = NoRun
    /\ run.phase # "idle" => /\ run.id \in RunIds /\ row[run.id] # "none"
                             /\ of[run.id] = run.session
                             /\ \A r \in RunIds : r > run.id => row[r] = "none"
    /\ Live => row[run.id] = "open"
    /\ run.hard => run.phase \in {"kill", "closing", "over"}
    /\ Live /\ ~run.hard => fate[run.id] = "kept"
    /\ run.hard => fate[run.id] \in {"cut", "abandoned"}

\* What the rows say of run q lets its session be resumed.
Interrupted(q) == row[q] \in {"open", "cancelled"} \/ fate[q] = "unsaved"

\* A record that lets its session be resumed agrees with the row of the session's last run.
RecordTells ==
    record.session # 0 /\ record.last \in {"none", "cancelled"}
      => \A q \in RunIds :
            of[q] = record.session /\ (\A p \in RunIds : p > q => of[p] # record.session)
              => Interrupted(q)

TurnsBooks == StartedInOrder /\ SessionsKnown /\ RecordTells /\ ResumesInterrupted
TurnsInv == TypesOK /\ RunIsNewest /\ TurnsBooks /\ EndsWell
-----------------------------------------------------------------------------
\* A run is its fields.
LEMMA RunFields ==
    ASSUME NEW r \in Runs
    PROVE  /\ r = [id |-> r.id, session |-> r.session, phase |-> r.phase, resuming |-> r.resuming,
                   turn |-> r.turn, cancel |-> r.cancel, cause |-> r.cause, late |-> r.late,
                   hard |-> r.hard, verdict |-> r.verdict, outcome |-> r.outcome, stop |-> r.stop]
           /\ r.id \in 0..MaxRuns /\ r.session \in 0..MaxRuns /\ r.phase \in Phases
           /\ r.resuming \in BOOLEAN /\ r.turn \in 0..MaxTurns /\ r.cancel \in BOOLEAN
           /\ r.cause \in Causes /\ r.late \in BOOLEAN /\ r.hard \in BOOLEAN
           /\ r.verdict \in Verdicts /\ r.outcome \in Outcomes /\ r.stop \in Stops
  BY DEF Runs

\* The run s is as r, further on: of the same session, and cancelled as a task or not as r is.
Further(r, s) == s \in Runs /\ s.id = r.id /\ s.session = r.session /\ s.hard = r.hard

\* A run with a field of it set is the same run, further on.
LEMMA SetPhase ==
    ASSUME NEW r \in Runs, NEW phase \in Phases
    PROVE  LET s == [r EXCEPT !.phase = phase]
           IN Further(r, s) /\ s.phase = phase /\ s.turn = r.turn /\ s.outcome = r.outcome
<1>1. [r EXCEPT !.phase = phase]
        = [id |-> r.id, session |-> r.session, phase |-> phase, resuming |-> r.resuming,
           turn |-> r.turn, cancel |-> r.cancel, cause |-> r.cause, late |-> r.late,
           hard |-> r.hard, verdict |-> r.verdict, outcome |-> r.outcome, stop |-> r.stop]
  BY RunFields
<1> QED
  BY <1>1, RunFields DEF Runs, Further
LEMMA SetTurn ==
    ASSUME NEW r \in Runs, NEW turn \in 0..MaxTurns
    PROVE  LET s == [r EXCEPT !.turn = turn]
           IN Further(r, s) /\ s.turn = turn /\ s.phase = r.phase
<1>1. [r EXCEPT !.turn = turn]
        = [id |-> r.id, session |-> r.session, phase |-> r.phase, resuming |-> r.resuming,
           turn |-> turn, cancel |-> r.cancel, cause |-> r.cause, late |-> r.late,
           hard |-> r.hard, verdict |-> r.verdict, outcome |-> r.outcome, stop |-> r.stop]
  BY RunFields
<1> QED
  BY <1>1, RunFields DEF Runs, Further
LEMMA SetCancel ==
    ASSUME NEW r \in Runs, NEW cancel \in BOOLEAN
    PROVE  LET s == [r EXCEPT !.cancel = cancel]
           IN Further(r, s) /\ s.cancel = cancel /\ s.phase = r.phase /\ s.turn = r.turn
<1>1. [r EXCEPT !.cancel = cancel]
        = [id |-> r.id, session |-> r.session, phase |-> r.phase, resuming |-> r.resuming,
           turn |-> r.turn, cancel |-> cancel, cause |-> r.cause, late |-> r.late,
           hard |-> r.hard, verdict |-> r.verdict, outcome |-> r.outcome, stop |-> r.stop]
  BY RunFields
<1> QED
  BY <1>1, RunFields DEF Runs, Further
LEMMA SetCause ==
    ASSUME NEW r \in Runs, NEW cause \in Causes
    PROVE  LET s == [r EXCEPT !.cause = cause]
           IN Further(r, s) /\ s.cause = cause /\ s.phase = r.phase /\ s.turn = r.turn
<1>1. [r EXCEPT !.cause = cause]
        = [id |-> r.id, session |-> r.session, phase |-> r.phase, resuming |-> r.resuming,
           turn |-> r.turn, cancel |-> r.cancel, cause |-> cause, late |-> r.late,
           hard |-> r.hard, verdict |-> r.verdict, outcome |-> r.outcome, stop |-> r.stop]
  BY RunFields
<1> QED
  BY <1>1, RunFields DEF Runs, Further
LEMMA SetLate ==
    ASSUME NEW r \in Runs, NEW late \in BOOLEAN
    PROVE  LET s == [r EXCEPT !.late = late]
           IN Further(r, s) /\ s.late = late /\ s.phase = r.phase /\ s.turn = r.turn
<1>1. [r EXCEPT !.late = late]
        = [id |-> r.id, session |-> r.session, phase |-> r.phase, resuming |-> r.resuming,
           turn |-> r.turn, cancel |-> r.cancel, cause |-> r.cause, late |-> late,
           hard |-> r.hard, verdict |-> r.verdict, outcome |-> r.outcome, stop |-> r.stop]
  BY RunFields
<1> QED
  BY <1>1, RunFields DEF Runs, Further
LEMMA SetHard ==
    ASSUME NEW r \in Runs, NEW hard \in BOOLEAN
    PROVE  LET s == [r EXCEPT !.hard = hard]
           IN s \in Runs /\ s.id = r.id /\ s.session = r.session /\ s.hard = hard /\ s.phase = r.phase /\ s.turn = r.turn
<1>1. [r EXCEPT !.hard = hard]
        = [id |-> r.id, session |-> r.session, phase |-> r.phase, resuming |-> r.resuming,
           turn |-> r.turn, cancel |-> r.cancel, cause |-> r.cause, late |-> r.late,
           hard |-> hard, verdict |-> r.verdict, outcome |-> r.outcome, stop |-> r.stop]
  BY RunFields
<1> QED
  BY <1>1, RunFields DEF Runs, Further
LEMMA SetVerdict ==
    ASSUME NEW r \in Runs, NEW verdict \in Verdicts
    PROVE  LET s == [r EXCEPT !.verdict = verdict]
           IN Further(r, s) /\ s.verdict = verdict /\ s.phase = r.phase /\ s.turn = r.turn
<1>1. [r EXCEPT !.verdict = verdict]
        = [id |-> r.id, session |-> r.session, phase |-> r.phase, resuming |-> r.resuming,
           turn |-> r.turn, cancel |-> r.cancel, cause |-> r.cause, late |-> r.late,
           hard |-> r.hard, verdict |-> verdict, outcome |-> r.outcome, stop |-> r.stop]
  BY RunFields
<1> QED
  BY <1>1, RunFields DEF Runs, Further
LEMMA SetOutcome ==
    ASSUME NEW r \in Runs, NEW outcome \in Outcomes
    PROVE  LET s == [r EXCEPT !.outcome = outcome]
           IN Further(r, s) /\ s.outcome = outcome /\ s.phase = r.phase /\ s.turn = r.turn
<1>1. [r EXCEPT !.outcome = outcome]
        = [id |-> r.id, session |-> r.session, phase |-> r.phase, resuming |-> r.resuming,
           turn |-> r.turn, cancel |-> r.cancel, cause |-> r.cause, late |-> r.late,
           hard |-> r.hard, verdict |-> r.verdict, outcome |-> outcome, stop |-> r.stop]
  BY RunFields
<1> QED
  BY <1>1, RunFields DEF Runs, Further
LEMMA SetStop ==
    ASSUME NEW r \in Runs, NEW stop \in Stops
    PROVE  LET s == [r EXCEPT !.stop = stop]
           IN Further(r, s) /\ s.stop = stop /\ s.phase = r.phase /\ s.turn = r.turn
<1>1. [r EXCEPT !.stop = stop]
        = [id |-> r.id, session |-> r.session, phase |-> r.phase, resuming |-> r.resuming,
           turn |-> r.turn, cancel |-> r.cancel, cause |-> r.cause, late |-> r.late,
           hard |-> r.hard, verdict |-> r.verdict, outcome |-> r.outcome, stop |-> stop]
  BY RunFields
<1> QED
  BY <1>1, RunFields DEF Runs, Further

\* What fails or stops a run closes it.
LEMMA Closes ==
    ASSUME NEW r \in Runs, NEW category \in Categories, NEW reason \in Reasons
    PROVE  /\ Further(r, Fail(r, category)) /\ Fail(r, category).phase = "closing"
           /\ Further(r, Stop(r, reason)) /\ Stop(r, reason).phase = "closing"
<1>1. OutcomeFor(category) \in Outcomes
  BY DEF OutcomeFor, Outcomes
<1>2. "closing" \in Phases /\ "succeeded" \in Outcomes
  BY DEF Phases, Outcomes
<1>4. ASSUME NEW outcome \in Outcomes, NEW stop \in Stops
      PROVE  LET s == [[[r EXCEPT !.outcome = outcome] EXCEPT !.phase = "closing"]
                          EXCEPT !.stop = stop]
             IN Further(r, s) /\ s.phase = "closing"
  <2> DEFINE a == [r EXCEPT !.outcome = outcome]
             b == [a EXCEPT !.phase = "closing"]
  <2>1. a \in Runs /\ Further(r, a)
    BY SetOutcome DEF Further
  <2> HIDE DEF a
  <2>2. b \in Runs /\ Further(a, b) /\ b.phase = "closing"
    BY <1>2, <2>1, SetPhase DEF Further
  <2> HIDE DEF b
  <2>3. Further(b, [b EXCEPT !.stop = stop]) /\ [b EXCEPT !.stop = stop].phase = "closing"
    BY <2>2, SetStop
  <2>4. Further(r, [b EXCEPT !.stop = stop])
    BY <2>1, <2>2, <2>3 DEF Further
  <2> QED
    BY <2>3, <2>4 DEF a, b
<1>5. Fail(r, category)
        = [[[r EXCEPT !.outcome = OutcomeFor(category)] EXCEPT !.phase = "closing"]
              EXCEPT !.stop = IF category \in {"cancelled", "run_timeout"} THEN category
                                                                           ELSE "failure"]
  BY DEF Fail
<1>6. Stop(r, reason)
        = [[[r EXCEPT !.stop = reason] EXCEPT !.outcome = "succeeded"] EXCEPT !.phase = "closing"]
  BY DEF Stop
<1>7. LET s == [[[r EXCEPT !.stop = reason] EXCEPT !.outcome = "succeeded"]
                   EXCEPT !.phase = "closing"]
      IN Further(r, s) /\ s.phase = "closing"
  <2> DEFINE a == [r EXCEPT !.stop = reason]
             b == [a EXCEPT !.outcome = "succeeded"]
  <2>1. a \in Runs /\ Further(r, a)
    BY SetStop DEF Further, Stops
  <2> HIDE DEF a
  <2>2. b \in Runs /\ Further(a, b)
    BY <1>2, <2>1, SetOutcome DEF Further
  <2> HIDE DEF b
  <2>3. Further(b, [b EXCEPT !.phase = "closing"]) /\ [b EXCEPT !.phase = "closing"].phase = "closing"
    BY <1>2, <2>2, SetPhase
  <2>4. Further(r, [b EXCEPT !.phase = "closing"])
    BY <2>1, <2>2, <2>3 DEF Further
  <2> QED
    BY <2>3, <2>4 DEF a, b
<1>8. Further(r, Stop(r, reason)) /\ Stop(r, reason).phase = "closing"
  BY <1>6, <1>7, Zenon
<1>9. PICK stop \in Stops :
        Fail(r, category) = [[[r EXCEPT !.outcome = OutcomeFor(category)] EXCEPT !.phase = "closing"]
                               EXCEPT !.stop = stop]
  BY <1>5 DEF Stops
<1>10. LET s == [[[r EXCEPT !.outcome = OutcomeFor(category)] EXCEPT !.phase = "closing"]
                    EXCEPT !.stop = stop]
       IN Further(r, s) /\ s.phase = "closing"
  BY <1>1, <1>4, Zenon
<1>11. Further(r, Fail(r, category)) /\ Fail(r, category).phase = "closing"
  BY <1>9, <1>10, Zenon
<1> QED
  BY <1>8, <1>11

\* After a turn the run is at its next, at the refresh before that, or closed.
LEMMA TurnEnds ==
    ASSUME NEW r \in Runs, NEW category \in Categories
    PROVE  /\ Further(r, AfterTurn(r, category))
           /\ AfterTurn(r, category).phase \in {"closing", "top", "refresh"}
           /\ AfterTurn(r, category).phase = "top" => AfterTurn(r, category).turn < MaxTurns
           /\ Further(r, NextTurn(r)) /\ NextTurn(r).phase \in {"closing", "top"}
           /\ NextTurn(r).phase = "top" => NextTurn(r).turn < MaxTurns
<1>1. /\ Further(r, [r EXCEPT !.phase = "top"]) /\ [r EXCEPT !.phase = "top"].phase = "top"
      /\ [r EXCEPT !.phase = "top"].turn = r.turn
      /\ Further(r, [r EXCEPT !.phase = "refresh"])
      /\ [r EXCEPT !.phase = "refresh"].phase = "refresh"
  <2>1. "top" \in Phases /\ "refresh" \in Phases
    BY DEF Phases
  <2> QED
    BY <2>1, SetPhase
<1>2. r.turn \in 0..MaxTurns /\ MaxTurns \in Nat
  BY RunFields, TurnsAssumption DEF TurnsAssumption
<1>3. /\ Further(r, NextTurn(r)) /\ NextTurn(r).phase \in {"closing", "top"}
      /\ NextTurn(r).phase = "top" => NextTurn(r).turn < MaxTurns
  <2>1. Further(r, Stop(r, "max_turns")) /\ Stop(r, "max_turns").phase = "closing"
    BY Closes DEF Reasons
  <2> QED
    BY <1>1, <1>2, <2>1 DEF NextTurn
<1>4. AfterTurn(r, category) \in {Fail(r, category), Stop(r, "verdict"), Fail(r, "cancelled"),
                                     NextTurn(r), [r EXCEPT !.phase = "refresh"]}
  BY DEF AfterTurn
<1>5. \A s \in {Fail(r, category), Stop(r, "verdict"), Fail(r, "cancelled")} :
        Further(r, s) /\ s.phase = "closing"
  <2>1. "verdict" \in Reasons /\ "cancelled" \in Categories
    BY DEF Reasons, Categories
  <2>2. /\ Further(r, Fail(r, category)) /\ Fail(r, category).phase = "closing"
        /\ Further(r, Stop(r, "verdict")) /\ Stop(r, "verdict").phase = "closing"
        /\ Further(r, Fail(r, "cancelled")) /\ Fail(r, "cancelled").phase = "closing"
    BY <2>1, Closes
  <2> QED
    BY <2>2
<1> QED
  BY <1>1, <1>3, <1>4, <1>5

\* The turn of a run that had one left is counted.
LEMMA TurnCounted ==
    ASSUME NEW r \in Runs, r.turn < MaxTurns
    PROVE  /\ Further(r, [r EXCEPT !.turn = @ + 1])
           /\ Further(r, [r EXCEPT !.turn = @ + 1, !.verdict = "none"])
<1>1. r.turn + 1 \in 0..MaxTurns
  BY RunFields, TurnsAssumption DEF TurnsAssumption
<1>2. /\ Further(r, [r EXCEPT !.turn = r.turn + 1])
      /\ [r EXCEPT !.turn = r.turn + 1] \in Runs
  BY <1>1, SetTurn DEF Further
<1>3. [r EXCEPT !.turn = @ + 1] = [r EXCEPT !.turn = r.turn + 1]
  BY RunFields
<1>4. [r EXCEPT !.turn = @ + 1, !.verdict = "none"]
        = [[r EXCEPT !.turn = @ + 1] EXCEPT !.verdict = "none"]
  OBVIOUS
<1> DEFINE s == [r EXCEPT !.turn = @ + 1]
<1>5. s \in Runs /\ Further(r, s)
  BY <1>2, <1>3
<1> HIDE DEF s
<1>6. Further(s, [s EXCEPT !.verdict = "none"])
  <2>1. "none" \in Verdicts
    BY DEF Verdicts
  <2> QED
    BY <1>5, <2>1, SetVerdict
<1>7. Further(r, [s EXCEPT !.verdict = "none"])
  BY <1>5, <1>6 DEF Further
<1> QED
  BY <1>4, <1>5, <1>7 DEF s

\* What a record says after it is saved.
LEMMA SavedRecord ==
    ASSUME TypesOK, NEW last \in {"none"} \cup Outcomes
    PROVE  Saved(last) \in Records
  BY RunFields DEF TypesOK, Saved, Records
-----------------------------------------------------------------------------
AtClaude == {"turn", "kill", "reap"}

\* A step of a run that goes on: nothing is told of it, no claude is left behind, and the
\* record is as it was or says that the session goes on.
Moves ==
    /\ Live /\ Further(run, run') /\ run'.phase \notin {"idle", "over"}
    /\ run'.phase \in {"refresh", "closing"} \/ run'.turn < MaxTurns
    /\ run.hard => run'.phase \in {"kill", "closing"}
    /\ claude' \in Claudes
    /\ LeaderLives' => run'.phase \in AtClaude \/ (LeaderLives /\ run.phase \notin AtClaude)
    /\ record' \in {record, Saved("none")}
    /\ UNCHANGED <<kind, row, of, fate>>

\* Up to its turn, a run goes on or is closed.
LEMMA MovesToTurn ==
    ASSUME TypesOK, RunIsNewest, Prepare \/ Read \/ Top \/ Workpad \/ StreamEnds
    PROVE  Moves
<1>1. ASSUME NEW phase \in Phases, run' = [run EXCEPT !.phase = phase]
      PROVE  Further(run, run') /\ run'.phase = phase /\ run'.turn = run.turn
  BY <1>1, SetPhase DEF TypesOK
<1>2. ASSUME NEW category \in Categories, run' = Fail(run, category)
      PROVE  Further(run, run') /\ run'.phase = "closing"
  BY <1>2, Closes DEF TypesOK, Reasons
<1>3. run.phase \in {"prepare", "read", "top", "workpad", "turn"} /\ Live
  BY DEF Prepare, Read, Top, Workpad, StreamEnds, Live
<1>4. run.turn < MaxTurns /\ run.hard = FALSE
  BY <1>3, RunFields DEF TypesOK, RunIsNewest
<1>5. claude' = claude /\ UNCHANGED <<kind, row, of, fate>> /\ record' \in {record, Saved("none")}
  BY DEF Prepare, Read, Top, Workpad, StreamEnds, books
<1>6. \/ \E phase \in {"read", "top", "workpad", "start"} :
            run' = [run EXCEPT !.phase = phase] /\ run.phase # "turn"
      \/ run' = [run EXCEPT !.phase = "reap"]
      \/ run.phase # "turn" /\ \E category \in Categories : run' = Fail(run, category)
  BY DEF Prepare, Read, Top, Workpad, StreamEnds, Categories
<1>7. claude \in Claudes
  BY DEF TypesOK
<1>8. CASE \E phase \in {"read", "top", "workpad", "start"} :
              run' = [run EXCEPT !.phase = phase] /\ run.phase # "turn"
  <2>1. PICK phase \in {"read", "top", "workpad", "start"} :
              run' = [run EXCEPT !.phase = phase] /\ run.phase # "turn"
    BY <1>8
  <2>2. Further(run, run') /\ run'.phase = phase /\ run'.turn = run.turn
    BY <1>1, <2>1 DEF Phases
  <2> QED
    BY <1>3, <1>4, <1>5, <1>7, <2>1, <2>2 DEF Moves, AtClaude, LeaderLives
<1>9. CASE run' = [run EXCEPT !.phase = "reap"]
  <2>1. Further(run, run') /\ run'.phase = "reap" /\ run'.turn = run.turn
    BY <1>1, <1>9 DEF Phases
  <2> QED
    BY <1>3, <1>4, <1>5, <1>7, <2>1 DEF Moves, AtClaude, LeaderLives
<1>10. CASE run.phase # "turn" /\ \E category \in Categories : run' = Fail(run, category)
  <2>1. Further(run, run') /\ run'.phase = "closing"
    BY <1>2, <1>10
  <2> QED
    BY <1>3, <1>4, <1>5, <1>7, <1>10, <2>1 DEF Moves, AtClaude, LeaderLives
<1> QED
  BY <1>6, <1>8, <1>9, <1>10

\* claude's record with fields set.
LEMMA ClaudeFields ==
    ASSUME NEW c \in Claudes
    PROVE  /\ c = [leader |-> c.leader, piped |-> c.piped, child |-> c.child, said |-> c.said]
           /\ c.leader \in {"none", "live", "clean", "failed"} /\ c.piped \in BOOLEAN
           /\ c.child \in BOOLEAN
           /\ c.said \in {"nothing", "success", "budget", "error", "verdict", "blocked"}
  BY DEF Claudes
LEMMA SetLeader ==
    ASSUME NEW c \in Claudes, NEW leader \in {"none", "live", "clean", "failed"}
    PROVE  /\ [c EXCEPT !.leader = leader] \in Claudes
           /\ [c EXCEPT !.leader = leader].leader = leader
<1>1. [c EXCEPT !.leader = leader]
        = [leader |-> leader, piped |-> c.piped, child |-> c.child, said |-> c.said]
  BY ClaudeFields
<1> QED
  BY <1>1, ClaudeFields DEF Claudes
LEMMA SetPiped ==
    ASSUME NEW c \in Claudes, NEW piped \in BOOLEAN
    PROVE  /\ [c EXCEPT !.piped = piped] \in Claudes
           /\ [c EXCEPT !.piped = piped].leader = c.leader
<1>1. [c EXCEPT !.piped = piped]
        = [leader |-> c.leader, piped |-> piped, child |-> c.child, said |-> c.said]
  BY ClaudeFields
<1> QED
  BY <1>1, ClaudeFields DEF Claudes
LEMMA SetChild ==
    ASSUME NEW c \in Claudes, NEW child \in BOOLEAN
    PROVE  /\ [c EXCEPT !.child = child] \in Claudes
           /\ [c EXCEPT !.child = child].leader = c.leader
<1>1. [c EXCEPT !.child = child]
        = [leader |-> c.leader, piped |-> c.piped, child |-> child, said |-> c.said]
  BY ClaudeFields
<1> QED
  BY <1>1, ClaudeFields DEF Claudes

\* A run that is asked to stop, or whose deadline passes, goes on where it is.
LEMMA MovesWhenAsked ==
    ASSUME TypesOK, RunIsNewest, RefreshStops \/ StallStops \/ (RequestStop /\ Live) \/ DeadlinePasses
    PROVE  Moves
<1>1. \/ run' = [run EXCEPT !.late = TRUE]
      \/ \E cause \in Causes : run' = [[run EXCEPT !.cancel = TRUE] EXCEPT !.cause = cause]
  <2>1. ASSUME NEW cause \in Causes, StopRun(cause)
        PROVE  \E c \in Causes : run' = [[run EXCEPT !.cancel = TRUE] EXCEPT !.cause = c]
    <3>1. run' = [[run EXCEPT !.cancel = TRUE]
                     EXCEPT !.cause = IF run.cause = "none" THEN cause ELSE run.cause]
      BY <2>1, RunFields DEF StopRun, TypesOK
    <3>2. (IF run.cause = "none" THEN cause ELSE run.cause) \in Causes
      BY RunFields DEF TypesOK
    <3> QED
      BY <3>1, <3>2
  <2>2. \/ run' = [run EXCEPT !.late = TRUE]
        \/ StopRun("moved") \/ StopRun("stalled") \/ StopRun("shutdown")
    BY DEF RefreshStops, StallStops, RequestStop, DeadlinePasses
  <2> QED
    BY <2>1, <2>2 DEF Causes
<1>2. Further(run, run') /\ run'.phase = run.phase /\ run'.turn = run.turn
  <2>1. CASE run' = [run EXCEPT !.late = TRUE]
    BY <2>1, SetLate DEF TypesOK
  <2>2. CASE \E cause \in Causes : run' = [[run EXCEPT !.cancel = TRUE] EXCEPT !.cause = cause]
    <3>1. PICK cause \in Causes : run' = [[run EXCEPT !.cancel = TRUE] EXCEPT !.cause = cause]
      BY <2>2
    <3> DEFINE s == [run EXCEPT !.cancel = TRUE]
    <3>2. s \in Runs /\ Further(run, s) /\ s.phase = run.phase /\ s.turn = run.turn
      BY SetCancel DEF TypesOK, Further
    <3> HIDE DEF s
    <3>3. LET t == [s EXCEPT !.cause = cause]
          IN  Further(s, t) /\ t.phase = s.phase /\ t.turn = s.turn
      BY <3>2, SetCause
    <3>4. run' = [s EXCEPT !.cause = cause]
      BY <3>1 DEF s
    <3> QED
      BY <3>2, <3>3, <3>4 DEF Further
  <2> QED
    BY <1>1, <2>1, <2>2
<1>3. Live /\ claude' = claude /\ UNCHANGED <<kind, row, of, fate, record>>
  BY DEF RefreshStops, StallStops, RequestStop, DeadlinePasses, books
<1>4. run.phase \notin {"idle", "over"} /\ (run.hard => run.phase \in {"kill", "closing"})
  BY <1>3 DEF Live, RunIsNewest
<1>5. claude \in Claudes /\ (run.phase \in {"refresh", "closing"} \/ run.turn < MaxTurns)
  BY <1>4 DEF TypesOK
<1> QED
  BY <1>2, <1>3, <1>4, <1>5 DEF Moves, LeaderLives, AtClaude

\* A turn that is to end is killed first.
LEMMA MovesToKill ==
    ASSUME TypesOK, RunIsNewest, NEW verdict \in Verdicts, Ends(verdict)
    PROVE  Moves
<1>1. /\ run.phase = "turn" /\ Live /\ run.hard = FALSE /\ run.turn < MaxTurns
      /\ claude' = claude /\ claude \in Claudes /\ UNCHANGED <<kind, row, of, fate, record>>
  BY RunFields DEF Ends, Live, RunIsNewest, TypesOK, books
<1>2. Further(run, run') /\ run'.phase = "kill" /\ run'.turn = run.turn
  <2> DEFINE s == [run EXCEPT !.phase = "kill"]
  <2>1. s \in Runs /\ Further(run, s) /\ s.phase = "kill" /\ s.turn = run.turn
    BY SetPhase DEF TypesOK, Phases, Further
  <2>2. run' = [s EXCEPT !.verdict = verdict]
    BY DEF Ends
  <2> HIDE DEF s
  <2>3. LET t == [s EXCEPT !.verdict = verdict]
        IN  Further(s, t) /\ t.phase = s.phase /\ t.turn = s.turn
    BY <2>1, SetVerdict
  <2> QED
    BY <2>1, <2>2, <2>3 DEF Further
<1> QED
  BY <1>1, <1>2 DEF Moves, AtClaude, LeaderLives

\* What is left of a turn that is over.
LEMMA AfterTurnMoves ==
    ASSUME TypesOK, run.turn < MaxTurns, NEW category \in Categories,
           \/ TurnOver(category)
           \/ run' = AfterTurn([run EXCEPT !.turn = @ + 1], category)
    PROVE  /\ Further(run, run') /\ run'.phase \in {"closing", "top", "refresh"}
           /\ run'.phase = "top" => run'.turn < MaxTurns
<1>1. PICK s \in Runs : Further(run, s) /\ run' = AfterTurn(s, category)
  <2>1. /\ Further(run, [run EXCEPT !.turn = @ + 1])
        /\ Further(run, [run EXCEPT !.turn = @ + 1, !.verdict = "none"])
    BY TurnCounted DEF TypesOK
  <2> QED
    BY <2>1 DEF TurnOver, Further
<1>2. /\ Further(s, AfterTurn(s, category))
      /\ AfterTurn(s, category).phase \in {"closing", "top", "refresh"}
      /\ AfterTurn(s, category).phase = "top" => AfterTurn(s, category).turn < MaxTurns
  BY TurnEnds
<1> QED
  BY <1>1, <1>2 DEF Further

\* A claude is started only in its turn, and none is left when the turn is over.
LEMMA MovesFromTurn ==
    ASSUME TypesOK, RunIsNewest, Spawn \/ NotStarted \/ Reaped \/ Terminated
    PROVE  Moves
<1>1. run.phase \in {"start", "reap", "kill"} /\ Live /\ UNCHANGED <<kind, row, of, fate>>
  BY DEF Spawn, NotStarted, Reaped, Terminated, Live
<1>2. run.turn < MaxTurns /\ (run.hard => run.phase = "kill") /\ claude \in Claudes
  BY <1>1 DEF TypesOK, RunIsNewest
<1>3. CASE Spawn /\ run' = [run EXCEPT !.phase = "turn"]
  <2>1. claude' = [[NoClaude EXCEPT !.leader = "live"] EXCEPT !.piped = TRUE] /\ record' = record
    <3>1. "turn" # "closing" /\ AfterTurn([run EXCEPT !.turn = @ + 1], "claude_not_found").phase # "turn"
      <4>1. [run EXCEPT !.turn = @ + 1] \in Runs
        BY <1>2, TurnCounted DEF TypesOK, Further
      <4> QED
        BY <4>1, TurnEnds DEF Categories
    <3>2. run'.phase = "turn"
      BY <1>3, SetPhase DEF TypesOK, Phases
    <3> QED
      BY <1>3, <3>1, <3>2 DEF Spawn
  <2>2. NoClaude \in Claudes
    BY DEF NoClaude, Claudes
  <2>3. [NoClaude EXCEPT !.leader = "live"] \in Claudes
    BY <2>2, SetLeader
  <2>4. claude' \in Claudes
    BY <2>1, <2>3, SetPiped
  <2>5. Further(run, run') /\ run'.phase = "turn" /\ run'.turn = run.turn
    BY <1>3, SetPhase DEF TypesOK, Phases
  <2>6. run.hard = FALSE
    BY <1>2, <1>3, RunFields DEF Spawn, TypesOK
  <2> QED
    BY <1>1, <1>2, <2>1, <2>4, <2>5, <2>6 DEF Moves, AtClaude
<1>4. CASE Spawn /\ run' # [run EXCEPT !.phase = "turn"]
  <2>1. /\ run' = AfterTurn([run EXCEPT !.turn = @ + 1], "claude_not_found")
        /\ record' = Saved("none") /\ claude' = claude
    BY <1>4 DEF Spawn
  <2>2. /\ Further(run, run') /\ run'.phase \in {"closing", "top", "refresh"}
        /\ run'.phase = "top" => run'.turn < MaxTurns
    BY <1>2, <2>1, AfterTurnMoves DEF Categories
  <2>3. run.hard = FALSE /\ run.phase = "start"
    BY <1>2, <1>4, RunFields DEF Spawn, TypesOK
  <2> QED
    BY <1>1, <1>2, <2>1, <2>2, <2>3 DEF Moves, AtClaude, LeaderLives
<1>5. CASE NotStarted
  <2>1. TurnOver("cancelled") /\ claude' = claude /\ run.phase = "start"
    BY <1>5 DEF NotStarted
  <2>2. /\ Further(run, run') /\ run'.phase \in {"closing", "top", "refresh"}
        /\ run'.phase = "top" => run'.turn < MaxTurns
    BY <1>2, <2>1, AfterTurnMoves DEF Categories
  <2>3. record' \in {record, Saved("none")}
    BY <2>1 DEF TurnOver
  <2>4. run.hard = FALSE
    BY <1>2, <2>1, RunFields DEF TypesOK
  <2> QED
    BY <1>1, <1>2, <2>1, <2>2, <2>3, <2>4 DEF Moves, AtClaude, LeaderLives
<1>6. CASE Reaped
  <2> DEFINE category == Classify(claude.said, claude.leader)
  <2>1. /\ TurnOver(category) /\ claude' = claude /\ run.phase = "reap" /\ ~LeaderLives
    BY <1>6 DEF Reaped
  <2>2. category \in Categories
    BY DEF Classify, Categories
  <2> HIDE DEF category
  <2>3. /\ Further(run, run') /\ run'.phase \in {"closing", "top", "refresh"}
        /\ run'.phase = "top" => run'.turn < MaxTurns
    BY <1>2, <2>1, <2>2, AfterTurnMoves
  <2>4. record' \in {record, Saved("none")}
    BY <2>1 DEF TurnOver
  <2>5. run.hard = FALSE
    BY <1>2, <2>1, RunFields DEF TypesOK
  <2> QED
    BY <1>1, <1>2, <2>1, <2>3, <2>4, <2>5 DEF Moves, AtClaude, LeaderLives
<1>7. CASE Terminated
  <2>1. run.phase = "kill" /\ run.verdict \in Categories
    BY <1>7, RunFields DEF Terminated, TypesOK, Verdicts, Categories
  <2>2. claude' \in Claudes /\ ~LeaderLives'
    <3> DEFINE leader == IF claude.leader = "live" THEN "failed" ELSE claude.leader
               a == [claude EXCEPT !.leader = leader]
               b == [a EXCEPT !.piped = FALSE]
    <3>1. claude' = [b EXCEPT !.child = FALSE]
      BY <1>2, <1>7, ClaudeFields DEF Terminated
    <3>2. leader \in {"none", "live", "clean", "failed"} /\ leader # "live"
      BY <1>2, ClaudeFields
    <3> HIDE DEF leader
    <3>3. a \in Claudes /\ a.leader = leader
      BY <1>2, <3>2, SetLeader
    <3> HIDE DEF a
    <3>4. b \in Claudes /\ b.leader = leader
      BY <3>3, SetPiped
    <3> HIDE DEF b
    <3> QED
      BY <3>1, <3>2, <3>4, SetChild DEF LeaderLives
  <2>3. CASE run.hard
    <3>1. run' = [run EXCEPT !.phase = "closing"] /\ record' = record
      BY <1>7, <2>3 DEF Terminated
    <3>2. Further(run, run') /\ run'.phase = "closing"
      BY <3>1, SetPhase DEF TypesOK, Phases
    <3> QED
      BY <1>1, <2>2, <3>1, <3>2 DEF Moves
  <2>4. CASE ~run.hard
    <3>1. TurnOver(run.verdict)
      BY <1>7, <2>4 DEF Terminated
    <3>2. record' \in {record, Saved("none")}
      BY <3>1 DEF TurnOver
    <3>3. /\ Further(run, run') /\ run'.phase \in {"closing", "top", "refresh"}
          /\ run'.phase = "top" => run'.turn < MaxTurns
      BY <1>2, <2>1, <3>1, AfterTurnMoves
    <3> QED
      BY <1>1, <2>2, <2>4, <3>2, <3>3 DEF Moves
  <2> QED
    BY <2>3, <2>4
<1> QED
  BY <1>3, <1>4, <1>5, <1>6, <1>7

\* Nothing of a turn but a child is left at the next.
LEMMA NoneButChild ==
    ASSUME TypesOK
    PROVE  /\ NoClaude \in Claudes /\ NoClaude.leader # "live"
           /\ [NoClaude EXCEPT !.child = claude.child] \in Claudes
           /\ [NoClaude EXCEPT !.child = claude.child].leader # "live"
<1>1. NoClaude \in Claudes /\ NoClaude.leader # "live"
  BY DEF NoClaude, Claudes
<1>2. claude.child \in BOOLEAN
  BY ClaudeFields DEF TypesOK
<1> QED
  BY <1>1, <1>2, SetChild

\* The clone is there, and the issue read again.
LEMMA MovesBetween ==
    ASSUME TypesOK, RunIsNewest, Refresh \/ (Create /\ run'.phase # "over")
    PROVE  Moves
<1>1. /\ run.phase \in {"create", "refresh"} /\ Live /\ run.hard = FALSE /\ claude \in Claudes
      /\ run \in Runs
  BY RunFields DEF Refresh, Create, Live, RunIsNewest, TypesOK
<1>2. CASE Refresh
  <2>1. /\ run' \in {Stop(run, "issue_moved"), Stop(run, "blocked"), NextTurn(run),
                     Fail(run, "github_error")}
        /\ claude' = [NoClaude EXCEPT !.child = claude.child]
        /\ UNCHANGED <<kind, record, row, of, fate>>
    BY <1>2 DEF Refresh, books
  <2>2. /\ Further(run, Stop(run, "issue_moved")) /\ Stop(run, "issue_moved").phase = "closing"
        /\ Further(run, Fail(run, "github_error")) /\ Fail(run, "github_error").phase = "closing"
    BY <1>1, Closes DEF Categories, Reasons
  <2>3. Further(run, Stop(run, "blocked")) /\ Stop(run, "blocked").phase = "closing"
    BY <1>1, Closes DEF Categories, Reasons
  <2>4. /\ Further(run, NextTurn(run)) /\ NextTurn(run).phase \in {"closing", "top"}
        /\ NextTurn(run).phase = "top" => NextTurn(run).turn < MaxTurns
    BY <1>1, TurnEnds DEF Categories
  <2>5. /\ Further(run, run') /\ run'.phase \in {"closing", "top"}
        /\ run'.phase = "top" => run'.turn < MaxTurns
    BY <2>1, <2>2, <2>3, <2>4
  <2> QED
    BY <1>1, <2>1, <2>5, NoneButChild DEF Moves, LeaderLives
<1>3. CASE Create /\ run'.phase # "over"
  <2>1. "over" \in Phases /\ "prepare" \in Phases /\ "workspace_error" \in Categories
    BY DEF Phases, Categories
  <2>2. [Fail(run, "workspace_error") EXCEPT !.phase = "over"].phase = "over"
    <3>1. Fail(run, "workspace_error") \in Runs
      BY <1>1, <2>1, Closes DEF Further, Reasons
    <3> QED
      BY <2>1, <3>1, SetPhase
  <2>3. /\ run' = [run EXCEPT !.phase = "prepare"] /\ run.phase = "create"
        /\ claude' = claude /\ UNCHANGED <<kind, record, row, of, fate>>
    BY <1>3, <2>2 DEF Create
  <2>4. Further(run, run') /\ run'.phase = "prepare" /\ run'.turn = run.turn
    BY <1>1, <2>1, <2>3, SetPhase
  <2>5. run.turn < MaxTurns
    BY <2>3 DEF TypesOK
  <2> QED
    BY <1>1, <2>3, <2>4, <2>5 DEF Moves, LeaderLives, AtClaude
<1> QED
  BY <1>2, <1>3

\* A step of the rest of the system: the run and what is told of it stay as they are.
Still ==
    /\ claude' \in Claudes /\ (LeaderLives' => LeaderLives)
    /\ UNCHANGED <<kind, run, record, row, of, fate>>

\* claude itself, humans and the worker at rest touch nothing of it.
LEMMA StaysStill ==
    ASSUME TypesOK,
           Claude \/ Release \/ Stopped \/ Restart \/ HumanRelabels \/ (RequestStop /\ ~Live) \/ UNCHANGED vars
    PROVE  Still
<1>1. UNCHANGED <<kind, run, record, row, of, fate>>
  BY DEF Claude, ClaudeBegins, ClaudeMovesIssue, ClaudeForks, ClaudeSays, ClaudeCloses, ClaudeExits,
         ChildExits, Release, Stopped, Restart, HumanRelabels, RequestStop, vars, books
<1>2. claude \in Claudes
  BY DEF TypesOK
<1>3. CASE ClaudeForks
  BY <1>1, <1>2, <1>3, SetChild DEF ClaudeForks, LeaderLives, Still
<1>4. CASE ClaudeSays
  <2>1. PICK said \in {"nothing", "success", "budget", "error", "verdict", "blocked"} :
          claude' = [claude EXCEPT !.said = said]
    BY <1>4 DEF ClaudeSays, Results
  <2>2. claude' = [leader |-> claude.leader, piped |-> claude.piped, child |-> claude.child,
                   said |-> said]
    BY <1>2, <2>1, ClaudeFields
  <2> QED
    BY <1>1, <1>2, <2>2, ClaudeFields DEF LeaderLives, Claudes, Still
<1>5. CASE ClaudeCloses
  BY <1>1, <1>2, <1>5, SetPiped DEF ClaudeCloses, LeaderLives, Still
<1>6. CASE ClaudeExits
  <2>1. PICK status \in {"clean", "failed"} :
          claude' = [[claude EXCEPT !.leader = status] EXCEPT !.piped = FALSE]
    BY <1>6 DEF ClaudeExits
  <2>2. [claude EXCEPT !.leader = status] \in Claudes
    BY <1>2, SetLeader
  <2>3. claude' \in Claudes /\ claude'.leader = [claude EXCEPT !.leader = status].leader
    BY <2>1, <2>2, SetPiped
  <2>4. claude'.leader = status
    BY <1>2, <2>3, SetLeader
  <2> QED
    BY <1>1, <2>3, <2>4 DEF LeaderLives, Still
<1>7. CASE ChildExits
  BY <1>1, <1>2, <1>7, SetChild DEF ChildExits, LeaderLives, Still
<1>8. CASE Restart
  BY <1>1, <1>8, NoneButChild DEF Restart, LeaderLives, Still
<1>9. CASE ClaudeBegins \/ ClaudeMovesIssue \/ Release \/ Stopped \/ HumanRelabels \/ (RequestStop /\ ~Live)
           \/ UNCHANGED vars
  BY <1>1, <1>2, <1>9 DEF ClaudeBegins, ClaudeMovesIssue, Release, Stopped, HumanRelabels, RequestStop, vars,
                    LeaderLives, Still
<1> QED
  BY <1>1, <1>3, <1>4, <1>5, <1>6, <1>7, <1>8, <1>9 DEF Still, Claude

\* The steps that end a run, and those that start and lose one.
CreateFails == Create /\ run'.phase = "over"
LEMMA Steps ==
    ASSUME TypesOK, RunIsNewest, [Next]_vars
    PROVE  Moves \/ Still \/ Start \/ CreateFails \/ Close \/ Exit \/ GiveUp \/ Crash
<1>1. CASE Prepare \/ Read \/ Top \/ Workpad \/ StreamEnds
  BY <1>1, MovesToTurn
<1>2. CASE Spawn \/ NotStarted \/ Reaped \/ Terminated
  BY <1>2, MovesFromTurn
<1>3. CASE Cancelled \/ DeadlineReached \/ Silence
  <2>1. \E verdict \in Verdicts : Ends(verdict)
    BY <1>3 DEF Cancelled, DeadlineReached, Silence, Verdicts
  <2> QED
    BY <2>1, MovesToKill
<1>4. CASE Refresh \/ Create
  BY <1>4, MovesBetween DEF CreateFails
<1>5. CASE RefreshStops \/ StallStops \/ RequestStop \/ DeadlinePasses
  BY <1>5, MovesWhenAsked, StaysStill
<1>6. CASE Claude \/ Release \/ Stopped \/ Restart \/ HumanRelabels \/ UNCHANGED vars
  BY <1>6, StaysStill
<1> QED
  BY <1>1, <1>2, <1>3, <1>4, <1>5, <1>6 DEF Next, Step, Supervise, World

\* The fates once the record of the run's end was not written.
Unsaved == [fate EXCEPT ![run.id] = IF @ = "kept" THEN "unsaved" ELSE @]

\* The end of a run whose clone failed, and of one that closed.
LEMMA Ending ==
    ASSUME TypesOK, RunIsNewest, CreateFails \/ Close
    PROVE  /\ Further(run, run') /\ run'.phase = "over" /\ Live /\ claude' = claude
           /\ run.id \in RunIds /\ UNCHANGED <<kind, of>>
           /\ row' = IF run.hard THEN row ELSE [row EXCEPT ![run.id] = run'.outcome]
           /\ \/ /\ record' = record
                 /\ \/ fate' = Unsaved
                    \/ kind = "triage" /\ fate' = fate
              \/ /\ kind = "work" /\ fate' = fate /\ run'.outcome = run.outcome
                 /\ record' = [session |-> run.session, last |-> run.outcome]
<1>1. run \in Runs /\ kind \in {"work", "triage"}
  BY TurnsAssumption DEF TypesOK, TurnsAssumption
<1>2. "over" \in Phases /\ "workspace_error" \in Categories
  BY DEF Phases, Categories
<1>3. Live /\ run.id \in RunIds
  BY DEF CreateFails, Create, Close, Live, RunIsNewest
<1>4. CASE CreateFails
  <2> DEFINE s == Fail(run, "workspace_error")
  <2>1. s \in Runs /\ Further(run, s) /\ s.outcome = "failed"
    <3>1. s \in Runs /\ Further(run, s)
      BY <1>1, <1>2, Closes DEF Further, Reasons
    <3>2. s = [[[run EXCEPT !.outcome = "failed"] EXCEPT !.phase = "closing"]
                  EXCEPT !.stop = "failure"]
      BY DEF Fail, OutcomeFor
    <3>3. [run EXCEPT !.outcome = "failed"] \in Runs /\ [run EXCEPT !.outcome = "failed"].outcome = "failed"
      BY <1>1, SetOutcome DEF Further, Outcomes
    <3> DEFINE a == [run EXCEPT !.outcome = "failed"]
               b == [a EXCEPT !.phase = "closing"]
    <3> HIDE DEF a, s
    <3>4. b \in Runs /\ b.outcome = a.outcome
      <4>1. a \in Runs
        BY <3>3 DEF a
      <4> QED
        BY <4>1, SetPhase DEF Further, Phases
    <3>5. [b EXCEPT !.stop = "failure"].outcome = b.outcome
      <4> HIDE DEF b
      <4> QED
        BY <3>4, SetStop, RunFields DEF Stops
    <3>6. s = [b EXCEPT !.stop = "failure"]
      BY <3>2 DEF a, b
    <3>7. s.outcome = a.outcome
      <4> HIDE DEF b
      <4> QED
        BY <3>4, <3>5, <3>6
    <3> QED
      BY <3>1, <3>3, <3>7 DEF a
  <2>2. [run EXCEPT !.phase = "prepare"].phase # "over"
    BY <1>1, SetPhase DEF Phases
  <2>3. /\ run' = [s EXCEPT !.phase = "over"]
        /\ row' = [row EXCEPT ![run.id] = "failed"]
        /\ fate' = Unsaved
        /\ UNCHANGED <<kind, of, record, claude>>
    BY <1>4, <2>2 DEF CreateFails, Create, Unsaved
  <2> HIDE DEF s
  <2>4. Further(s, run') /\ run'.phase = "over" /\ run'.outcome = "failed"
    BY <1>2, <2>1, <2>3, SetPhase
  <2>5. run.hard = FALSE
    BY <1>1, <1>4, RunFields DEF CreateFails, Create, RunIsNewest
  <2> QED
    BY <1>3, <2>1, <2>3, <2>4, <2>5 DEF Further
<1>5. CASE Close
  <2>1. /\ run' = [run EXCEPT !.phase = "over"] /\ UNCHANGED <<kind, of, claude>>
        /\ row' = IF run.hard THEN row ELSE [row EXCEPT ![run.id] = run.outcome]
        /\ \/ record' = Saved(run.outcome) /\ fate' = fate
           \/ /\ kind = "work" /\ record' = record
              /\ fate' = Unsaved
    BY <1>5 DEF Close, OutcomeSaved, EndedRow, Unsaved
  <2>2. Further(run, run') /\ run'.phase = "over" /\ run'.outcome = run.outcome
    BY <1>1, <1>2, <2>1, SetPhase
  <2>3. Saved(run.outcome) = IF kind = "work" THEN [session |-> run.session, last |-> run.outcome]
                                              ELSE record
    BY DEF Saved
  <2> QED
    BY <1>1, <1>3, <2>1, <2>2, <2>3
<1> QED
  BY <1>4, <1>5
-----------------------------------------------------------------------------
\* A run that starts is a new one, of its own session or of the recorded one's.
LEMMA Starting ==
    ASSUME TypesOK, TurnsBooks, Start
    PROVE  \E id \in RunIds, session \in 1..MaxRuns :
              /\ run.phase = "idle"
              /\ row[id] = "none" /\ \A q \in 1..(id - 1) : row[q] # "none"
              /\ session = id \/ (/\ session = record.session /\ record.last \in {"none", "cancelled"}
                                  /\ row[session] # "none" /\ kind = "work")
              /\ run' \in Runs /\ run'.id = id /\ run'.session = session /\ run'.phase = "create"
              /\ run'.turn = 0 /\ run'.hard = FALSE
              /\ of' = [of EXCEPT ![id] = session] /\ row' = [row EXCEPT ![id] = "open"]
              /\ UNCHANGED <<kind, claude, record, fate>>
<1> DEFINE resumed == IF kind = "work" /\ label = "in_progress" /\ ~held THEN ResumePlan ELSE 0
           session(id) == IF resumed # 0 THEN resumed ELSE id
<1>1. PICK id \in RunIds :
         /\ row[id] = "none" /\ \A q \in 1..(id - 1) : row[q] # "none"
         /\ run' = [NoRun EXCEPT !.id = id, !.session = session(id), !.phase = "create",
                                 !.resuming = resumed # 0]
         /\ of' = [of EXCEPT ![id] = session(id)] /\ row' = [row EXCEPT ![id] = "open"]
  BY DEF Start
<1>2. resumed = 0 \/ (/\ resumed = record.session /\ record.last \in {"none", "cancelled"}
                      /\ kind = "work")
  BY DEF ResumePlan
<1>3. record.session \in 0..MaxRuns /\ (record.session # 0 => row[record.session] # "none")
  BY DEF TypesOK, Records, TurnsBooks, SessionsKnown
<1>4. RunIds = 1..MaxRuns /\ MaxRuns \in Nat
  BY TurnsAssumption DEF RunIds, TurnsAssumption
<1>5. /\ session(id) \in 1..MaxRuns
      /\ session(id) = id \/ (/\ session(id) = record.session /\ kind = "work"
                              /\ record.last \in {"none", "cancelled"} /\ row[session(id)] # "none")
  BY <1>2, <1>3, <1>4
<1>6. (resumed # 0) \in BOOLEAN
  OBVIOUS
<1> HIDE DEF session, resumed
<1>7. run' = [[[[NoRun EXCEPT !.id = id] EXCEPT !.session = session(id)]
                  EXCEPT !.phase = "create"] EXCEPT !.resuming = resumed # 0]
  BY <1>1
<1>8. run' = [id |-> id, session |-> session(id), phase |-> "create", resuming |-> resumed # 0,
              turn |-> 0, cancel |-> FALSE, cause |-> "none", late |-> FALSE, hard |-> FALSE,
              verdict |-> "none", outcome |-> "succeeded", stop |-> "none"]
  BY <1>7 DEF NoRun
<1>9. /\ run' \in Runs /\ run'.id = id /\ run'.session = session(id) /\ run'.phase = "create"
      /\ run'.turn = 0 /\ run'.hard = FALSE
  BY <1>4, <1>5, <1>6, <1>8, TurnsAssumption
  DEF Runs, Phases, Outcomes, Causes, Verdicts, Stops, TurnsAssumption
<1> QED
  BY <1>1, <1>5, <1>9 DEF Start

\* A task given up on goes to the kill of its turn, or to its end.
LEMMA GivenUp ==
    ASSUME TypesOK, RunIsNewest, GiveUp
    PROVE  /\ run' \in Runs /\ run'.id = run.id /\ run'.session = run.session
           /\ run'.phase \in {"kill", "closing", "over"} /\ run'.hard = TRUE
           /\ run'.phase = "kill" => (run.phase \in {"turn", "kill"} /\ run'.turn < MaxTurns)
           /\ Live /\ run.hard = FALSE /\ run.id \in RunIds
           /\ fate' = [fate EXCEPT ![run.id] = IF run.phase = "reap" THEN "abandoned" ELSE "cut"]
           /\ UNCHANGED <<kind, claude, record, row, of>>
<1> DEFINE s == [run EXCEPT !.hard = TRUE]
<1>1. s \in Runs /\ s.id = run.id /\ s.session = run.session /\ s.hard = TRUE /\ s.turn = run.turn
      /\ s.phase = run.phase
  BY SetHard DEF TypesOK
<1>2. run' = [s EXCEPT !.phase = Forced(run.phase)]
  BY DEF GiveUp
<1>3. Forced(run.phase) \in {"kill", "closing", "over"}
      /\ (Forced(run.phase) = "kill" => run.phase \in {"turn", "kill"})
  BY DEF Forced
<1>4. /\ Live /\ run.hard = FALSE /\ run.id \in RunIds
  BY RunFields DEF GiveUp, Patience, Live, RunIsNewest, TypesOK
<1> HIDE DEF s
<1>5. /\ run' \in Runs /\ Further(s, run') /\ run'.phase = Forced(run.phase) /\ run'.turn = s.turn
  <2>1. PICK phase \in Phases : phase = Forced(run.phase)
    BY <1>3 DEF Phases
  <2>2. run' = [s EXCEPT !.phase = phase]
    BY <1>2, <2>1
  <2> QED
    BY <1>1, <2>1, <2>2, SetPhase DEF Further
<1>6. run.phase \in {"turn", "kill"} => run.turn < MaxTurns
  BY DEF TypesOK
<1> QED
  BY <1>1, <1>3, <1>4, <1>5, <1>6 DEF GiveUp, Further

\* No run: it is over and its exit handled, or the worker was killed.
LEMMA NoRunLeft ==
    ASSUME TypesOK, RunIsNewest, Exit \/ Crash
    PROVE  /\ run' = NoRun /\ NoRun \in Runs /\ claude' \in Claudes
           /\ LeaderLives' => Exit /\ LeaderLives
           /\ UNCHANGED <<kind, record, row, of>>
           /\ \/ run.phase \in {"idle", "over"} /\ fate' = fate
              \/ /\ Crash /\ Live /\ run.id \in RunIds
                 /\ fate' = [fate EXCEPT ![run.id] = "cut"]
<1>1. NoRun \in Runs
  BY TurnsAssumption DEF NoRun, Runs, Phases, Outcomes, Causes, Verdicts, Stops, TurnsAssumption
<1>2. Live => run.id \in RunIds
  BY DEF Live, RunIsNewest
<1>3. claude \in Claudes /\ NoClaude \in Claudes /\ NoClaude.leader # "live"
  BY NoneButChild DEF TypesOK
<1>4. CASE Exit
  BY <1>1, <1>3, <1>4, NoneButChild DEF Exit, LeaderLives, books
<1>5. CASE Crash
  BY <1>1, <1>2, <1>3, <1>5 DEF Crash, LeaderLives, Live
<1> QED
  BY <1>4, <1>5
-----------------------------------------------------------------------------
\* Every step keeps the types.
LEMMA TypesKept == TypesOK /\ RunIsNewest /\ TurnsBooks /\ [Next]_vars => TypesOK'
<1> SUFFICES ASSUME TypesOK, RunIsNewest, TurnsBooks, [Next]_vars PROVE TypesOK'
  OBVIOUS
<1>1. /\ kind' \in Kinds /\ label' \in {"todo", "in_progress", "moved"} /\ held' \in BOOLEAN
      /\ worker' \in {"up", "stopping", "down"}
  BY DEF TypesOK, Next, Start, Step, Create, Prepare, Read, Top, Workpad, Spawn, NotStarted, Supervise,
         Cancelled, DeadlineReached, StreamEnds, Reaped, Terminated, Refresh, Close, Silence, Ends,
         Claude, ClaudeBegins, ClaudeMovesIssue, ClaudeForks, ClaudeSays, ClaudeCloses, ClaudeExits,
         ChildExits, Exit, Release, GiveUp, Stopped, World, RefreshStops, StallStops, RequestStop,
         Crash, Restart, DeadlinePasses, HumanRelabels, vars, issueVars, books
<1>2. RunIds = 1..MaxRuns /\ MaxRuns \in Nat
  BY TurnsAssumption DEF RunIds, TurnsAssumption
<1>3. CASE Moves
  <2>1. record' \in Records
    BY <1>3, SavedRecord DEF Moves, TypesOK
  <2> QED
    BY <1>1, <1>3, <2>1 DEF Moves, Further, TypesOK
<1>4. CASE Still
  BY <1>1, <1>4 DEF Still, TypesOK
<1>5. CASE Start
  <2>1. PICK id \in RunIds, session \in 1..MaxRuns :
              /\ run' \in Runs /\ run'.turn = 0
              /\ of' = [of EXCEPT ![id] = session] /\ row' = [row EXCEPT ![id] = "open"]
              /\ UNCHANGED <<kind, claude, record, fate>>
    BY <1>5, Starting
  <2>2. 0 < MaxTurns
    BY TurnsAssumption DEF TurnsAssumption
  <2> QED
    BY <1>1, <1>2, <2>1, <2>2 DEF TypesOK
<1>6. CASE CreateFails \/ Close
  <2>1. run' \in Runs /\ run'.phase = "over" /\ claude' = claude /\ of' = of
    BY <1>6, Ending DEF Further
  <2>2. row' \in [RunIds -> {"none", "open"} \cup Outcomes]
    <3>1. run'.outcome \in Outcomes
      BY <2>1, RunFields
    <3>2. row' \in {row, [row EXCEPT ![run.id] = run'.outcome]}
      BY <1>6, Ending
    <3> QED
      BY <3>1, <3>2 DEF TypesOK
  <2>3. fate' \in [RunIds -> {"kept", "cut", "abandoned", "unsaved"}]
    <3>1. fate' \in {fate, Unsaved}
      BY <1>6, Ending
    <3> QED
      BY <3>1 DEF TypesOK, Unsaved
  <2>4. record' \in Records
    <3>1. run.outcome \in Outcomes /\ run.session \in 0..MaxRuns
      BY RunFields DEF TypesOK
    <3>2. record' \in {record, [session |-> run.session, last |-> run.outcome]}
      BY <1>6, Ending
    <3> QED
      BY <3>1, <3>2 DEF TypesOK, Records
  <2> QED
    BY <1>1, <2>1, <2>2, <2>3, <2>4 DEF TypesOK
<1>7. CASE GiveUp
  <2>1. /\ run'.phase \in {"closing", "over"} \/ run'.turn < MaxTurns
        /\ fate' = [fate EXCEPT ![run.id] = IF run.phase = "reap" THEN "abandoned" ELSE "cut"]
        /\ UNCHANGED <<kind, claude, record, row, of>>
    BY <1>7, GivenUp
  <2>2. run' \in Runs /\ fate' \in [RunIds -> {"kept", "cut", "abandoned", "unsaved"}]
    BY <1>7, <2>1, GivenUp DEF TypesOK
  <2> QED
    BY <1>1, <2>1, <2>2 DEF TypesOK
<1>8. CASE Exit \/ Crash
  <2>1. /\ run' = NoRun /\ NoRun \in Runs /\ claude' \in Claudes
        /\ fate' \in {fate, [fate EXCEPT ![run.id] = "cut"]}
        /\ UNCHANGED <<kind, record, row, of>>
    BY <1>8, NoRunLeft
  <2>2. NoRun.phase = "idle"
    BY DEF NoRun
  <2> QED
    BY <1>1, <2>1, <2>2 DEF TypesOK
<1> QED
  BY <1>3, <1>4, <1>5, <1>6, <1>7, <1>8, Steps

\* Every step keeps what is known of the run going.
LEMMA RunKept == TypesOK /\ RunIsNewest /\ TurnsBooks /\ [Next]_vars => RunIsNewest'
<1> SUFFICES ASSUME TypesOK, RunIsNewest, TurnsBooks, [Next]_vars PROVE RunIsNewest'
  OBVIOUS
<1>1. RunIds = 1..MaxRuns /\ MaxRuns \in Nat
  BY TurnsAssumption DEF RunIds, TurnsAssumption
<1>2. run \in Runs /\ run.hard \in BOOLEAN
  BY RunFields DEF TypesOK
<1>3. CASE Moves
  BY <1>3 DEF Moves, Further, RunIsNewest, Live
<1>4. CASE Still
  BY <1>4 DEF Still, RunIsNewest, Live
<1>5. CASE Start
  <2>1. PICK id \in RunIds, session \in 1..MaxRuns :
              /\ row[id] = "none" /\ \A q \in 1..(id - 1) : row[q] # "none"
              /\ run' \in Runs /\ run'.id = id /\ run'.session = session /\ run'.phase = "create"
              /\ run'.hard = FALSE
              /\ of' = [of EXCEPT ![id] = session] /\ row' = [row EXCEPT ![id] = "open"]
              /\ fate' = fate
    BY <1>5, Starting
  <2>2. row'[id] = "open" /\ of'[id] = session /\ fate'[id] = "kept"
    BY <2>1 DEF TypesOK, TurnsBooks, SessionsKnown
  <2>3. \A r \in RunIds : r > id => row'[r] = "none"
    BY <1>1, <2>1 DEF TypesOK, TurnsBooks, StartedInOrder
  <2> QED
    BY <2>1, <2>2, <2>3 DEF RunIsNewest, Live
<1>6. CASE CreateFails \/ Close
  <2>1. /\ Further(run, run') /\ run'.phase = "over" /\ Live /\ of' = of
        /\ run.id \in RunIds
        /\ row' \in {row, [row EXCEPT ![run.id] = run'.outcome]}
        /\ fate' \in {fate, Unsaved}
    BY <1>6, Ending
  <2>2. run'.outcome \in Outcomes /\ "none" \notin Outcomes
    BY <2>1, RunFields DEF Further, Outcomes
  <2>3. /\ \A r \in RunIds : r # run.id => row'[r] = row[r]
        /\ row'[run.id] # "none"
    BY <2>1, <2>2 DEF TypesOK, RunIsNewest, Live
  <2>4. run.hard => fate'[run.id] \in {"cut", "abandoned"}
    BY <2>1 DEF TypesOK, RunIsNewest, Live, Unsaved
  <2> QED
    BY <1>1, <2>1, <2>3, <2>4 DEF RunIsNewest, Live, Further
<1>7. CASE GiveUp
  <2>1. /\ run'.id = run.id /\ run'.session = run.session
        /\ run'.phase \in {"kill", "closing", "over"} /\ run'.hard = TRUE
        /\ Live /\ run.id \in RunIds
        /\ fate' = [fate EXCEPT ![run.id] = IF run.phase = "reap" THEN "abandoned" ELSE "cut"]
        /\ UNCHANGED <<row, of>>
    BY <1>7, GivenUp
  <2>2. fate'[run.id] \in {"cut", "abandoned"}
    BY <2>1 DEF TypesOK
  <2> QED
    BY <2>1, <2>2 DEF RunIsNewest, Live
<1>8. CASE Exit \/ Crash
  <2>1. run' = NoRun
    BY <1>8, NoRunLeft
  <2>2. run'.phase = "idle" /\ run'.hard = FALSE
    BY <2>1 DEF NoRun
  <2> QED
    BY <2>1, <2>2 DEF RunIsNewest, Live
<1> QED
  BY <1>3, <1>4, <1>5, <1>6, <1>7, <1>8, Steps

\* The last run of a session is the newest where the newest is of that session.
LEMMA NewestIsLast ==
    ASSUME TypesOK, RunIsNewest, TurnsBooks, run.phase # "idle",
           NEW q \in RunIds, of[q] = run.session, \A p \in RunIds : p > q => of[p] # run.session
    PROVE  q = run.id
<1>1. run.id \in RunIds /\ of[run.id] = run.session /\ of[run.id] # 0 /\ q \in Int /\ run.id \in Int
  BY TurnsAssumption
  DEF TypesOK, RunIsNewest, TurnsBooks, SessionsKnown, RunIds, TurnsAssumption
<1>2. q > run.id => of[q] = 0
  BY DEF RunIsNewest, TurnsBooks, SessionsKnown
<1> QED
  BY <1>1, <1>2

\* A step that leaves the rows alone, the record but for a session that goes on, and the
\* fate of every run but the one going.
LEMMA BooksFrame ==
    ASSUME TypesOK, RunIsNewest, TurnsBooks,
           record' \in {record, Saved("none")}, record' # record => Live,
           \A r \in RunIds : fate'[r] = fate[r] \/ (r = run.id /\ Live),
           UNCHANGED <<kind, row, of>>
    PROVE  TurnsBooks'
<1>1. \A r \in RunIds : fate[r] = "unsaved" \/ row[r] = "none" => fate'[r] = fate[r]
  BY DEF RunIsNewest
<1>2. RunIds = 1..MaxRuns /\ MaxRuns \in Nat /\ kind \in {"work", "triage"}
  BY TurnsAssumption DEF RunIds, TurnsAssumption, TypesOK
<1>3. StartedInOrder'
  BY DEF TurnsBooks, StartedInOrder
<1>4. ResumesInterrupted'
  BY <1>1, <1>2 DEF TurnsBooks, ResumesInterrupted, Last
<1>5. \A q \in RunIds : Interrupted(q) => Interrupted(q)'
  BY <1>1 DEF Interrupted
<1>6. CASE record' = record
  BY <1>1, <1>3, <1>4, <1>5, <1>6 DEF TurnsBooks, SessionsKnown, RecordTells
<1>7. CASE record' # record
  <2>1. Live /\ run.phase # "idle" /\ run.id \in RunIds /\ row[run.id] = "open"
    BY <1>7 DEF Live, RunIsNewest
  <2>2. kind = "work" /\ record' = [session |-> run.session, last |-> "none"]
    BY <1>7 DEF Saved
  <2>3. run.session \in 1..run.id
    BY <2>1 DEF RunIsNewest, TurnsBooks, SessionsKnown
  <2>4. row[run.session] # "none"
    BY <1>2, <2>1, <2>3 DEF TurnsBooks, StartedInOrder
  <2>5. SessionsKnown'
    BY <1>1, <1>2, <2>2, <2>4 DEF TurnsBooks, SessionsKnown
  <2>6. RecordTells'
    BY <2>1, <2>2, NewestIsLast DEF RecordTells, Interrupted
  <2> QED
    BY <1>3, <1>4, <2>5, <2>6 DEF TurnsBooks
<1> QED
  BY <1>6, <1>7

\* A run that starts on an earlier session takes up one whose last run was interrupted.
LEMMA BooksStart == ASSUME TypesOK, RunIsNewest, TurnsBooks, Start PROVE TurnsBooks'
<1>1. PICK id \in RunIds, session \in 1..MaxRuns :
         /\ row[id] = "none" /\ \A q \in 1..(id - 1) : row[q] # "none"
         /\ session = id \/ (/\ session = record.session /\ record.last \in {"none", "cancelled"}
                             /\ row[session] # "none" /\ kind = "work")
         /\ of' = [of EXCEPT ![id] = session] /\ row' = [row EXCEPT ![id] = "open"]
         /\ UNCHANGED <<kind, record, fate>>
  BY Starting
<1>2. RunIds = 1..MaxRuns /\ MaxRuns \in Nat
  BY TurnsAssumption DEF RunIds, TurnsAssumption
<1>3. /\ row'[id] = "open" /\ of'[id] = session
      /\ \A r \in RunIds : r # id => row'[r] = row[r] /\ of'[r] = of[r]
      /\ of[id] = 0
  BY <1>1 DEF TypesOK, TurnsBooks, SessionsKnown
<1>4. /\ \A r \in RunIds : r < id => row[r] # "none"
      /\ \A r \in RunIds : r > id => row[r] = "none" /\ of[r] = 0
  BY <1>1, <1>2 DEF TurnsBooks, StartedInOrder, SessionsKnown
<1>5. session \in 1..id
  BY <1>1, <1>2, <1>4
<1>6. StartedInOrder'
  BY <1>2, <1>3, <1>4 DEF StartedInOrder
<1>7. SessionsKnown'
  <2>1. \A r \in RunIds : IF row'[r] = "none" THEN of'[r] = 0 /\ fate'[r] = "kept" ELSE of'[r] \in 1..r
    BY <1>1, <1>3, <1>5 DEF TurnsBooks, SessionsKnown
  <2>2. record.session # 0 => row'[record.session] # "none"
    BY <1>1, <1>2, <1>3 DEF TypesOK, TurnsBooks, SessionsKnown
  <2> QED
    BY <1>1, <2>1, <2>2 DEF TurnsBooks, SessionsKnown
<1>8. \A q \in RunIds : Interrupted(q) => Interrupted(q)'
  BY <1>1, <1>3 DEF Interrupted
<1>9. Interrupted(id)'
  BY <1>3 DEF Interrupted
<1>10. RecordTells'
  <2> SUFFICES ASSUME record.session # 0, record.last \in {"none", "cancelled"}, NEW q \in RunIds,
                      of'[q] = record.session, \A p \in RunIds : p > q => of'[p] # record.session
               PROVE  Interrupted(q)'
    BY <1>1 DEF RecordTells
  <2>1. CASE q = id
    BY <1>9, <2>1
  <2>2. CASE q # id
    <3>1. of[q] = record.session /\ \A p \in RunIds : p > q => of[p] # record.session
      BY <1>3, <2>2
    <3> QED
      BY <1>8, <3>1 DEF TurnsBooks, RecordTells
  <2> QED
    BY <2>1, <2>2
<1>11. ResumesInterrupted'
  <2> SUFFICES ASSUME NEW r \in RunIds, of'[r] \notin {0, r}, NEW q \in 1..(r - 1), of'[q] = of'[r],
                      \A p \in (q + 1)..(r - 1) : of'[p] # of'[r]
               PROVE  Interrupted(q)'
    BY DEF ResumesInterrupted, Last, Interrupted
  <2>1. q \in RunIds /\ q < r /\ r <= id
    BY <1>2, <1>3, <1>4
  <2>2. CASE r = id
    <3>1. /\ session = record.session /\ record.last \in {"none", "cancelled"} /\ record.session # 0
          /\ of[q] = record.session
      BY <1>1, <1>3, <2>1, <2>2
    <3>2. \A p \in RunIds : p > q => of[p] # record.session
      BY <1>2, <1>3, <1>4, <2>1, <2>2, <3>1
    <3> QED
      BY <1>8, <2>1, <3>1, <3>2 DEF TurnsBooks, RecordTells
  <2>3. CASE r # id
    <3>1. /\ of[r] \notin {0, r} /\ of[q] = of[r]
          /\ \A p \in (q + 1)..(r - 1) : of[p] # of[r]
      BY <1>2, <1>3, <2>1, <2>3
    <3>2. Interrupted(q)
      BY <3>1 DEF TurnsBooks, ResumesInterrupted, Last, Interrupted
    <3> QED
      BY <1>8, <2>1, <3>2
  <2> QED
    BY <2>2, <2>3
<1> QED
  BY <1>6, <1>7, <1>10, <1>11 DEF TurnsBooks

\* The end of a run is told as it is recorded, or its record was not written.
LEMMA BooksEnd == ASSUME TypesOK, RunIsNewest, TurnsBooks, CreateFails \/ Close PROVE TurnsBooks'
<1>1. /\ Live /\ run.id \in RunIds /\ UNCHANGED <<kind, of>> /\ run'.outcome \in Outcomes
      /\ row' = IF run.hard THEN row ELSE [row EXCEPT ![run.id] = run'.outcome]
      /\ \/ record' = record /\ (fate' = Unsaved \/ (kind = "triage" /\ fate' = fate))
         \/ /\ kind = "work" /\ fate' = fate /\ run'.outcome = run.outcome
            /\ record' = [session |-> run.session, last |-> run.outcome]
  <2>1. run' \in Runs
    BY Ending DEF Further
  <2>2. run'.outcome \in Outcomes
    BY <2>1, RunFields
  <2>3. \/ record' = record /\ (fate' = Unsaved \/ (kind = "triage" /\ fate' = fate))
        \/ /\ kind = "work" /\ fate' = fate /\ run'.outcome = run.outcome
           /\ record' = [session |-> run.session, last |-> run.outcome]
    BY Ending
  <2>4. row' = IF run.hard THEN row ELSE [row EXCEPT ![run.id] = run'.outcome]
    BY Ending
  <2>5. Live /\ run.id \in RunIds /\ UNCHANGED <<kind, of>>
    BY Ending
  <2> QED
    BY <2>2, <2>3, <2>4, <2>5
<1>2. RunIds = 1..MaxRuns /\ MaxRuns \in Nat /\ "none" \notin Outcomes
  BY TurnsAssumption DEF RunIds, TurnsAssumption, Outcomes
<1>3. /\ \A r \in RunIds : r # run.id => row'[r] = row[r] /\ fate'[r] = fate[r]
      /\ row'[run.id] # "none" /\ row[run.id] = "open"
      /\ row'[run.id] \in {"open", run'.outcome}
      /\ run.phase # "idle" /\ run.session \in 1..run.id
      /\ \A r \in RunIds : row[r] # "none" => r <= run.id
      /\ \A r \in RunIds : r <= run.id => row[r] # "none"
  <2>1. /\ row[run.id] = "open" /\ run.phase # "idle" /\ of[run.id] = run.session
        /\ \A r \in RunIds : r > run.id => row[r] = "none"
    BY <1>1 DEF RunIsNewest, Live
  <2>2. /\ \A r \in RunIds : r # run.id => row'[r] = row[r]
        /\ row'[run.id] \in {"open", run'.outcome}
    BY <1>1, <2>1 DEF TypesOK
  <2>3. \A r \in RunIds : r # run.id => fate'[r] = fate[r]
    BY <1>1 DEF TypesOK, Unsaved
  <2>4. run.session \in 1..run.id
    BY <1>1, <2>1 DEF TurnsBooks, SessionsKnown
  <2>5. \A r \in RunIds : r <= run.id => row[r] # "none"
    BY <1>1, <1>2, <2>1 DEF TurnsBooks, StartedInOrder
  <2>6. \A r \in RunIds : row[r] # "none" => r <= run.id
    BY <1>1, <1>2, <2>1
  <2> QED
    BY <1>1, <1>2, <2>1, <2>2, <2>3, <2>4, <2>5, <2>6
<1>4. StartedInOrder'
  BY <1>3 DEF TurnsBooks, StartedInOrder
<1>5. row'[run.session] # "none"
  BY <1>1, <1>2, <1>3
<1>6. SessionsKnown'
  <2>1. \A r \in RunIds : IF row'[r] = "none" THEN of'[r] = 0 /\ fate'[r] = "kept" ELSE of'[r] \in 1..r
    BY <1>1, <1>3 DEF TurnsBooks, SessionsKnown
  <2>2. record'.session # 0 => row'[record'.session] # "none"
    <3>1. CASE record' = record
      <4>1. record.session # 0 => record.session \in RunIds /\ row[record.session] # "none"
        BY <1>2 DEF TypesOK, Records, TurnsBooks, SessionsKnown
      <4> QED
        BY <1>3, <3>1, <4>1
    <3>2. CASE record' = [session |-> run.session, last |-> run.outcome]
      BY <1>5, <3>2
    <3> QED
      BY <1>1, <3>1, <3>2
  <2>3. kind' = "triage" => record' = NoRecord
    BY <1>1 DEF TurnsBooks, SessionsKnown
  <2> QED
    BY <2>1, <2>2, <2>3 DEF SessionsKnown
<1>7. ResumesInterrupted'
  <2> SUFFICES ASSUME NEW r \in RunIds, of[r] \notin {0, r}, NEW q \in Last(r)
               PROVE  Interrupted(q)'
    BY <1>1 DEF ResumesInterrupted, Last, Interrupted
  <2>1. q \in RunIds /\ q < r /\ Interrupted(q)
    BY <1>2 DEF TurnsBooks, ResumesInterrupted, Last, Interrupted
  <2>2. q # run.id
    BY <1>1, <1>2, <1>3, <2>1 DEF TurnsBooks, SessionsKnown
  <2> QED
    BY <1>3, <2>1, <2>2 DEF Interrupted
<1>8. RecordTells'
  <2> SUFFICES ASSUME record'.session # 0, record'.last \in {"none", "cancelled"}, NEW q \in RunIds,
                      of[q] = record'.session, \A p \in RunIds : p > q => of[p] # record'.session
               PROVE  Interrupted(q)'
    BY <1>1 DEF RecordTells
  <2>1. CASE record' = record /\ (fate' = Unsaved \/ kind = "triage")
    <3>1. Interrupted(q)
      BY <2>1 DEF TurnsBooks, RecordTells
    <3>2. CASE q # run.id
      BY <1>3, <3>1, <3>2 DEF Interrupted
    <3>3. CASE q = run.id /\ fate' = Unsaved
      <4>1. run.hard \/ fate'[run.id] = "unsaved"
        BY <1>1, <3>3 DEF RunIsNewest, TypesOK, Unsaved
      <4>2. run.hard => row'[run.id] = "open"
        BY <1>1, <1>3
      <4> QED
        BY <3>3, <4>1, <4>2 DEF Interrupted
    <3>4. CASE kind = "triage"
      BY <2>1, <3>4 DEF TurnsBooks, SessionsKnown, NoRecord
    <3> QED
      BY <1>1, <2>1, <3>2, <3>3, <3>4
  <2>2. CASE record' = [session |-> run.session, last |-> run.outcome] /\ run'.outcome = run.outcome
    <3>1. q = run.id
      BY <1>3, <2>2, NewestIsLast
    <3>2. run.outcome = "cancelled"
      BY <1>1, <1>2, <2>2
    <3> QED
      BY <1>3, <2>2, <3>1, <3>2 DEF Interrupted
  <2> QED
    BY <1>1, <2>1, <2>2
<1> QED
  BY <1>4, <1>6, <1>7, <1>8 DEF TurnsBooks

\* Every step keeps the books.
LEMMA BooksKept == TypesOK /\ RunIsNewest /\ TurnsBooks /\ [Next]_vars => TurnsBooks'
<1> SUFFICES ASSUME TypesOK, RunIsNewest, TurnsBooks, [Next]_vars PROVE TurnsBooks'
  OBVIOUS
<1>1. CASE Moves
  BY <1>1, BooksFrame DEF Moves
<1>2. CASE Still
  BY <1>2, BooksFrame DEF Still
<1>3. CASE GiveUp
  BY <1>3, GivenUp, BooksFrame DEF TypesOK
<1>4. CASE Exit \/ Crash
  BY <1>4, NoRunLeft, BooksFrame DEF TypesOK
<1> QED
  BY <1>1, <1>2, <1>3, <1>4, BooksStart, BooksEnd, Steps

\* Every step keeps the end of each run complete: what ends a run tells of it, and leaves no
\* claude but one that the shutdown gave up on.
LEMMA EndsKept == TypesOK /\ RunIsNewest /\ TurnsBooks /\ EndsWell /\ [Next]_vars => EndsWell'
<1> SUFFICES ASSUME TypesOK, RunIsNewest, TurnsBooks, EndsWell, [Next]_vars PROVE EndsWell'
  OBVIOUS
<1> \A r \in RunIds : run.phase = "idle" => r # run.id
  BY TurnsAssumption DEF RunIsNewest, NoRun, RunIds, TurnsAssumption
<1>1. CASE Moves
  <2>1. NoneLeftBehind'
    BY <1>1 DEF Moves, EndsWell, NoneLeftBehind, AtClaude
  <2>2. EveryRunEnds'
    BY <1>1 DEF Moves, Further, EndsWell, EveryRunEnds
  <2> QED
    BY <2>1, <2>2 DEF EndsWell
<1>2. CASE Still
  BY <1>2 DEF Still, EndsWell, NoneLeftBehind, EveryRunEnds
<1>3. CASE Start
  <2>1. PICK id \in RunIds, session \in 1..MaxRuns :
           /\ run.phase = "idle" /\ run'.id = id /\ run'.phase = "create"
           /\ row' = [row EXCEPT ![id] = "open"] /\ UNCHANGED <<claude, fate>>
    BY <1>3, Starting
  <2>2. NoneLeftBehind'
    BY <2>1 DEF EndsWell, NoneLeftBehind, LeaderLives
  <2>3. EveryRunEnds'
    BY <2>1 DEF EndsWell, EveryRunEnds, TypesOK
  <2> QED
    BY <2>2, <2>3 DEF EndsWell
<1>4. CASE CreateFails \/ Close
  <2>1. /\ run'.id = run.id /\ Live /\ run.phase \in {"create", "closing"} /\ claude' = claude
        /\ run.id \in RunIds /\ run'.outcome \in Outcomes
        /\ row' = IF run.hard THEN row ELSE [row EXCEPT ![run.id] = run'.outcome]
    <3>1. run' \in Runs
      BY <1>4, Ending DEF Further
    <3>2. run'.outcome \in Outcomes
      BY <3>1, RunFields
    <3>3. run.phase \in {"create", "closing"}
      BY <1>4 DEF CreateFails, Create, Close
    <3> QED
      BY <1>4, <3>2, <3>3, Ending DEF Further
  <2>2. \A r \in RunIds : fate[r] # "kept" => fate'[r] = fate[r]
    <3>1. fate' \in {fate, Unsaved}
      BY <1>4, Ending
    <3> QED
      BY <3>1 DEF TypesOK, Unsaved
  <2>3. NoneLeftBehind'
    BY <2>1, <2>2 DEF EndsWell, NoneLeftBehind, LeaderLives
  <2>4. EveryRunEnds'
    <3> SUFFICES ASSUME NEW r \in RunIds, row'[r] = "open" PROVE fate'[r] \in {"cut", "abandoned"}
      BY DEF EveryRunEnds
    <3>1. CASE r = run.id
      <4>1. run.hard
        BY <2>1, <3>1 DEF TypesOK, Outcomes
      <4> QED
        BY <2>2, <3>1, <4>1 DEF RunIsNewest
    <3>2. CASE r # run.id
      <4>1. row[r] = "open"
        BY <2>1, <3>2 DEF TypesOK
      <4> QED
        BY <2>2, <3>2, <4>1 DEF EndsWell, EveryRunEnds
    <3> QED
      BY <3>1, <3>2
  <2> QED
    BY <2>3, <2>4 DEF EndsWell
<1>5. CASE GiveUp
  <2>1. /\ run'.id = run.id /\ Live /\ run.hard = FALSE /\ run.id \in RunIds
        /\ fate' = [fate EXCEPT ![run.id] = IF run.phase = "reap" THEN "abandoned" ELSE "cut"]
        /\ UNCHANGED <<claude, row>>
    BY <1>5, GivenUp
  <2>2. /\ \A r \in RunIds : r # run.id => fate'[r] = fate[r]
        /\ fate'[run.id] \in {"cut", "abandoned"} /\ fate[run.id] = "kept"
        /\ run.phase = "reap" => fate'[run.id] = "abandoned"
    BY <2>1 DEF TypesOK, RunIsNewest
  <2>3. run.phase \in {"turn", "kill"} => run'.phase = "kill"
    <3>1. run.phase \in {"turn", "kill"} => Forced(run.phase) = "kill"
      BY DEF Forced
    <3>2. Forced(run.phase) \in Phases
      BY DEF Forced, Phases
    <3> DEFINE s == [run EXCEPT !.hard = TRUE]
    <3>3. s \in Runs
      BY SetHard DEF TypesOK
    <3>4. run' = [s EXCEPT !.phase = Forced(run.phase)]
      BY <1>5 DEF GiveUp
    <3> HIDE DEF s
    <3>5. PICK phase \in Phases : phase = Forced(run.phase)
      BY <3>2
    <3>6. run'.phase = phase
      BY <3>3, <3>4, <3>5, SetPhase
    <3> QED
      BY <3>1, <3>5, <3>6
  <2>4. NoneLeftBehind'
    BY <2>1, <2>2, <2>3 DEF EndsWell, NoneLeftBehind, LeaderLives
  <2>5. EveryRunEnds'
    BY <2>1, <2>2 DEF EndsWell, EveryRunEnds
  <2> QED
    BY <2>4, <2>5 DEF EndsWell
<1>6. CASE Exit \/ Crash
  <2>1. /\ LeaderLives' => Exit /\ LeaderLives
        /\ row' = row
        /\ \/ run.phase \in {"idle", "over"} /\ fate' = fate
           \/ /\ Crash /\ Live /\ run.id \in RunIds
              /\ fate' = [fate EXCEPT ![run.id] = "cut"]
    BY <1>6, NoRunLeft
  <2>2. Exit => run.phase = "over" /\ fate' = fate
    BY DEF Exit, books
  <2>3. NoneLeftBehind'
    BY <2>1, <2>2 DEF EndsWell, NoneLeftBehind
  <2>4. EveryRunEnds'
    <3>1. \A r \in RunIds : r # run.id \/ run.phase \in {"idle", "over"} => fate'[r] = fate[r]
      BY <2>1 DEF TypesOK, Live
    <3>2. Live => fate'[run.id] = "cut"
      BY <2>1 DEF TypesOK, Live
    <3> QED
      BY <2>1, <3>1, <3>2 DEF EndsWell, EveryRunEnds, Live
  <2> QED
    BY <2>3, <2>4 DEF EndsWell
<1> QED
  BY <1>1, <1>2, <1>3, <1>4, <1>5, <1>6, Steps
-----------------------------------------------------------------------------
\* The invariant holds throughout.
THEOREM TurnsInvariance == Spec => []TurnsInv
<1>1. Init => TurnsInv
  <2> SUFFICES ASSUME Init PROVE TurnsInv
    OBVIOUS
  <2>1. RunIds = 1..MaxRuns /\ MaxRuns \in Nat /\ MaxTurns \in Nat
    BY TurnsAssumption DEF RunIds, TurnsAssumption
  <2>2. run = NoRun /\ claude = NoClaude /\ record = NoRecord
    BY DEF Init
  <2>3. NoRun \in Runs /\ NoRun.phase = "idle" /\ NoRun.hard = FALSE
    BY <2>1 DEF NoRun, Runs, Phases, Outcomes, Causes, Verdicts, Stops
  <2>4. NoClaude \in Claudes /\ NoClaude.leader = "none"
    BY DEF NoClaude, Claudes
  <2>5. NoRecord \in Records /\ NoRecord.session = 0
    BY <2>1 DEF NoRecord, Records
  <2>6. TypesOK
    <3>1. /\ run \in Runs /\ run.phase = "idle" /\ claude \in Claudes /\ record \in Records
      BY <2>2, <2>3, <2>4, <2>5
    <3>2. /\ row \in [RunIds -> {"none", "open"} \cup Outcomes]
          /\ of \in [RunIds -> 0..MaxRuns]
          /\ fate \in [RunIds -> {"kept", "cut", "abandoned", "unsaved"}]
      BY <2>1 DEF Init
    <3> QED
      BY <3>1, <3>2 DEF Init, TypesOK
  <2>7. RunIsNewest
    BY <2>2, <2>3 DEF RunIsNewest, Live
  <2>8. TurnsBooks
    BY <2>2, <2>5
    DEF Init, TurnsBooks, StartedInOrder, SessionsKnown, RecordTells, ResumesInterrupted
  <2>9. EndsWell
    BY <2>2, <2>4 DEF Init, EndsWell, NoneLeftBehind, EveryRunEnds, LeaderLives
  <2> QED
    BY <2>6, <2>7, <2>8, <2>9 DEF TurnsInv
<1>2. TurnsInv /\ [Next]_vars => TurnsInv'
  BY TypesKept, RunKept, BooksKept, EndsKept DEF TurnsInv
<1> QED
  BY <1>1, <1>2, PTL DEF Spec

\* A session that is resumed was interrupted, as the rows tell, or its end was not recorded.
THEOREM ResumedWereInterrupted == Spec => []ResumesInterrupted
<1>1. TurnsInv => ResumesInterrupted
  BY DEF TurnsInv, TurnsBooks
<1> QED
  BY <1>1, TurnsInvariance, PTL

\* No claude is left behind a run, and every run is told to have ended, but for what a kill
\* cut off and what the shutdown gave up on.
THEOREM RunsEndWell == Spec => []EndsWell
<1>1. TurnsInv => EndsWell
  BY DEF TurnsInv
<1> QED
  BY <1>1, TurnsInvariance, PTL
=============================================================================
