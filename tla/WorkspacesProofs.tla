--------------------------- MODULE WorkspacesProofs ---------------------------
(***************************************************************************)
(* The sessions of a pool stay apart, and so do their workspaces, for any  *)
(* number of issues and accounts, any values agent.run_as takes and any    *)
(* number of failures, kills, reloads and acts of a human.                 *)
(***************************************************************************)
EXTENDS Workspaces, TLAPS

Owners == Accounts \cup {NoOne}
RunEntries == [account : Owners, phase : {"none", "starting", "cloning", "session", "over"}]
Phases == {"cloning", "session"}
States == {"active", "closed", "rested"}
\* What the orchestrator may be in the middle of.
Removals == [of : Issues \cup {NoOne}, account : Owners, at : {"none", "label", "unlink"}]
Tasks == [doing : {"free", "sweep", "retry", "finished", "discard"},
          left : SUBSET Issues, removal : Removals]

TypeOK ==
    /\ WorkspacesTypeOK
    /\ orch \in Tasks
    /\ orch.removal.at # "none" => orch.removal.of \in Issues /\ orch.removal.account \in Accounts

\* The clone under a run is as far as the run is.
Fits(dir, run) ==
    /\ run.phase = "cloning" =>
          dir.tree = "partial" /\ dir.owner = run.account /\ dir.open = run.account
    /\ run.phase = "session" =>
          dir.tree = "whole" /\ dir.owner = run.account /\ dir.open = run.account

\* How an issue's directory, its run, its state and the removal under way go together.
Good(i, dir, run, state, removal) ==
    /\ run = NoRun \/ (run.account \in Accounts /\ run.phase # "none")
    /\ Fits(dir, run)
    /\ dir.open # NoOne =>
          \/ run.phase \in Phases /\ run.account = dir.open
          \/ removal.of = i /\ removal.account = dir.open
    /\ removal.of = i => run = NoRun /\ IF removal.at = "unlink" THEN dir.tree # "none"
                                                               ELSE dir.open = NoOne
    /\ state = "rested" => run = NoRun

Asks(i, dir, state) ==
    state = "rested" /\ i \notin Triaged /\ dir.tree # "none" => dir.finished \/ dir.lost # "no"

IInv ==
    /\ TypeOK
    /\ SessionsApart
    /\ up => \A i \in Issues : Good(i, disk[i], running[i], issue[i], orch.removal)
    /\ ~up => (\A i \in Issues : running[i] = NoRun) /\ orch = Free
    /\ \A i \in retries : running[i] = NoRun
    /\ \A i \in Issues : Asks(i, disk[i], issue[i])
-----------------------------------------------------------------------------
\* The account and the issue that stand for none are none.
LEMMA NoOneIsNone == NoOne \notin Accounts /\ NoOne \notin Issues
  BY WorkspaceAssumption DEF WorkspaceAssumption

\* What is done to a directory is done to the part that it says.
LEMMA Edited ==
    ASSUME NEW d \in Directory
    PROVE  /\ Seal(d) \in Directory /\ Seal(d).open = NoOne
           /\ Seal(d).tree = d.tree /\ Seal(d).finished = d.finished /\ Seal(d).lost = d.lost
           /\ \A t \in {"none", "partial", "whole"} :
                 LET dir == [d EXCEPT !.tree = t] IN
                 /\ dir \in Directory /\ dir.tree = t /\ dir.open = d.open
                 /\ dir.owner = d.owner /\ dir.finished = d.finished
  BY DEF Directory, Seal

\* A workspace that is to go is marked, or says why not.
LEMMA Marked ==
    ASSUME NEW d \in Directory, NEW written \in BOOLEAN
    PROVE  LET dir == MarkFinished(d, written) IN
           /\ dir \in Directory /\ dir.tree = d.tree /\ dir.open = d.open
           /\ dir.finished \/ dir.lost # "no"
  <1>1. CASE written
    BY <1>1 DEF Directory, MarkFinished
  <1>2. CASE ~written
    BY <1>2 DEF Directory, MarkFinished
  <1> QED
    BY <1>1, <1>2

\* The same of who may enter it.
LEMMA Shared ==
    ASSUME NEW d \in Directory, NEW a \in Owners
    PROVE  /\ Share(d, a) \in Directory /\ Share(d, a).open = a
           /\ Share(d, a).tree = d.tree /\ Share(d, a).owner = d.owner
           /\ Share(d, a).finished = d.finished /\ Share(d, a).lost = d.lost
  BY DEF Directory, Share, Owners

\* What an unlink has come to is a directory still.
LEMMA TornIs ==
    ASSUME NEW d \in Directory, d.tree # "none", NEW dir \in Torn(d)
    PROVE  /\ dir \in Directory /\ dir.tree # "none" /\ dir.open = d.open
           /\ dir.lost = d.lost
  <1>1. PICK tree \in {"partial", d.tree}, finished \in {FALSE, d.finished} :
           dir = [d EXCEPT !.tree = tree, !.finished = finished]
    BY DEF Torn
  <1>2. tree \in {"partial", "whole"} /\ finished \in BOOLEAN
    BY DEF Directory
  <1> QED
    BY <1>1, <1>2 DEF Directory

\* At first there are no directories and no runs.
LEMMA InvInit == Init => IInv
  <1> SUFFICES ASSUME Init PROVE IInv
    OBVIOUS
  <1>1. Absent \in Directory /\ Absent.open = NoOne /\ Absent.tree = "none"
    BY DEF Absent, Directory
  <1>2. NoRun \in RunEntries /\ NoRun.phase = "none"
    BY DEF NoRun, RunEntries, Owners
  <1>3. orch.removal \in Removals /\ orch.removal.at = "none" /\ orch.left = {}
        /\ orch.removal.of = NoOne
    BY DEF Init, Free, NoRemoval, Removals, Owners
  <1>4. TypeOK
    BY <1>1, <1>2, <1>3 DEF Init, Free, Tasks, TypeOK, WorkspacesTypeOK, RunEntries, Owners
  <1>5. SessionsApart
    BY DEF Init, SessionsApart, Runs, IsRunning
  <1>6. \A i \in Issues : Good(i, disk[i], running[i], issue[i], orch.removal)
    BY <1>1, <1>2, <1>3, NoOneIsNone DEF Init, Good, Fits
  <1>7. \A i \in Issues : Asks(i, disk[i], issue[i])
    BY DEF Init, Asks
  <1> QED
    BY <1>4, <1>5, <1>6, <1>7 DEF Init, IInv

\* A step that is about one issue, of a worker that is up.
LEMMA OneIssue ==
    ASSUME IInv, up, NEW i \in Issues,
           NEW dir \in Directory, NEW run \in RunEntries, NEW state \in States,
           disk' = [disk EXCEPT ![i] = dir],
           running' = [running EXCEPT ![i] = run],
           issue' = [issue EXCEPT ![i] = state],
           up' = up, pool' \in Pools, bindings' \in [Issues -> Owners],
           \A j \in retries' : IF j = i THEN run = NoRun ELSE j \in retries,
           retries' \subseteq Issues, discards' \subseteq Issues,
           orch' \in Tasks,
           (orch.removal.at)' # "none" =>
               (orch.removal.of)' \in Issues /\ (orch.removal.account)' \in Accounts,
           \/ (orch.removal)' = orch.removal
           \/ orch.removal.of \in {NoOne, i} /\ (orch.removal.of)' \in {NoOne, i},
           Good(i, dir, run, state, orch'.removal),
           Asks(i, dir, state),
           run = NoRun \/ \A j \in Runs : j # i => running[j].account # run.account
    PROVE  IInv'
  <1>1. /\ disk \in [Issues -> Directory] /\ running \in [Issues -> RunEntries]
        /\ issue \in [Issues -> States]
    BY DEF IInv, TypeOK, WorkspacesTypeOK, RunEntries, Owners, States
  <1>2. /\ disk'[i] = dir /\ running'[i] = run /\ issue'[i] = state
        /\ \A j \in Issues : j # i =>
              disk'[j] = disk[j] /\ running'[j] = running[j] /\ issue'[j] = issue[j]
    BY <1>1
  <1>3. TypeOK'
    <2>1. /\ disk' \in [Issues -> Directory] /\ running' \in [Issues -> RunEntries]
          /\ issue' \in [Issues -> States]
      BY <1>1
    <2>2. up' \in BOOLEAN
      BY DEF IInv, TypeOK, WorkspacesTypeOK
    <2>3. (orch.left)' \subseteq Issues
      BY DEF Tasks
    <2> QED
      BY <2>1, <2>2, <2>3 DEF TypeOK, WorkspacesTypeOK, RunEntries, Owners, States
  <1>4. SessionsApart'
    <2>1. SUFFICES ASSUME NEW j \in Issues, NEW k \in Issues, j # k,
                          running'[j] # NoRun, running'[k] # NoRun
                   PROVE  running'[j].account # running'[k].account
      BY DEF SessionsApart, Runs, IsRunning
    <2>2. CASE j # i /\ k # i
      BY <1>2, <2>1, <2>2 DEF IInv, SessionsApart, Runs, IsRunning
    <2>3. CASE j = i
      BY <1>2, <2>1, <2>3 DEF Runs, IsRunning
    <2>4. CASE k = i
      BY <1>2, <2>1, <2>4 DEF Runs, IsRunning
    <2> QED
      BY <2>2, <2>3, <2>4
  <1>5. ASSUME NEW j \in Issues
        PROVE  Good(j, disk[j], running[j], issue[j], orch.removal)'
    <2>1. CASE j = i
      BY <1>2, <2>1
    <2>2. CASE j # i
      <3>1. Good(j, disk[j], running[j], issue[j], orch.removal)
        BY DEF IInv
      <3>2. CASE (orch.removal)' = orch.removal
        BY <1>2, <2>2, <3>1, <3>2
      <3>3. CASE orch.removal.of \in {NoOne, i} /\ (orch.removal.of)' \in {NoOne, i}
        <4>1. orch.removal.of # j /\ (orch.removal.of)' # j
          BY <2>2, <3>3, NoOneIsNone
        <4> QED
          BY <1>2, <2>2, <3>1, <4>1 DEF Good
      <3> QED
        BY <3>2, <3>3
    <2> QED
      BY <2>1, <2>2
  <1>6. ASSUME NEW j \in Issues PROVE Asks(j, disk[j], issue[j])'
    BY <1>2 DEF IInv, Asks
  <1>7. \A j \in retries' : running'[j] = NoRun
    BY <1>2 DEF IInv
  <1> QED
    BY <1>3, <1>4, <1>5, <1>6, <1>7 DEF IInv

\* What the invariant says of the parts, by name.
LEMMA Typed ==
    ASSUME IInv, NEW i \in Issues
    PROVE  /\ disk \in [Issues -> Directory] /\ disk[i] \in Directory
           /\ running \in [Issues -> RunEntries] /\ running[i] \in RunEntries
           /\ issue \in [Issues -> States] /\ issue[i] \in States
           /\ bindings \in [Issues -> Owners] /\ Loaded \in [Issues -> Owners]
           /\ pool \in Pools /\ retries \subseteq Issues /\ discards \subseteq Issues
           /\ disk = [disk EXCEPT ![i] = disk[i]]
           /\ running = [running EXCEPT ![i] = running[i]]
           /\ issue = [issue EXCEPT ![i] = issue[i]]
           /\ Asks(i, disk[i], issue[i])
           /\ orch \in Tasks
           /\ orch.removal \in Removals
           /\ orch.removal.at # "none" => orch.removal.of \in Issues /\ orch.removal.account \in Accounts
  <1>1. /\ disk \in [Issues -> Directory] /\ running \in [Issues -> RunEntries]
        /\ issue \in [Issues -> States] /\ bindings \in [Issues -> Owners]
        /\ pool \in Pools /\ retries \subseteq Issues /\ discards \subseteq Issues
    BY DEF IInv, TypeOK, WorkspacesTypeOK, RunEntries, Owners, States
  <1>2. Loaded \in [Issues -> Owners]
    BY <1>1 DEF Loaded, Owners
  <1>3. /\ Asks(i, disk[i], issue[i])
        /\ orch \in Tasks
        /\ orch.removal.at # "none" => orch.removal.of \in Issues /\ orch.removal.account \in Accounts
    BY DEF IInv, TypeOK
  <1>4. orch.removal \in Removals
    BY <1>3 DEF Tasks
  <1> QED
    BY <1>1, <1>2, <1>3, <1>4

\* The same of what is not of one issue.
LEMMA TypedBindings ==
    ASSUME IInv
    PROVE  /\ bindings \in [Issues -> Owners] /\ Loaded \in [Issues -> Owners]
           /\ pool \in Pools /\ retries \subseteq Issues /\ discards \subseteq Issues
           /\ orch \in Tasks
  <1>1. bindings \in [Issues -> Owners]
    BY DEF IInv, TypeOK, WorkspacesTypeOK, Owners
  <1>2. Loaded \in [Issues -> Owners]
    BY <1>1 DEF Loaded, Owners
  <1> QED
    BY <1>1, <1>2 DEF IInv, TypeOK, WorkspacesTypeOK

\* A task that is free removes nothing.
LEMMA FreeIs == /\ Free.removal = NoRemoval /\ NoRemoval.of = NoOne /\ NoRemoval.at = "none"
                /\ NoRemoval \in Removals /\ Free.left = {} /\ NoRun.phase = "none"
                /\ NoRun \in RunEntries /\ Free.doing = "free"
                /\ Free \in Tasks
  BY DEF Free, NoRemoval, Removals, Tasks, Owners, NoRun, RunEntries

\* A session's account is nobody else's when it is given (busy_accounts).
LEMMA BoundApart ==
    ASSUME NEW i, NEW a, BindsTo(i, a, BusyAccounts)
    PROVE  \A j \in Runs : running[j].account # a
  BY DEF BindsTo, LeastLoaded, BusyAccounts

\* A dispatch, or a retry that comes due, starts a run of an issue that has none.
LEMMA StartsKeep ==
    ASSUME IInv, NEW i \in Issues, NEW a \in Accounts,
           IsFree, issue[i] = "active", ~IsRunning(i), BindsTo(i, a, BusyAccounts),
           bindings' = (IF Loaded[i] = NoOne THEN [Loaded EXCEPT ![i] = a] ELSE bindings),
           running' = [running EXCEPT ![i] = [account |-> a, phase |-> "starting"]],
           retries' = retries \ {i}, UNCHANGED <<pool, disk, discards, issue, orch, up>>
    PROVE  IInv'
  <1> DEFINE run == [account |-> a, phase |-> "starting"]
  <1>1. run \in RunEntries /\ run.account = a /\ run.phase = "starting" /\ run # NoRun
    BY DEF RunEntries, Owners, NoRun
  <1>2. bindings' \in [Issues -> Owners]
    <2>1. Loaded \in [Issues -> Owners] /\ bindings \in [Issues -> Owners]
      BY Typed
    <2> QED
      BY <2>1 DEF Owners
  <1>3. up /\ orch.removal.of = NoOne /\ i # NoOne
    BY FreeIs, NoOneIsNone DEF IsFree
  <1>4. disk[i].open = NoOne
    BY <1>3, FreeIs DEF IInv, Good, IsRunning, Phases
  <1>5. Good(i, disk[i], run, issue[i], orch.removal)
    BY <1>1, <1>3, <1>4 DEF Good, Fits
  <1>6. \A j \in Runs : running[j].account # a
    BY BoundApart
  <1>7. running' = [running EXCEPT ![i] = run]
    OBVIOUS
  <1>8. up' = up /\ UNCHANGED <<pool, disk, discards, issue, orch>>
    OBVIOUS
  <1> HIDE DEF run
  <1>9. run = NoRun \/ \A j \in Runs : j # i => running[j].account # run.account
    BY <1>1, <1>6
  <1>10. /\ disk' = [disk EXCEPT ![i] = disk[i]] /\ issue' = [issue EXCEPT ![i] = issue[i]]
         /\ disk[i] \in Directory /\ issue[i] \in States /\ Asks(i, disk[i], issue[i])
         /\ pool' \in Pools /\ discards' \subseteq Issues /\ retries' \subseteq Issues
         /\ \A j \in retries' : IF j = i THEN run = NoRun ELSE j \in retries
    BY <1>8, Typed
  <1>11. /\ orch' \in Tasks
         /\ (orch.removal)' = orch.removal
         /\ (orch.removal.at)' # "none" =>
               (orch.removal.of)' \in Issues /\ (orch.removal.account)' \in Accounts
    BY <1>8, Typed
  <1>12. Good(i, disk[i], run, issue[i], orch'.removal)
    BY <1>5, <1>8
  <1> QED
    BY <1>1, <1>2, <1>3, <1>7, <1>8, <1>9, <1>10, <1>11, <1>12, OneIssue

\* A run goes from one phase to another over a directory that fits it, or closes it.
LEMMA RunKeeps ==
    ASSUME IInv, NEW i \in Issues, NEW dir \in Directory, NEW phase \in {"cloning", "session", "over"},
           running[i].phase \in {"starting", "cloning", "session"}, Phase(i, phase),
           disk' = [disk EXCEPT ![i] = dir],
           phase = "cloning" => dir.tree = "partial" /\ dir.owner = running[i].account,
           phase = "session" => dir.tree = "whole" /\ dir.owner = running[i].account,
           dir.open = (IF phase = "over" THEN NoOne ELSE running[i].account),
           UNCHANGED <<pool, bindings, retries, discards, issue, orch, up>>
    PROVE  IInv'
  <1> DEFINE run == [account |-> running[i].account, phase |-> phase]
  <1>1. running' = [running EXCEPT ![i] = run] /\ run \in RunEntries
    <2>1. running \in [Issues -> RunEntries] /\ running[i] \in RunEntries
      BY Typed
    <2>2. running[i] = [account |-> running[i].account, phase |-> running[i].phase]
      BY <2>1 DEF RunEntries
    <2>3. [running[i] EXCEPT !.phase = phase] = run
      BY <2>2
    <2>4. run \in RunEntries
      BY <2>1 DEF RunEntries
    <2>5. running' = [running EXCEPT ![i] = [running[i] EXCEPT !.phase = phase]]
      BY DEF Phase
    <2> QED
      BY <2>3, <2>4, <2>5
  <1>2. run.account = running[i].account /\ run.phase = phase
    OBVIOUS
  <1>3. up /\ running[i] # NoRun
    BY FreeIs DEF IInv
  <1>4. running[i].account \in Accounts /\ orch.removal.of # i /\ issue[i] # "rested"
    BY <1>3 DEF IInv, Good
  <1> HIDE DEF run
  <1>5. Good(i, dir, run, issue[i], orch.removal)
    BY <1>2, <1>4 DEF Good, Fits, Phases
  <1>6. Asks(i, dir, issue[i])
    BY <1>4 DEF Asks
  <1>7. \A j \in Runs : j # i => running[j].account # run.account
    BY <1>2, <1>3 DEF IInv, SessionsApart, Runs, IsRunning
  <1>8. \A j \in retries' : IF j = i THEN run = NoRun ELSE j \in retries
    BY <1>3 DEF IInv
  <1> QED
    BY <1>1, <1>3, <1>5, <1>6, <1>7, <1>8, Typed, OneIssue

\* A clone is reused, made, finished and closed: none of it is seen by another run.
LEMMA RunStep == ASSUME IInv, NEW i \in Issues, Run(i) PROVE IInv'
  <1> DEFINE account == running[i].account
  <1>1. account \in Owners /\ disk[i] \in Directory
    BY Typed DEF RunEntries
  <1>2. CASE Reuse(i)
    <2>1. disk[i].tree = "whole" /\ disk[i].owner = account /\ running[i].phase = "starting"
      BY <1>2 DEF Reuse, IsComplete
    <2> DEFINE shared == Share(disk[i], account)
    <2>2. shared \in Directory /\ shared.open = account /\ shared.tree = "whole" /\ shared.owner = account
      BY <1>1, <2>1, Shared
    <2> DEFINE dropped == [shared EXCEPT !.finished = FALSE, !.lost = "no"]
    <2>3. dropped \in Directory
      BY <2>2 DEF Directory
    <2>4. dropped.open = account /\ dropped.tree = "whole" /\ dropped.owner = account
      BY <2>2 DEF Directory
    <2>5. PICK dir \in {shared, dropped} : disk' = [disk EXCEPT ![i] = dir]
      BY <1>2 DEF Reuse
    <2>6. Phase(i, "session") /\ UNCHANGED <<pool, bindings, retries, discards, issue, orch, up>>
      BY <1>2 DEF Reuse
    <2> HIDE DEF shared, dropped
    <2> QED
      BY <2>1, <2>2, <2>3, <2>4, <2>5, <2>6, RunKeeps
  <1>3. CASE Create(i)
    <2>1. running[i].phase = "starting" /\ UNCHANGED <<pool, bindings, retries, discards, issue, orch, up>>
      BY <1>3 DEF Create
    <2>2. CASE Phase(i, "cloning") /\ disk' = [disk EXCEPT ![i] = [tree |-> "partial", owner |-> account,
                                          open |-> account, finished |-> FALSE, lost |-> "no"]]
      <3> DEFINE dir == [tree |-> "partial", owner |-> account, open |-> account,
                         finished |-> FALSE, lost |-> "no"]
      <3>1. dir \in Directory /\ dir.tree = "partial" /\ dir.owner = account /\ dir.open = account
        BY <1>1 DEF Directory, Owners
      <3> HIDE DEF dir
      <3> QED
        BY <2>1, <2>2, <3>1, RunKeeps DEF dir
    <2>3. CASE Phase(i, "over") /\ disk' = [disk EXCEPT ![i] = Seal([@ EXCEPT !.tree = "partial"])]
      <3>1. [disk[i] EXCEPT !.tree = "partial"] \in Directory
        BY <1>1, Edited
      <3>2. /\ Seal([disk[i] EXCEPT !.tree = "partial"]) \in Directory
            /\ Seal([disk[i] EXCEPT !.tree = "partial"]).open = NoOne
        BY <1>1, <3>1, Edited
      <3> QED
        BY <2>1, <2>3, <3>2, RunKeeps
    <2> QED
      BY <1>3, <2>2, <2>3 DEF Create
  <1>4. CASE Created(i)
    <2>1. running[i].phase = "cloning" /\ UNCHANGED <<pool, bindings, retries, discards, issue, orch, up>>
      BY <1>4 DEF Created
    <2>2. CASE Phase(i, "session") /\ disk' = [disk EXCEPT ![i].tree = "whole"]
      <3> DEFINE dir == [disk[i] EXCEPT !.tree = "whole"]
      <3>1. disk[i].owner = account /\ disk[i].open = account
        BY <2>1, FreeIs DEF IInv, Good, Fits
      <3>2. dir \in Directory /\ dir.tree = "whole" /\ dir.owner = account /\ dir.open = account
        BY <1>1, <3>1, Edited
      <3>3. disk' = [disk EXCEPT ![i] = dir]
        BY <2>2
      <3> HIDE DEF dir
      <3> QED
        BY <2>1, <2>2, <3>2, <3>3, RunKeeps
    <2>3. CASE Phase(i, "over") /\ disk' = [disk EXCEPT ![i] = Absent]
      <3>1. Absent \in Directory /\ Absent.open = NoOne
        BY DEF Absent, Directory
      <3> QED
        BY <2>1, <2>3, <3>1, RunKeeps
    <2>4. CASE Phase(i, "over") /\ disk' = [disk EXCEPT ![i] = Seal(@)]
      <3>1. Seal(disk[i]) \in Directory /\ Seal(disk[i]).open = NoOne
        BY <1>1, Edited
      <3> QED
        BY <2>1, <2>4, <3>1, RunKeeps
    <2> QED
      BY <1>4, <2>2, <2>3, <2>4 DEF Created
  <1>5. CASE EndSession(i)
    <2>1. Seal(disk[i]) \in Directory /\ Seal(disk[i]).open = NoOne
      BY <1>1, Edited
    <2> QED
      BY <1>5, <2>1, RunKeeps DEF EndSession
  <1> QED
    BY <1>2, <1>3, <1>4, <1>5 DEF Run

\* What the task is in the middle of is changed part by part.
LEMMA Retasked ==
    ASSUME IInv, NEW left, left \subseteq Issues, NEW removal \in Removals
    PROVE  /\ [orch EXCEPT !.left = left] \in Tasks
           /\ [orch EXCEPT !.left = left].removal = orch.removal
           /\ [orch EXCEPT !.removal = removal] \in Tasks
           /\ [orch EXCEPT !.removal = removal].removal = removal
           /\ [orch EXCEPT !.left = left, !.removal = removal] \in Tasks
           /\ [orch EXCEPT !.left = left, !.removal = removal].removal = removal
  <1>1. orch \in Tasks
    BY DEF IInv, TypeOK
  <1> QED
    BY <1>1 DEF Tasks

\* A step that touches no directory, no run and no issue, and no removal.
LEMMA BooksKeep ==
    ASSUME IInv, UNCHANGED <<disk, running, issue, up>>, (orch.removal)' = orch.removal,
           pool' \in Pools, bindings' \in [Issues -> Owners], retries' \subseteq retries,
           discards' \subseteq Issues, orch' \in Tasks, ~up => orch' = orch
    PROVE  IInv'
  <1>1. TypeOK'
    <2>1. (orch.left)' \subseteq Issues
      BY DEF Tasks
    <2> QED
      BY <2>1 DEF IInv, TypeOK, WorkspacesTypeOK, Owners
  <1>2. SessionsApart'
    BY DEF IInv, SessionsApart, Runs, IsRunning
  <1>3. up' => \A i \in Issues : Good(i, disk[i], running[i], issue[i], orch.removal)'
    BY DEF IInv, Good
  <1>4. /\ ~up' => (\A i \in Issues : running'[i] = NoRun) /\ orch' = Free
        /\ \A i \in Issues : Asks(i, disk[i], issue[i])'
        /\ \A i \in retries' : running'[i] = NoRun
    BY DEF IInv, Asks
  <1> QED
    BY <1>1, <1>2, <1>3, <1>4 DEF IInv

\* The removal of an issue's directory begins, goes on or ends, of one no run is in.
LEMMA RemovalKeeps ==
    ASSUME IInv, up, NEW i \in Issues, running[i] = NoRun,
           NEW dir \in Directory, NEW state \in States,
           disk' = [disk EXCEPT ![i] = dir], issue' = [issue EXCEPT ![i] = state],
           UNCHANGED <<pool, bindings, running, up>>,
           retries' \subseteq retries, discards' \subseteq Issues, orch' \in Tasks,
           orch.removal.of \in {NoOne, i},
           \/ (orch.removal)' = NoRemoval /\ dir.open = NoOne
           \/ /\ (orch.removal)' \in Removals
              /\ (orch.removal.of)' = i /\ (orch.removal.account)' \in Accounts
              /\ IF (orch.removal.at)' = "unlink"
                 THEN dir.tree # "none" /\ dir.open = (orch.removal.account)'
                 ELSE dir.open = NoOne,
           Asks(i, dir, state)
    PROVE  IInv'
  <1>1. NoRun \in RunEntries /\ running' = [running EXCEPT ![i] = NoRun] /\ NoRun.phase = "none"
    BY Typed, FreeIs
  <1>2. pool' \in Pools /\ bindings' \in [Issues -> Owners]
    BY Typed
  <1>3. /\ (orch.removal)' \in Removals
        /\ (orch.removal.at)' # "none" =>
              (orch.removal.of)' \in Issues /\ (orch.removal.account)' \in Accounts
        /\ (orch.removal.of)' \in {NoOne, i}
    BY FreeIs
  <1>4. retries' \subseteq Issues /\ \A j \in retries' : IF j = i THEN NoRun = NoRun ELSE j \in retries
    BY Typed
  <1>5. Good(i, dir, NoRun, state, orch'.removal)
    BY <1>1, FreeIs, NoOneIsNone DEF Good, Fits
  <1> QED
    BY <1>1, <1>2, <1>3, <1>4, <1>5, OneIssue

\* Without a run and without a removal nothing is open.
LEMMA AtRest ==
    ASSUME IInv, up, NEW i \in Issues, ~IsRunning(i), orch.removal = NoRemoval
    PROVE  running[i] = NoRun /\ disk[i].open = NoOne
  <1>1. running[i] = NoRun /\ orch.removal.of # i
    BY FreeIs, NoOneIsNone DEF IsRunning
  <1> QED
    BY <1>1, FreeIs DEF IInv, Good, Phases

\* A close-out marks the workspace before the label moves.
LEMMA FinishStep == ASSUME IInv, NEW i \in Issues, NEW a \in Accounts, Finish(i, a) PROVE IInv'
  <1>1. up /\ orch.removal = NoRemoval /\ running[i] = NoRun /\ disk[i].open = NoOne
    BY AtRest DEF Finish
  <1> DEFINE removal == [of |-> i, account |-> a, at |-> "label"]
             left == orch.left \ {i}
  <1>2. disk[i] \in Directory /\ disk = [disk EXCEPT ![i] = disk[i]]
    BY Typed
  <1>3. PICK dir \in Directory : /\ disk' = [disk EXCEPT ![i] = dir] /\ dir.open = NoOne
                                 /\ Asks(i, dir, issue[i])
    <2>1. CASE HasWorkspace(i)
      <3>1. PICK marked \in BOOLEAN : disk' = [disk EXCEPT ![i] = MarkFinished(disk[i], marked)]
        BY <2>1 DEF Finish
      <3>2. LET dir == MarkFinished(disk[i], marked) IN
            dir \in Directory /\ dir.open = NoOne /\ (dir.finished \/ dir.lost # "no")
        BY <1>1, <1>2, Marked
      <3> QED
        BY <3>1, <3>2 DEF Asks
    <2>2. CASE ~HasWorkspace(i)
      <3>1. disk' = disk
        BY <2>2 DEF Finish
      <3> QED
        BY <1>1, <1>2, <3>1, Typed
    <2> QED
      BY <2>1, <2>2
  <1>4. removal \in Removals /\ removal.of = i /\ removal.account = a /\ removal.at = "label"
    BY DEF Removals, Owners
  <1>5. orch' = [orch EXCEPT !.left = left, !.removal = removal] /\ left \subseteq Issues
    BY Typed DEF Finish, Tasks
  <1>6. UNCHANGED <<pool, bindings, running, up, issue>> /\ retries' \subseteq retries /\ discards' \subseteq Issues
    BY Typed DEF Finish
  <1> HIDE DEF removal, left
  <1>7. orch' \in Tasks /\ orch'.removal = removal
    BY <1>4, <1>5, Retasked
  <1> QED
    BY <1>1, <1>3, <1>4, <1>6, <1>7, Typed, FreeIs, RemovalKeeps

\* What remove_key does before it unlinks: the workspace is open, and marked or says why not.
LEMMA OpenedKeeps ==
    ASSUME IInv, NEW i \in Issues, NEW a \in Accounts, NEW marked \in BOOLEAN,
           Opened(i, a, marked), NEW state
    PROVE  \E dir \in Directory : /\ disk' = [disk EXCEPT ![i] = dir] /\ dir.open = a
                                  /\ dir.tree = disk[i].tree /\ Asks(i, dir, state)
  <1> DEFINE dir == MarkFinished(disk[i], marked)
  <1>1. /\ dir \in Directory /\ dir.tree = disk[i].tree /\ a \in Owners
        /\ dir.finished \/ dir.lost # "no"
    BY Typed, Marked DEF Owners
  <1>2. disk' = [disk EXCEPT ![i] = Share(dir, a)]
    BY DEF Opened
  <1> HIDE DEF dir
  <1>3. /\ Share(dir, a) \in Directory /\ Share(dir, a).open = a
        /\ Share(dir, a).tree = disk[i].tree
        /\ Share(dir, a).finished \/ Share(dir, a).lost # "no"
    BY <1>1, Shared
  <1> QED
    BY <1>2, <1>3 DEF Asks

\* The sweep tries a finished workspace again, unless it is in use.
LEMMA RetryRemovalStep ==
    ASSUME IInv, NEW i \in Issues, NEW a \in Accounts, RetryRemoval(i, a) PROVE IInv'
  <1> DEFINE left == orch.left \ {i}
             removal == [of |-> i, account |-> a, at |-> "unlink"]
  <1>1. /\ up /\ orch.removal = NoRemoval /\ left \subseteq Issues
        /\ UNCHANGED <<pool, bindings, running, retries, discards, issue, up>>
    BY Typed DEF RetryRemoval, Tasks
  <1>2. removal \in Removals /\ removal.of = i /\ removal.account = a /\ removal.at = "unlink"
    BY DEF Removals, Owners
  <1> HIDE DEF left, removal
  <1>4. CASE orch' = [orch EXCEPT !.left = left] /\ UNCHANGED disk
    BY <1>1, <1>4, Typed, Retasked, BooksKeep
  <1>5. CASE /\ i \notin PoolKeys /\ HasWorkspace(i)
             /\ \E marked \in BOOLEAN : Opened(i, a, marked)
             /\ orch' = [orch EXCEPT !.left = left, !.removal = removal]
    <2>1. running[i] = NoRun /\ disk[i].tree # "none"
      BY <1>5 DEF PoolKeys, Runs, IsRunning, HasWorkspace, Exists
    <2>2. orch' \in Tasks /\ orch'.removal = removal
      BY <1>1, <1>2, <1>5, Retasked
    <2>3. PICK dir \in Directory : /\ disk' = [disk EXCEPT ![i] = dir] /\ dir.open = a
                                   /\ dir.tree = disk[i].tree /\ Asks(i, dir, issue[i])
      BY <1>5, OpenedKeeps
    <2>4. /\ issue' = [issue EXCEPT ![i] = issue[i]] /\ issue[i] \in States
          /\ retries' \subseteq retries /\ discards' \subseteq Issues
      BY <1>1, Typed
    <2>5. /\ orch.removal.of = NoOne /\ orch'.removal \in Removals
          /\ orch'.removal.of = i /\ orch'.removal.account \in Accounts
          /\ orch'.removal.at = "unlink" /\ dir.tree # "none" /\ dir.open = orch'.removal.account
      BY <1>1, <1>2, <2>1, <2>2, <2>3, FreeIs
    <2> QED
      BY <1>1, <1>5, <2>1, <2>2, <2>3, <2>4, <2>5, RemovalKeeps
  <1> QED
    BY <1>4, <1>5 DEF RetryRemoval, left, removal

\* The issue comes to rest only with its workspace marked, or for a mark the disk refused.
LEMMA RelabelStep == ASSUME IInv, Relabel PROVE IInv'
  <1> DEFINE i == orch.removal.of
             account == orch.removal.account
             removal == [of |-> i, account |-> account, at |-> "unlink"]
  <1>1. /\ up /\ orch.removal.at = "label" /\ i \in Issues /\ account \in Accounts
        /\ UNCHANGED <<pool, bindings, running, retries, discards, up>>
    BY Typed DEF IInv, TypeOK, Relabel
  <1>2. running[i] = NoRun /\ disk[i].open = NoOne
    BY <1>1 DEF IInv, Good
  <1>3. PICK state \in States : issue' = [issue EXCEPT ![i] = state]
    <2>1. PICK written \in BOOLEAN :
             issue' = [issue EXCEPT ![i] = IF written /\ issue[i] = "closed" THEN "rested" ELSE issue[i]]
      BY DEF Relabel
    <2> QED
      BY <1>1, <2>1, Typed DEF States
  <1>4. retries' \subseteq retries /\ discards' \subseteq Issues
    BY <1>1, Typed
  <1>5. removal \in Removals /\ removal.of = i /\ removal.account = account /\ removal.at = "unlink"
    BY <1>1 DEF Removals, Owners
  <1>6. CASE HasWorkspace(i)
    <2>1. PICK marked \in BOOLEAN : Opened(i, account, marked)
      BY <1>6 DEF Relabel
    <2>2. orch' = [orch EXCEPT !.removal.at = "unlink"]
      BY <1>6 DEF Relabel
    <2>3. disk[i].tree # "none"
      BY <1>6 DEF HasWorkspace, Exists
    <2>4. orch' \in Tasks /\ orch'.removal = removal
      <3>1. orch.removal = [of |-> i, account |-> account, at |-> orch.removal.at] /\ orch \in Tasks
        BY Typed, <1>1 DEF Removals
      <3>2. [orch.removal EXCEPT !.at = "unlink"] = removal
        BY <3>1
      <3>3. orch' = [orch EXCEPT !.removal = [orch.removal EXCEPT !.at = "unlink"]]
        BY <2>2
      <3> HIDE DEF removal
      <3> QED
        BY <1>5, <3>2, <3>3, Retasked
    <2>5. PICK dir \in Directory : /\ disk' = [disk EXCEPT ![i] = dir] /\ dir.open = account
                                   /\ dir.tree = disk[i].tree /\ Asks(i, dir, state)
      <3> HIDE DEF i, account
      <3> QED
        BY <1>1, <2>1, OpenedKeeps
    <2> HIDE DEF removal
    <2> QED
      BY <1>1, <1>2, <1>3, <1>4, <1>5, <2>3, <2>4, <2>5, RemovalKeeps
  <1>7. CASE ~HasWorkspace(i)
    <2>1. disk' = [disk EXCEPT ![i] = disk[i]] /\ orch' = [orch EXCEPT !.removal = NoRemoval]
      BY <1>1, <1>7, Typed DEF Relabel
    <2>2. orch' \in Tasks /\ orch'.removal = NoRemoval
      BY <2>1, FreeIs, Retasked
    <2>3. Asks(i, disk[i], state)
      BY <1>7 DEF Asks, HasWorkspace, Exists
    <2>4. disk[i] \in Directory
      BY <1>1, Typed
    <2> QED
      BY <1>1, <1>2, <1>3, <1>4, <2>1, <2>2, <2>3, <2>4, RemovalKeeps
  <1> QED
    BY <1>6, <1>7

\* What a removal leaves is sealed, and marked again or says why not.
LEMMA UnlinkedStep == ASSUME IInv, Unlinked PROVE IInv'
  <1> DEFINE i == orch.removal.of
  <1>1. /\ up /\ orch.removal.at = "unlink" /\ i \in Issues
        /\ UNCHANGED <<pool, bindings, running, retries, discards, issue, up>>
    BY Typed DEF IInv, TypeOK, Unlinked
  <1>2. running[i] = NoRun
    BY <1>1 DEF IInv, Good
  <1> DEFINE Left(dir) == dir.open = NoOne /\ Asks(i, dir, issue[i])
  <1>3. PICK dir \in Directory : disk' = [disk EXCEPT ![i] = dir] /\ Left(dir)
    <2>1. CASE disk' = [disk EXCEPT ![i] = Absent]
      <3>1. Absent \in Directory /\ Absent.open = NoOne /\ Absent.tree = "none"
        BY DEF Absent, Directory
      <3> QED
        BY <2>1, <3>1 DEF Asks
    <2>2. ASSUME NEW torn \in Torn(disk[i]), NEW marked \in BOOLEAN,
                 disk' = [disk EXCEPT ![i] = LeftBehind(i, torn, marked)]
          PROVE  \E dir \in Directory : disk' = [disk EXCEPT ![i] = dir] /\ Left(dir)
      <3>1. torn \in Directory
        BY <1>1, <2>2, Typed, TornIs DEF IInv, Good
      <3>2. CASE i \in Triaged
        <4>1. Seal(torn) \in Directory /\ Seal(torn).open = NoOne
          BY <3>1, Edited
        <4> QED
          BY <2>2, <3>2, <4>1 DEF LeftBehind, Asks
      <3>3. CASE i \notin Triaged
        <4> DEFINE dir == MarkFinished(torn, marked)
        <4>1. dir \in Directory /\ (dir.finished \/ dir.lost # "no")
          BY <3>1, Marked
        <4>2. LeftBehind(i, torn, marked) = Seal(dir)
          BY <3>3 DEF LeftBehind
        <4> HIDE DEF dir
        <4>3. /\ Seal(dir) \in Directory /\ Seal(dir).open = NoOne
              /\ Seal(dir).finished \/ Seal(dir).lost # "no"
          BY <4>1, Edited
        <4> QED
          BY <2>2, <4>2, <4>3 DEF Asks
      <3> QED
        BY <3>2, <3>3
    <2>3. \/ disk' = [disk EXCEPT ![i] = Absent]
          \/ \E torn \in Torn(disk[i]), marked \in BOOLEAN :
                disk' = [disk EXCEPT ![i] = LeftBehind(i, torn, marked)]
      BY DEF Unlinked
    <2> HIDE DEF Left, i
    <2> QED
      BY <2>1, <2>2, <2>3
  <1>4. orch' \in Tasks /\ orch'.removal = NoRemoval
    BY FreeIs, Retasked DEF Unlinked, Tasks
  <1>5. dir.open = NoOne /\ Asks(i, dir, issue[i])
    BY <1>3
  <1>6. /\ issue' = [issue EXCEPT ![i] = issue[i]] /\ issue[i] \in States
        /\ retries' \subseteq retries /\ discards' \subseteq Issues
    BY <1>1, Typed
  <1> QED
    BY <1>1, <1>2, <1>3, <1>4, <1>5, <1>6, RemovalKeeps

\* A triage clone is removed once no run reads it.
LEMMA DiscardStep ==
    ASSUME IInv, NEW i \in Issues, NEW a \in Accounts, Discard(i, a) PROVE IInv'
  <1> DEFINE dir == Share(disk[i], a)
             removal == [of |-> i, account |-> a, at |-> "unlink"]
  <1>1. /\ up /\ orch.removal = NoRemoval /\ running[i] = NoRun /\ disk[i].open = NoOne
    BY FreeIs, AtRest DEF Discard, IsFree
  <1>2. /\ UNCHANGED <<pool, bindings, running, retries, issue, up>>
        /\ retries' \subseteq retries /\ discards' \subseteq Issues
        /\ issue' = [issue EXCEPT ![i] = issue[i]] /\ issue[i] \in States
    BY Typed DEF Discard
  <1>3. CASE Exists(i)
    <2>1. /\ dir \in Directory /\ dir.open = a /\ dir.tree = disk[i].tree
          /\ dir.finished = disk[i].finished /\ dir.lost = disk[i].lost
      <3>1. disk[i] \in Directory /\ a \in Owners
        BY Typed DEF Owners
      <3> QED
        BY <3>1, Shared
    <2>2. removal \in Removals /\ removal.of = i /\ removal.account = a /\ removal.at = "unlink"
      BY DEF Removals, Owners
    <2>3. disk' = [disk EXCEPT ![i] = dir] /\ orch' = [Free EXCEPT !.doing = "discard", !.removal = removal]
      BY <1>3 DEF Discard
    <2> HIDE DEF dir, removal
    <2>4. orch' \in Tasks /\ orch'.removal = removal
      BY <2>2, <2>3 DEF Free, Tasks
    <2>5. Asks(i, dir, issue[i])
      BY <2>1, Typed DEF Asks
    <2>6. disk[i].tree # "none"
      BY <1>3 DEF Exists
    <2>7. /\ orch.removal.of = NoOne /\ orch'.removal \in Removals
          /\ orch'.removal.of = i /\ orch'.removal.account \in Accounts
          /\ orch'.removal.at = "unlink" /\ dir.tree # "none" /\ dir.open = orch'.removal.account
      BY <1>1, <2>1, <2>2, <2>4, <2>6, FreeIs
    <2> QED
      BY <1>1, <1>2, <2>1, <2>3, <2>4, <2>5, <2>7, RemovalKeeps
  <1>4. CASE ~Exists(i)
    BY <1>1, <1>2, <1>4, Typed, BooksKeep DEF Discard
  <1> QED
    BY <1>3, <1>4

\* A worker's exit finds the workspace closed.
LEMMA ExitStep == ASSUME IInv, NEW i \in Issues, Exit(i) PROVE IInv'
  <1>1. /\ up /\ orch.removal.of = NoOne /\ running[i].phase = "over"
        /\ running' = [running EXCEPT ![i] = NoRun]
        /\ UNCHANGED <<pool, bindings, disk, issue, orch, up>>
    BY FreeIs DEF Exit, IsFree, disks
  <1>2. disk[i].open = NoOne
    BY <1>1, NoOneIsNone DEF IInv, Good, Phases
  <1>3. Good(i, disk[i], NoRun, issue[i], orch'.removal)
    BY <1>1, <1>2, FreeIs, NoOneIsNone DEF Good, Fits
  <1>4. /\ retries' \subseteq Issues /\ discards' \subseteq Issues
        /\ \A j \in retries' : IF j = i THEN NoRun = NoRun ELSE j \in retries
    BY Typed DEF Exit
  <1>5. /\ disk' = [disk EXCEPT ![i] = disk[i]] /\ issue' = [issue EXCEPT ![i] = issue[i]]
        /\ disk[i] \in Directory /\ issue[i] \in States /\ Asks(i, disk[i], issue[i])
        /\ pool' \in Pools /\ bindings' \in [Issues -> Owners]
        /\ orch' \in Tasks /\ (orch.removal)' = orch.removal
        /\ (orch.removal.at)' # "none" =>
              (orch.removal.of)' \in Issues /\ (orch.removal.account)' \in Accounts
    BY <1>1, Typed
  <1> QED
    BY <1>1, <1>3, <1>4, <1>5, FreeIs, OneIssue

\* The steps of the orchestrator's task that only turn to something else.
LEMMA TurnsKeep ==
    ASSUME IInv, Sweep \/ ReadFinished \/ EndSweep \/ \E i \in Issues : Pass(i) \/ RetryFinds(i)
    PROVE  IInv'
  <1>0. NoRemoval \in Removals /\ Free.removal = NoRemoval /\ Free \in Tasks
    BY FreeIs
  <1>1. CASE Sweep
    <2>1. orch' \in Tasks /\ orch'.removal = NoRemoval
      BY <1>0, <1>1 DEF Sweep, Free, Tasks
    <2> QED
      BY <1>0, <1>1, <2>1, TypedBindings, BooksKeep DEF Sweep, IsFree, disks
  <1>2. CASE ReadFinished
    <2>1. orch' \in Tasks /\ orch'.removal = NoRemoval
      BY <1>0, <1>2 DEF ReadFinished, Free, Tasks
    <2> QED
      BY <1>0, <1>2, <2>1, TypedBindings, BooksKeep DEF ReadFinished, disks
  <1>3. CASE EndSweep
    <2>1. bindings' \in [Issues -> Owners]
      <3>1. bindings \in [Issues -> Owners] /\ Loaded \in [Issues -> Owners]
        BY <1>3, TypedBindings
      <3> QED
        BY <1>3, <3>1 DEF EndSweep, Owners
    <2> QED
      BY <1>0, <1>3, <2>1, TypedBindings, BooksKeep DEF EndSweep
  <1>4. ASSUME NEW i \in Issues, Pass(i) PROVE IInv'
    <2>1. orch' = [orch EXCEPT !.left = @ \ {i}] /\ orch.left \ {i} \subseteq Issues
      BY <1>4, Typed DEF Pass, Tasks
    <2>2. orch' \in Tasks /\ orch'.removal = orch.removal
      <3> DEFINE left == orch.left \ {i}
      <3>1. orch' = [orch EXCEPT !.left = left] /\ left \subseteq Issues
        BY <2>1
      <3> HIDE DEF left
      <3> QED
        BY <3>1, TypedBindings, FreeIs, Retasked
    <2> QED
      BY <1>4, <2>2, TypedBindings, BooksKeep DEF Pass, disks
  <1>5. ASSUME NEW i \in Issues, RetryFinds(i) PROVE IInv'
    <2>1. orch' \in Tasks /\ orch'.removal = NoRemoval
      BY <1>0, <1>5 DEF RetryFinds, Free, Tasks
    <2> QED
      BY <1>0, <1>5, <2>1, TypedBindings, BooksKeep DEF RetryFinds, IsFree, disks
  <1> QED
    BY <1>1, <1>2, <1>3, <1>4, <1>5

\* A kill forgets what ran; the directories stay, the mark with them unless an unlink had
\* come to it, which the directory then says.
LEMMA CrashStep == ASSUME IInv, Crash PROVE IInv'
  <1>1. /\ up' = FALSE /\ running' = [i \in Issues |-> NoRun] /\ orch' = Free
        /\ retries' = {} /\ discards' = {} /\ UNCHANGED <<pool, bindings, issue>>
    BY DEF Crash
  <1>2. disk' \in [Issues -> Directory] /\ \A j \in Issues : Asks(j, disk'[j], issue[j])
    <2>1. CASE disk' = disk
      BY <2>1 DEF IInv, TypeOK, WorkspacesTypeOK
    <2>2. CASE orch.removal.at = "unlink"
      <3> DEFINE i == orch.removal.of
      <3>1. i \in Issues /\ up
        BY <2>2 DEF IInv, TypeOK, Crash
      <3>2. disk \in [Issues -> Directory] /\ disk[i] \in Directory /\ disk[i].tree # "none"
        BY <2>2, <3>1, Typed DEF IInv, Good
      <3>3. PICK torn \in Torn(disk[i]) :
               disk' = [disk EXCEPT ![i] = [torn EXCEPT !.lost =
                           IF disk[i].finished # torn.finished THEN "killed" ELSE torn.lost]]
        BY <2>2 DEF Crash
      <3> DEFINE dir == [torn EXCEPT !.lost =
                           IF disk[i].finished # torn.finished THEN "killed" ELSE torn.lost]
      <3>4. /\ disk' = [disk EXCEPT ![i] = dir]
            /\ \A j \in Issues : j # i => disk'[j] = disk[j]
            /\ disk'[i] = dir /\ DOMAIN disk' = Issues
        BY <3>1, <3>2, <3>3
      <3>5. /\ dir \in Directory
            /\ disk[i].finished \/ disk[i].lost # "no" => dir.finished \/ dir.lost # "no"
        <4>1. torn \in Directory /\ torn.lost = disk[i].lost /\ disk[i] \in Directory
          BY <3>2, TornIs
        <4>2. /\ dir \in Directory /\ dir.finished = torn.finished
              /\ dir.lost = IF disk[i].finished # torn.finished THEN "killed" ELSE torn.lost
          BY <4>1 DEF Directory
        <4> HIDE DEF dir
        <4>3. CASE disk[i].finished # torn.finished
          BY <4>2, <4>3
        <4>4. CASE disk[i].finished = torn.finished
          BY <4>1, <4>2, <4>4
        <4> QED
          BY <4>2, <4>3, <4>4
      <3> HIDE DEF dir
      <3>6. disk' \in [Issues -> Directory]
        <4>1. disk' = [j \in Issues |-> disk'[j]]
          BY <3>1, <3>2, <3>4
        <4> QED
          BY <3>2, <3>4, <3>5, <4>1
      <3>7. ASSUME NEW j \in Issues PROVE Asks(j, disk'[j], issue[j])
        <4>1. Asks(j, disk[j], issue[j])
          BY Typed
        <4>2. CASE j # i
          BY <3>4, <4>1, <4>2
        <4>3. CASE j = i
          BY <3>2, <3>4, <3>5, <4>1, <4>3 DEF Asks
        <4> QED
          BY <4>2, <4>3
      <3> QED
        BY <3>6, <3>7
    <2> QED
      BY <2>1, <2>2 DEF Crash
  <1>3. TypeOK'
    <2>1. Free \in Tasks /\ Free.removal.at = "none" /\ Free.left = {}
      BY FreeIs
    <2>2. running' \in [Issues -> RunEntries]
      BY <1>1, FreeIs
    <2> QED
      BY <1>1, <1>2, <2>1, <2>2 DEF IInv, TypeOK, WorkspacesTypeOK, RunEntries, Owners
  <1>4. SessionsApart'
    BY <1>1 DEF SessionsApart, Runs, IsRunning
  <1> QED
    BY <1>1, <1>2, <1>3, <1>4 DEF IInv

\* Startup seals whatever was left open (seal_idle) before anything else.
LEMMA StartStep == ASSUME IInv, Start PROVE IInv'
  <1>1. /\ \A i \in Issues : running[i] = NoRun
        /\ orch = Free /\ up' = TRUE
        /\ UNCHANGED <<pool, bindings, running, retries, discards, orch, issue>>
    BY DEF IInv, Start, memory
  <1>2. ASSUME NEW i \in Issues
        PROVE  Seal(disk[i]) \in Directory /\ Seal(disk[i]).open = NoOne
               /\ Seal(disk[i]).tree = disk[i].tree /\ Seal(disk[i]).finished = disk[i].finished
               /\ Seal(disk[i]).lost = disk[i].lost
    BY Typed, Edited
  <1>3. Absent \in Directory /\ Absent.open = NoOne
    BY DEF Absent, Directory
  <1>4. /\ disk' \in [Issues -> Directory]
        /\ \A i \in Issues : disk'[i].open = NoOne
        /\ \A i \in Issues : i \in Triaged \/ (disk'[i].tree = disk[i].tree
                                             /\ disk'[i].finished = disk[i].finished
                                             /\ disk'[i].lost = disk[i].lost)
    <2>1. CASE disk' = [i \in Issues |-> IF i \in Triaged THEN Absent ELSE SealIdle[i]]
      BY <1>2, <1>3, <2>1 DEF SealIdle
    <2>2. CASE disk' = SealIdle
      BY <1>2, <2>2 DEF SealIdle
    <2> QED
      BY <2>1, <2>2 DEF Start
  <1>5. TypeOK'
    BY <1>1, <1>4 DEF IInv, TypeOK, WorkspacesTypeOK
  <1>6. SessionsApart'
    BY <1>1 DEF IInv, SessionsApart, Runs, IsRunning
  <1>7. ASSUME NEW i \in Issues
        PROVE  Good(i, disk[i], running[i], issue[i], orch.removal)' /\ Asks(i, disk[i], issue[i])'
    <2>1. Good(i, disk'[i], NoRun, issue[i], NoRemoval)
      BY <1>4, FreeIs, NoOneIsNone DEF Good, Fits
    <2>2. Asks(i, disk[i], issue[i])
      BY DEF IInv
    <2>3. Asks(i, disk'[i], issue[i])
      BY <1>4, <2>2 DEF Asks
    <2> QED
      BY <1>1, <2>1, <2>3, FreeIs
  <1> QED
    BY <1>1, <1>5, <1>6, <1>7 DEF IInv

\* A human closes or reopens an issue, the worker up or not.
LEMMA HumanKeeps ==
    ASSUME IInv, NEW i \in Issues, NEW state \in {"active", "closed"},
           issue' = [issue EXCEPT ![i] = state], UNCHANGED <<pool, disks, memory, up>>
    PROVE  IInv'
  <1>1. /\ issue' \in [Issues -> States]
        /\ \A j \in Issues : issue'[j] # "rested" \/ issue'[j] = issue[j]
    BY Typed DEF States
  <1>2. UNCHANGED <<pool, bindings, disk, running, retries, discards, orch, up>>
    BY DEF disks, memory
  <1>3. TypeOK'
    BY <1>1, <1>2 DEF IInv, TypeOK, WorkspacesTypeOK, States
  <1>4. SessionsApart'
    BY <1>2 DEF IInv, SessionsApart, Runs, IsRunning
  <1>5. ASSUME NEW j \in Issues
        PROVE  /\ up' => Good(j, disk[j], running[j], issue[j], orch.removal)'
               /\ Asks(j, disk[j], issue[j])'
    BY <1>1, <1>2 DEF IInv, Good, Asks
  <1>6. \A j \in retries' : running'[j] = NoRun
    BY <1>2 DEF IInv
  <1> QED
    BY <1>2, <1>3, <1>4, <1>5, <1>6 DEF IInv

\* Every step of the orchestrator, of the runs, of a human and of a kill.
LEMMA InvStep == IInv /\ [Next]_vars => IInv'
  <1> SUFFICES ASSUME IInv, [Next]_vars PROVE IInv'
    OBVIOUS
  <1>1. ASSUME NEW i \in Issues, NEW a \in Accounts, Dispatch(i, a) PROVE IInv'
    <2>1. retries' = retries \ {i}
      BY <1>1 DEF Dispatch
    <2> QED
      BY <1>1, <2>1, StartsKeep DEF Dispatch
  <1>2. ASSUME NEW i \in Issues, NEW a \in Accounts, FireRetry(i, a) PROVE IInv'
    <2>1. ~IsRunning(i)
      BY <1>2 DEF FireRetry, IInv, IsRunning
    <2> QED
      BY <1>2, <2>1, StartsKeep DEF FireRetry
  <1>3. ASSUME NEW i \in Issues, NEW a \in Accounts,
               Discard(i, a) \/ Finish(i, a) \/ RetryRemoval(i, a) PROVE IInv'
    BY <1>3, DiscardStep, FinishStep, RetryRemovalStep
  <1>4. ASSUME NEW i \in Issues, Run(i) \/ Exit(i) PROVE IInv'
    BY <1>4, RunStep, ExitStep
  <1>5. ASSUME NEW i \in Issues, Close(i) \/ Reopen(i) PROVE IInv'
    BY <1>5, HumanKeeps DEF Close, Reopen
  <1>6. CASE Sweep \/ ReadFinished \/ EndSweep \/ \E i \in Issues : Pass(i) \/ RetryFinds(i)
    BY <1>6, TurnsKeep
  <1>7. CASE Relabel \/ Unlinked \/ Crash \/ Start
    BY <1>7, RelabelStep, UnlinkedStep, CrashStep, StartStep
  <1>8. ASSUME NEW p \in Pools, Reload(p) PROVE IInv'
    BY <1>8, TypedBindings, BooksKeep DEF Reload, disks, memory
  <1>9. CASE UNCHANGED vars
    BY <1>9, TypedBindings, BooksKeep DEF vars, disks, memory
  <1> QED
    BY <1>1, <1>2, <1>3, <1>4, <1>5, <1>6, <1>7, <1>8, <1>9 DEF Next, Removal

\* The types of the parts, the fit of every directory with its run and with the removal
\* under way, and the four promises below, in all states.
THEOREM Invariance == Spec => []IInv
  <1> QED
    BY InvInit, InvStep, PTL DEF Spec

\* Two sessions never share an account (_bind_account, accounts.allocate), whatever the
\* pool becomes and however many bindings are pruned or kept.
THEOREM AccountsApart == Spec => []SessionsApart
  <1> QED
    BY Invariance, PTL DEF IInv

\* A workspace is open only to the run or the removal that is at work in it (workspace.py,
\* seal_idle), through every failure and kill.
THEOREM OpenOnlyAtWork == Spec => []IdleIsSealed
  <1>1. IInv => IdleIsSealed
    BY DEF IInv, Good, IdleIsSealed, Phases
  <1> QED
    BY <1>1, Invariance, PTL

\* A session works in a whole clone of its own account's files (_is_complete).
THEOREM ClonesOfTheirOwn == Spec => []WorksInItsOwnClone
  <1>1. IInv => WorksInItsOwnClone
    <2> SUFFICES ASSUME IInv, NEW i \in Runs, running[i].phase = "session"
                 PROVE  disk[i].tree = "whole" /\ disk[i].owner = running[i].account
                        /\ disk[i].open = disk[i].owner
      BY DEF WorksInItsOwnClone
    <2>1. i \in Issues /\ up
      BY DEF Runs, IsRunning, IInv
    <2> QED
      BY <2>1 DEF IInv, Good, Fits
  <1> QED
    BY <1>1, Invariance, PTL

\* What rests asks for its workspace's removal (mark_finished, remove_key), however many
\* steps fail and wherever the worker is killed; or the disk refused it the mark, or a kill
\* in the middle of the unlink took it.
THEOREM RestingAsks == Spec => []FinishedIsAskedFor
  <1>1. IInv => FinishedIsAskedFor
    BY DEF IInv, Asks, FinishedIsAskedFor, HasWorkspace, Exists
  <1> QED
    BY <1>1, Invariance, PTL
=============================================================================
