----------------------------- MODULE Workspaces -----------------------------
(***************************************************************************)
(* The workspaces of a deployment and the session accounts they belong to  *)
(* (agent/workspace.py, agent/accounts.py and the orchestrator's use of    *)
(* both).                                                                  *)
(*                                                                         *)
(* Every issue has a directory under the workspace root: the clone its     *)
(* work runs share or, for one that asks for triage, the throwaway clone   *)
(* of a triage run. A directory is open to one account or sealed, and the  *)
(* account an issue is bound to is recorded in a file of its own. The disk *)
(* outlives the process: a crash forgets the runs, the retries and the     *)
(* clones due for removal, and the startup that follows seals whatever was *)
(* left open.                                                              *)
(*                                                                         *)
(* The orchestrator is one task: a dispatch, a worker's exit and the steps *)
(* of a sweep never overlap, while the runs go on beside all of them.         *)
(***************************************************************************)
EXTENDS Integers, FiniteSets

CONSTANTS
    Issues,       \* the issues of the repository
    Triaged,      \* those that ask for triage; the others ask for work
    Accounts,     \* every session account of the host
    Pools,        \* the values agent.run_as takes, each of two accounts or more
    NoOne,        \* neither bound nor open: the worker's alone
    MaxAgents,    \* agent.max_concurrent_agents
    MaxUpsets     \* bound: steps in which the disk, GitHub or a hook fails, kills of the
                  \* worker, reloads and acts of a human, all together

ASSUME WorkspaceAssumption ==
    /\ Triaged \subseteq Issues /\ NoOne \notin Accounts \cup Issues
    /\ \A p \in Pools : p \subseteq Accounts /\ Cardinality(p) >= 2

VARIABLES
    pool,      \* agent.run_as of the loaded workflow
    bindings,  \* the registry's file: the account each issue's key is bound to
    disk,      \* the directory of each issue
    running,   \* the worker's running entries
    retries,   \* the issues with a retry pending
    discards,  \* the issues whose triage clone is due for removal
    issue,     \* what GitHub says of each issue
    orch,      \* what the orchestrator's one task is in the middle of
    up,        \* the worker's process is up and has started
    upsets     \* how many of MaxUpsets have happened

disks == <<disk, bindings>>
memory == <<running, retries, discards, orch>>
vars == <<pool, disks, memory, issue, up, upsets>>

----------------------------------------------------------------------------
\* Directories.

\* tree: nothing, a clone whose creation did not finish, or one marked created;
\* owner: whose files the clone is made of; open: the account that may enter it;
\* finished: it carries the mark that asks for its removal; lost: history, whether the disk
\* refused it the mark or a kill took the one it had.
Directory == [tree : {"none", "partial", "whole"}, owner : Accounts \cup {NoOne},
              open : Accounts \cup {NoOne}, finished : BOOLEAN,
              lost : {"no", "refused", "killed"}]

Absent == [tree |-> "none", owner |-> NoOne, open |-> NoOne, finished |-> FALSE,
           lost |-> "no"]

Exists(i) == disk[i].tree # "none"

\* The work directory of i, which the registry and the sweep of the marks look at.
HasWorkspace(i) == i \notin Triaged /\ Exists(i)

\* Mutant: whoever's files the clone is made of.
IsCompleteOfAny(i, account) == disk[i].tree = "whole"

\* A clone whose creation finished and whose files are the account's.
IsComplete(i, account) == disk[i].tree = "whole" /\ disk[i].owner = account

Share(dir, account) == [dir EXCEPT !.open = account]
Seal(dir) == [dir EXCEPT !.open = NoOne]

\* The mark is written, or the disk refuses it, which is said and goes no further: one that
\* was there already stays.
MarkFinished(dir, written) ==
    IF written THEN [dir EXCEPT !.finished = TRUE, !.lost = "no"]
               ELSE [dir EXCEPT !.lost = IF dir.finished THEN "no" ELSE "refused"]

----------------------------------------------------------------------------
\* The registry.

\* An account that has left the pool takes its bindings with it when the file is read.
Loaded == [i \in Issues |-> IF bindings[i] \in pool THEN bindings[i] ELSE NoOne]

Load(account) == Cardinality({i \in Issues : Loaded[i] = account})

\* The accounts allocate chooses from: the least loaded of those no session runs as.
\* The file's order between two as loaded is abstracted.
LeastLoaded(busy) ==
    {a \in pool \ busy : \A b \in pool \ busy : Load(a) <= Load(b)}

\* An open workspace is what a session looks like to another process. Only the work
\* directory of a key is looked at.
OpenAccounts == {Loaded[i] : i \in {j \in Issues : /\ Loaded[j] # NoOne
                                                  /\ HasWorkspace(j)
                                                  /\ disk[j].open # NoOne}}

NoRun == [account |-> NoOne, phase |-> "none"]
IsRunning(i) == running[i] # NoRun
Runs == {i \in Issues : IsRunning(i)}

\* Mutant: the disk alone is asked, which a session yet to open its workspace is not on.
BusyOnDisk == OpenAccounts

BusyAccounts == {running[i].account : i \in Runs} \cup OpenAccounts

\* The account a session of i may start as now, after the registry has been asked.
BindsTo(i, account, busy) ==
    IF Loaded[i] # NoOne THEN account = Loaded[i] /\ account \notin busy
                         ELSE account \in LeastLoaded(busy)

\* The keys a binding and a finished workspace are kept for.
PoolKeys == Runs \cup retries

----------------------------------------------------------------------------
\* What the orchestrator is in the middle of: the issues a sweep has left to close out,
\* the finished workspaces it has left to try, and the removal it waits for.

NoRemoval == [of |-> NoOne, account |-> NoOne, at |-> "none"]
Free == [doing |-> "free", left |-> {}, removal |-> NoRemoval]

IsFree == up /\ orch = Free
\* Something the orchestrator does not do of itself.
Upset == upsets < MaxUpsets /\ upsets' = upsets + 1

\* A step in which all went well, or something failed.
Went(well) == IF well THEN UNCHANGED upsets ELSE Upset

----------------------------------------------------------------------------
Init ==
    /\ pool \in Pools
    /\ bindings = [i \in Issues |-> NoOne]
    /\ disk = [i \in Issues |-> Absent]
    /\ running = [i \in Issues |-> NoRun]
    /\ retries = {} /\ discards = {}
    /\ issue = [i \in Issues |-> "active"]
    /\ orch = Free
    /\ up = TRUE
    /\ upsets = 0

----------------------------------------------------------------------------
\* A run and its workspace.

\* A candidate is bound, claimed and started. Binding writes the file without the
\* accounts that have left the pool.
Dispatch(i, account) ==
    /\ IsFree
    /\ issue[i] = "active" /\ ~IsRunning(i) /\ i \notin retries
    /\ Cardinality(Runs) < MaxAgents
    /\ BindsTo(i, account, BusyAccounts)
    /\ bindings' = IF Loaded[i] = NoOne THEN [Loaded EXCEPT ![i] = account] ELSE bindings
    /\ running' = [running EXCEPT ![i] = [account |-> account, phase |-> "starting"]]
    /\ UNCHANGED <<pool, disk, retries, discards, issue, orch, up, upsets>>

\* A retry comes due: the same, and nothing of the chain changes while it waits.
FireRetry(i, account) ==
    /\ IsFree
    /\ i \in retries /\ issue[i] = "active"
    /\ Cardinality(Runs) < MaxAgents
    /\ BindsTo(i, account, BusyAccounts)
    /\ bindings' = IF Loaded[i] = NoOne THEN [Loaded EXCEPT ![i] = account] ELSE bindings
    /\ running' = [running EXCEPT ![i] = [account |-> account, phase |-> "starting"]]
    /\ retries' = retries \ {i}
    /\ UNCHANGED <<pool, disk, discards, issue, orch, up, upsets>>

Phase(i, phase) == running' = [running EXCEPT ![i].phase = phase]

\* create_or_reuse finds a whole clone of its own account: it is shared again and its
\* removal mark dropped, best effort.
Reuse(i) ==
    LET account == running[i].account IN
    /\ running[i].phase = "starting" /\ i \notin Triaged
    /\ IsComplete(i, account)
    /\ \/ disk' = [disk EXCEPT ![i] = [Share(@, account) EXCEPT !.finished = FALSE,
                                                                 !.lost = "no"]]
          /\ UNCHANGED upsets
       \/ disk[i].finished /\ Upset
          /\ disk' = [disk EXCEPT ![i] = Share(@, account)]
    /\ Phase(i, "session")
    /\ UNCHANGED <<pool, bindings, retries, discards, issue, orch, up>>

\* Nothing to reuse: a remnant is removed, and one that will not go ends the run; then
\* the directory is made and opened, and the clone begins.
Create(i) ==
    LET account == running[i].account IN
    /\ running[i].phase = "starting"
    /\ i \in Triaged \/ ~IsComplete(i, account)
    /\ \/ /\ disk' = [disk EXCEPT ![i] = [tree |-> "partial", owner |-> account,
                                          open |-> account, finished |-> FALSE,
                                          lost |-> "no"]]
          /\ Phase(i, "cloning")
          /\ UNCHANGED upsets
       \/ /\ Exists(i) /\ Upset
          /\ disk' = [disk EXCEPT ![i] = Seal([@ EXCEPT !.tree = "partial"])]
          /\ Phase(i, "over")
    /\ UNCHANGED <<pool, bindings, retries, discards, issue, orch, up>>

\* The clone and its hooks are done and the created mark written last; or one of them
\* failed, and what was made is removed, or sealed where it cannot be.
Created(i) ==
    /\ running[i].phase = "cloning"
    /\ \/ /\ disk' = [disk EXCEPT ![i].tree = "whole"]
          /\ Phase(i, "session")
          /\ UNCHANGED upsets
       \/ /\ Upset
          /\ \/ disk' = [disk EXCEPT ![i] = Absent]
             \/ disk' = [disk EXCEPT ![i] = Seal(@)]
          /\ Phase(i, "over")
    /\ UNCHANGED <<pool, bindings, retries, discards, issue, orch, up>>

\* The session is over, whatever ended it, after_run has run, and the workspace is closed.
EndSession(i) ==
    /\ running[i].phase = "session"
    /\ disk' = [disk EXCEPT ![i] = Seal(@)]
    /\ Phase(i, "over")
    /\ UNCHANGED <<pool, bindings, retries, discards, issue, orch, up, upsets>>

\* The worker's exit is handled: the entry goes, a work run leaves a retry or not, and a
\* triage run leaves its clone to be discarded once its delay is up.
Exit(i) ==
    /\ IsFree
    /\ running[i].phase = "over"
    /\ running' = [running EXCEPT ![i] = NoRun]
    /\ \/ i \notin Triaged /\ retries' = retries \cup {i}
       \/ UNCHANGED retries
    /\ discards' = IF i \in Triaged THEN discards \cup {i} ELSE discards
    /\ UNCHANGED <<pool, disks, issue, orch, up, upsets>>

----------------------------------------------------------------------------
\* Removals. Each is the orchestrator's own, awaited step by step.

\* The account a removal runs as: the recorded one, or any of the pool.
RemovesAs(i, account) ==
    account \in IF Loaded[i] # NoOne THEN {Loaded[i]} ELSE pool

\* The tick's sweep lists the closed issues that still wear a label.
Sweep ==
    /\ IsFree
    /\ orch' = [Free EXCEPT !.doing = "sweep", !.left = {i \in Issues : issue[i] = "closed"}]
    /\ UNCHANGED <<pool, disks, running, retries, discards, issue, up, upsets>>

\* A retry that comes due on a closed issue closes it out, as the sweep does.
RetryFinds(i) ==
    /\ IsFree
    /\ i \in retries /\ issue[i] # "active"
    /\ orch' = [Free EXCEPT !.doing = "retry", !.left = {i}]
    /\ retries' = retries \ {i}
    /\ UNCHANGED <<pool, disks, running, discards, issue, up, upsets>>

\* An issue with a run going is passed over; another is closed out, and its workspace is
\* marked before the label is moved.
Pass(i) ==
    /\ up /\ orch.doing = "sweep" /\ orch.removal = NoRemoval /\ i \in orch.left
    /\ IsRunning(i)
    /\ orch' = [orch EXCEPT !.left = @ \ {i}]
    /\ UNCHANGED <<pool, disks, running, retries, discards, issue, up, upsets>>

Finish(i, account) ==
    /\ up /\ orch.doing \in {"sweep", "retry"} /\ orch.removal = NoRemoval /\ i \in orch.left
    /\ ~IsRunning(i)
    /\ RemovesAs(i, account)
    /\ retries' = retries \ {i}
    /\ \E marked \in IF HasWorkspace(i) THEN BOOLEAN ELSE {TRUE} :
          /\ Went(marked)
          /\ disk' = IF HasWorkspace(i) THEN [disk EXCEPT ![i] = MarkFinished(@, marked)]
                                        ELSE disk
    /\ orch' = [orch EXCEPT !.left = @ \ {i},
                            !.removal = [of |-> i, account |-> account, at |-> "label"]]
    /\ UNCHANGED <<pool, bindings, running, discards, issue, up>>

\* What remove_key does before it unlinks anything: the mark, and the directory opened to
\* the account.
Opened(i, account, marked) ==
    disk' = [disk EXCEPT ![i] = Share(MarkFinished(@, marked), account)]

\* The label is written, or the write fails; the workspace is removed either way, and one
\* that is not there is removed already.
Relabel ==
    LET i == orch.removal.of IN
    /\ up /\ orch.removal.at = "label"
    /\ \E written \in BOOLEAN, marked \in IF HasWorkspace(i) THEN BOOLEAN ELSE {TRUE} :
          /\ Went(written /\ marked)
          /\ issue' = [issue EXCEPT ![i] = IF written /\ @ = "closed" THEN "rested" ELSE @]
          /\ IF HasWorkspace(i)
             THEN /\ Opened(i, orch.removal.account, marked)
                  /\ orch' = [orch EXCEPT !.removal.at = "unlink"]
             ELSE /\ disk' = disk
                  /\ orch' = [orch EXCEPT !.removal = NoRemoval]
    /\ UNCHANGED <<pool, bindings, running, retries, discards, up>>

\* An unlink goes in the order the disk lists: it may have taken the clone, the worker's own
\* state with the mark in it, or nothing yet.
Torn(dir) ==
    {[dir EXCEPT !.tree = tree, !.finished = finished] :
        tree \in {"partial", dir.tree}, finished \in {FALSE, dir.finished}}

\* Mutant: what a failed removal left is sealed, and not marked again.
LeftUnmarked(i, dir, marked) == Seal(dir)

\* What a removal that failed leaves: a work clone is marked again, and it is sealed.
LeftBehind(i, dir, marked) == Seal(IF i \in Triaged THEN dir ELSE MarkFinished(dir, marked))

\* The tree is gone, or the removal failed.
Unlinked ==
    LET i == orch.removal.of IN
    /\ up /\ orch.removal.at = "unlink"
    /\ \/ disk' = [disk EXCEPT ![i] = Absent] /\ UNCHANGED upsets
       \/ /\ Upset
          /\ \E dir \in Torn(disk[i]), marked \in BOOLEAN :
                disk' = [disk EXCEPT ![i] = LeftBehind(i, dir, marked)]
    /\ orch' = IF orch.doing = "discard" THEN Free ELSE [orch EXCEPT !.removal = NoRemoval]
    /\ UNCHANGED <<pool, bindings, running, retries, discards, issue, up>>

\* The sweep's last part begins: the workspaces that carry the mark, read off the disk once.
ReadFinished ==
    /\ up /\ orch.doing = "sweep" /\ orch.removal = NoRemoval /\ orch.left = {}
    /\ orch' = [Free EXCEPT !.doing = "finished",
                            !.left = {i \in Issues : disk[i].finished}]
    /\ UNCHANGED <<pool, disks, running, retries, discards, issue, up, upsets>>

\* A key in use is left alone; any other is removed again.
RetryRemoval(i, account) ==
    /\ up /\ orch.doing = "finished" /\ orch.removal = NoRemoval /\ i \in orch.left
    /\ RemovesAs(i, account)
    /\ IF i \in PoolKeys \/ ~HasWorkspace(i)
       THEN orch' = [orch EXCEPT !.left = @ \ {i}] /\ UNCHANGED <<disk, upsets>>
       ELSE /\ \E marked \in BOOLEAN : Went(marked) /\ Opened(i, account, marked)
            /\ orch' = [orch EXCEPT !.left = @ \ {i},
                                    !.removal = [of |-> i, account |-> account, at |-> "unlink"]]
    /\ UNCHANGED <<pool, bindings, running, retries, discards, issue, up>>

\* The sweep ends with the bindings of workspaces that are gone; a retry's close-out just ends.
EndSweep ==
    /\ up /\ orch.removal = NoRemoval /\ orch.left = {}
    /\ orch.doing \in {"finished", "retry"}
    /\ bindings' = IF orch.doing = "retry" THEN bindings ELSE
                   [i \in Issues |-> IF i \in PoolKeys \/ HasWorkspace(i)
                                     THEN Loaded[i] ELSE NoOne]
    /\ orch' = Free
    /\ UNCHANGED <<pool, disk, running, retries, discards, issue, up, upsets>>

\* A triage clone's delay is up and no run is reading it.
Discard(i, account) ==
    /\ IsFree
    /\ i \in discards /\ ~IsRunning(i)
    /\ RemovesAs(i, account)
    /\ discards' = discards \ {i}
    /\ IF Exists(i)
       THEN /\ disk' = [disk EXCEPT ![i] = Share(@, account)]
            /\ orch' = [Free EXCEPT !.doing = "discard",
                                    !.removal = [of |-> i, account |-> account,
                                                 at |-> "unlink"]]
       ELSE UNCHANGED <<disk, orch>>
    /\ UNCHANGED <<pool, bindings, running, retries, issue, up, upsets>>

----------------------------------------------------------------------------
\* The process, the setting and the human.

\* The worker is killed outright. Its sessions go with the container they run in; the
\* disk stays as it was, but for a removal it was in the middle of, which is left where it
\* had come to.
Crash ==
    /\ up /\ Upset
    /\ up' = FALSE
    /\ running' = [i \in Issues |-> NoRun]
    /\ retries' = {} /\ discards' = {}
    /\ orch' = Free
    /\ IF orch.removal.at = "unlink"
       THEN LET dir == disk[orch.removal.of] IN
            \E torn \in Torn(dir) :
               disk' = [disk EXCEPT ![orch.removal.of] =
                           [torn EXCEPT !.lost = IF dir.finished # torn.finished THEN "killed" ELSE @]]
       ELSE disk' = disk
    /\ UNCHANGED <<pool, bindings, issue>>

\* Mutant: nothing is sealed at startup.
SealNone == disk

SealIdle == [i \in Issues |-> Seal(disk[i])]

\* Startup, before anything is claimed: every workspace is sealed, and every triage clone
\* on the disk removed, or left sealed where it will not go.
Start ==
    /\ ~up
    /\ up' = TRUE
    /\ \/ /\ disk' = [i \in Issues |-> IF i \in Triaged THEN Absent ELSE SealIdle[i]]
          /\ UNCHANGED upsets
       \/ /\ Upset
          /\ disk' = SealIdle
    /\ UNCHANGED <<pool, bindings, memory, issue>>

\* A reload changes agent.run_as; the sessions that run keep the account they have.
Reload(p) ==
    /\ IsFree
    /\ p # pool /\ Upset
    /\ pool' = p
    /\ UNCHANGED <<disks, memory, issue, up>>

Close(i) ==
    /\ issue[i] = "active" /\ Upset
    /\ issue' = [issue EXCEPT ![i] = "closed"]
    /\ UNCHANGED <<pool, disks, memory, up>>

Reopen(i) ==
    /\ issue[i] \in {"closed", "rested"} /\ Upset
    /\ issue' = [issue EXCEPT ![i] = "active"]
    /\ UNCHANGED <<pool, disks, memory, up>>

----------------------------------------------------------------------------
Run(i) == Reuse(i) \/ Create(i) \/ Created(i) \/ EndSession(i)

Removal ==
    \/ Relabel \/ Unlinked \/ ReadFinished \/ EndSweep
    \/ \E i \in Issues : Pass(i)
    \/ \E i \in Issues, a \in Accounts : Finish(i, a) \/ RetryRemoval(i, a)

Next ==
    \/ \E i \in Issues, a \in Accounts :
          Dispatch(i, a) \/ FireRetry(i, a) \/ Discard(i, a)
    \/ \E i \in Issues : Run(i) \/ Exit(i) \/ RetryFinds(i) \/ Close(i) \/ Reopen(i)
    \/ Removal \/ Sweep \/ Crash \/ Start
    \/ \E p \in Pools : Reload(p)

Spec == Init /\ [][Next]_vars

----------------------------------------------------------------------------
WorkspacesTypeOK ==
    /\ pool \in Pools
    /\ bindings \in [Issues -> Accounts \cup {NoOne}]
    /\ disk \in [Issues -> Directory]
    /\ running \in [Issues -> [account : Accounts \cup {NoOne},
                               phase : {"none", "starting", "cloning", "session", "over"}]]
    /\ retries \subseteq Issues /\ discards \subseteq Issues
    /\ issue \in [Issues -> {"active", "closed", "rested"}]
    /\ orch.left \subseteq Issues
    /\ up \in BOOLEAN

\* The promise of the pool: two sessions of the worker never share an account, though
\* bindings outlive runs, are pruned, and move when the pool changes (_bind_account).
SessionsApart ==
    \A i, j \in Runs : running[i].account = running[j].account => i = j

\* A workspace is open only to the account that works in it, for as long as it does: a run
\* or a removal. What a killed worker left open, startup has closed (seal_idle).
IdleIsSealed ==
    up => \A i \in Issues : disk[i].open # NoOne =>
        \/ running[i].phase \in {"cloning", "session"} /\ running[i].account = disk[i].open
        \/ orch.removal.of = i /\ orch.removal.account = disk[i].open

\* A session works in a clone whose creation finished, made of its own account's files and
\* open to it, whatever a failed clone, a failed removal or a moved binding left there
\* (_is_complete).
WorksInItsOwnClone ==
    \A i \in Runs : running[i].phase = "session" =>
        LET dir == disk[i] IN
        dir.tree = "whole" /\ dir.owner = running[i].account /\ dir.open = dir.owner

\* An issue that came to rest, which nothing lists again, leaves a workspace that does not
\* ask for its own removal for two reasons only: the disk refused it the mark the last time
\* it was written, or a kill found it being unlinked with the mark already taken. A removal,
\* a hook or a label that failed, a sweep cut short, a mark left by an earlier close-out and
\* dropped by a run since, and a kill anywhere else, leave it marked (mark_finished before
\* the label moves, remove_key before the unlink and again after one that failed).
FinishedIsAskedFor ==
    \A i \in Issues : issue[i] = "rested" /\ HasWorkspace(i) =>
        disk[i].finished \/ disk[i].lost # "no"

\* What finished_keys says (workspace.py:603), that the marked are exactly the removals that
\* did not complete, across restarts; a mark the disk refused is set aside, since the code
\* says it goes on without. It does not hold: a kill in the middle of an unlink may have
\* taken the mark first (the README has the behaviour).
FinishedKeysIsExact ==
    \A i \in Issues : issue[i] = "rested" /\ HasWorkspace(i) =>
        disk[i].finished \/ disk[i].lost = "refused"
=============================================================================
