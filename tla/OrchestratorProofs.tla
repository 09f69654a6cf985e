-------------------------- MODULE OrchestratorProofs --------------------------
(***************************************************************************)
(* Proofs about Orchestrator, for every number of issues and agents, every *)
(* ceiling and every choice of what the environment may do.                *)
(*                                                                         *)
(* The argument: the task has at most one issue in hand, and an issue it   *)
(* is about to claim passed the gate at an instant since when no session   *)
(* has started and nothing was charged.  That is what lets a claim await   *)
(* GitHub twice between the gate and the run.                              *)
(*                                                                         *)
(* On it rest four more: the ledger knows every issue an escape may mark,  *)
(* so an escalation is announced once (MarkInv); what is handed to a human *)
(* keeps a label that asks for nothing, or the mark the bounce reads       *)
(* (HandInv); the sweep holds back what its read did not find foremost     *)
(* (OrderInv); and each step is one of WorkBudget's or none (BudgetStep).  *)
(***************************************************************************)
EXTENDS Orchestrator, FiniteSetTheorems, TLAPS

\* Where the task is while it has an issue in hand, and about to claim it.
InHand   == {"assess", "operator", "unapprove", "claim", "fire", "escapeRead",
             "escapeWrite", "budgetRead", "budgetWrite", "finish"}
Claiming == {"assess", "operator", "unapprove", "claim"}

OneInHand == /\ pc \in InHand => cur \in Issues
             /\ pc \notin InHand => cur = 0

\* What the gate found still holds when the run starts.
ClaimsFit == pc \in Claiming => /\ Cardinality(Running) < MaxAgents
                                /\ failures[cur] < MaxAttempts
                                /\ ~OverCost(cost[cur])
                                /\ ~HoldNow

\* A run's own failure takes the chain no further than the ceiling.
RunsBelowCeiling == \A i \in Issues : run[i] # "idle" => failures[i] < MaxAttempts

\* The inductive invariant.
IInv == /\ TypeOK /\ OneInHand /\ ExclusiveHold /\ ClaimsFit
        /\ RunsBelowCeiling /\ SlotsRespected

\* Whatever a step writes to an issue, by claim, escape, bounce, close-out or a
\* human hand, is a label, a closing or a count the board has.
LEMMA GithubTypes == IInv /\ [Next]_vars => GithubTypeOK'
<1> SUFFICES ASSUME IInv, [Next]_vars PROVE GithubTypeOK'
  OBVIOUS
<1> USE BudgetAssumption, OrchestratorAssumption
    DEF BudgetAssumption, OrchestratorAssumption, IInv, TypeOK, GithubTypeOK, github, StateLabels
<1>1. CASE Reconcile
  BY <1>1 DEF Reconcile, StartTick, RefreshFails, Refresh, SweepFails, Sweep, SweepDone, SweepNext
<1>2. CASE Poll
  BY <1>2 DEF Poll, SettleHolds, FetchFails, Fetch, BounceDone, ReadParents, ReadParentsFails,
              HoldBack, Bounce, BounceFails
<1>3. CASE Dispatch
  BY <1>3 DEF Dispatch, DispatchNext, DispatchDone, HandBack, HandBackFails, Claim, ClaimFails,
              Assess,
              Set
<1>4. CASE Escape
  BY <1>4 DEF Escape, EscapeFails, OweEscape, EscapeRead, EscapeWrite, BudgetFails, BudgetRead,
              BudgetWrite, Finish, FinishFails,
              Set
<1>5. CASE Between \/ ShutDown
  BY <1>5 DEF Between, FireFails, Fire, HandleExit, FireRetry, ShutDown, Shutdown, Kill, Down
<1>6. CASE \E i \in Issues : Session(i) \/ Human(i)
  <2>1. ASSUME NEW i \in Issues, Session(i) PROVE GithubTypeOK'
    BY <2>1 DEF Session, SessionEnds, AgentReview, Set
  <2>2. ASSUME NEW i \in Issues, NEW l \in HumanLabels, HumanLabel(i, l) PROVE GithubTypeOK'
    BY <2>2 DEF HumanLabel, Set
  <2>3. ASSUME NEW i \in Issues, NEW how \in {"delivered", "abandoned"}, HumanClose(i, how)
        PROVE  GithubTypeOK'
    BY <2>3 DEF HumanClose
  <2>4. ASSUME NEW i \in Issues, HumanReopen(i) \/ PullRequestMoves(i) PROVE GithubTypeOK'
    BY <2>4 DEF HumanReopen, PullRequestMoves
  <2> QED
    BY <1>6, <2>1, <2>2, <2>3, <2>4 DEF Human
<1>7. CASE RequestStop \/ Restart \/ UNCHANGED vars
  BY <1>7 DEF RequestStop, Restart, vars
<1>8. QED
  BY <1>1, <1>2, <1>3, <1>4, <1>5, <1>6, <1>7 DEF Next, Task

\* A step starts, stops, ends or settles sessions only into the outcomes and the
\* stop causes the exit handler knows, and retries into the two kinds it fires.
LEMMA SessionsTypes == IInv /\ [Next]_vars => SessionsTypeOK'
<1> SUFFICES ASSUME IInv, [Next]_vars PROVE SessionsTypeOK'
  OBVIOUS
<1> USE BudgetAssumption, OrchestratorAssumption
    DEF BudgetAssumption, OrchestratorAssumption, IInv, TypeOK, SessionsTypeOK, sessions, Results, Causes, Closings, Issues
<1>1. CASE Reconcile
  <2>1. CASE StartTick
    BY <2>1 DEF StartTick, RefreshedCause, FirstCause, Closing, Running
  <2>2. CASE RefreshFails
    BY <2>2 DEF RefreshFails, RefreshedCause, FirstCause, Closing, Running
  <2>3. CASE Refresh
    BY <2>3 DEF Refresh, RefreshedCause, FirstCause, Closing, Running
  <2>4. CASE SweepFails \/ Sweep \/ SweepDone
    BY <2>4 DEF SweepFails, Sweep, SweepDone, RefreshedCause, FirstCause, Closing, Running
  <2>5. CASE \E i \in Issues : SweepNext(i)
    BY <2>5 DEF SweepNext, RefreshedCause, FirstCause, Closing, Running
  <2> QED
    BY <1>1, <2>1, <2>2, <2>3, <2>4, <2>5 DEF Reconcile
<1>2. CASE Poll
  BY <1>2 DEF Poll, SettleHolds, FetchFails, Fetch, BounceDone, ReadParents, ReadParentsFails,
              HoldBack, Bounce, BounceFails
<1>3. CASE Dispatch
  <2>1. CASE DispatchNext
    BY <2>1 DEF DispatchNext, StartRun, OneInHand, InHand
  <2>2. CASE DispatchDone
    BY <2>2 DEF DispatchDone, StartRun, OneInHand, InHand
  <2>3. CASE HandBack \/ HandBackFails
    BY <2>3 DEF HandBack, HandBackFails, StartRun, OneInHand, InHand
  <2>4. CASE Claim
    BY <2>4 DEF Claim, StartRun, OneInHand, InHand
  <2>5. CASE ClaimFails
    BY <2>5 DEF ClaimFails, StartRun, OneInHand, InHand
  <2>6. CASE \E answer \in Approvals : Assess(answer)
    <3>1. CASE UNCHANGED <<sessions, retry, ledger, history>> /\ UNCHANGED <<github, worker, disk>>
      BY <3>1
    <3>2. CASE pc = "assess" /\ StartRun(cur) /\ UNCHANGED <<github, worker, disk>>
      BY <3>2 DEF StartRun, OneInHand, InHand
    <3> QED
      BY <2>6, <3>1, <3>2 DEF Assess
  <2> QED
    BY <1>3, <2>1, <2>2, <2>3, <2>4, <2>5, <2>6 DEF Dispatch
<1>4. CASE Escape
  <2>1. CASE EscapeFails
    BY <2>1 DEF EscapeFails, OweEscape
  <2>2. CASE EscapeRead \/ EscapeWrite \/ BudgetFails \/ BudgetRead \/ BudgetWrite
    BY <2>2 DEF EscapeRead, EscapeWrite, BudgetFails, BudgetRead, BudgetWrite
  <2>3. CASE Finish \/ FinishFails
    BY <2>3 DEF Finish, FinishFails
  <2> QED
    BY <1>4, <2>1, <2>2, <2>3 DEF Escape
<1>5. CASE Between \/ ShutDown
  <2>1. CASE FireFails
    BY <2>1 DEF FireFails, OneInHand, InHand, FirstCause, Closing, Requeue, Schedule, AfterExit
  <2>2. CASE Fire
    <3>1. cur \in Issues
      BY <2>2 DEF Fire, OneInHand, InHand
    <3>2. UNCHANGED retry \/ retry' = [retry EXCEPT ![cur] = "run"]
      BY <2>2 DEF Fire, Requeue
    <3>3. UNCHANGED terminal \/ terminal' = [terminal EXCEPT ![cur] = Closing(Board[cur])]
      BY <2>2 DEF Fire
    <3>4. terminal' \in [Issues -> Closings]
      BY <3>1, <3>3 DEF Closing
    <3>5. retry' \in [Issues -> {"none", "run", "escape"}]
      BY <3>1, <3>2
    <3> QED
      BY <2>2, <3>4, <3>5 DEF Fire
  <2>3. CASE \E i \in Issues : HandleExit(i)
    BY <2>3 DEF HandleExit, OneInHand, InHand, FirstCause, Closing, Requeue, Schedule, AfterExit
  <2>4. CASE \E i \in Issues : FireRetry(i)
    BY <2>4 DEF FireRetry, OneInHand, InHand, FirstCause, Closing, Requeue, Schedule, AfterExit
  <2>5. CASE Shutdown
    BY <2>5 DEF Shutdown, OneInHand, InHand, FirstCause, Closing, Requeue, Schedule, AfterExit
  <2>6. CASE Kill
    BY <2>6 DEF Kill, OneInHand, InHand, FirstCause, Closing, Requeue, Schedule, AfterExit
  <2>7. CASE Down
    BY <2>7 DEF Down, OneInHand, InHand, FirstCause, Closing, Requeue, Schedule, AfterExit
  <2> QED
    BY <1>5, <2>1, <2>2, <2>3, <2>4, <2>5, <2>6, <2>7 DEF Between, ShutDown
<1>6. CASE \E i \in Issues : Session(i) \/ Human(i)
  BY <1>6 DEF Session, Human, AgentReview, SessionEnds, HumanLabel, HumanClose, HumanReopen,
              PullRequestMoves,
              Touch
<1>7. CASE RequestStop \/ Restart \/ UNCHANGED vars
  <2>1. CASE RequestStop
    BY <2>1 DEF RequestStop
  <2>2. CASE Restart
    BY <2>2 DEF Restart
  <2>3. CASE UNCHANGED vars
    BY <2>3 DEF vars
  <2> QED
    BY <1>7, <2>1, <2>2, <2>3
<1>8. QED
  BY <1>1, <1>2, <1>3, <1>4, <1>5, <1>6, <1>7 DEF Next, Task

\* What _record_escape leaves in the ledger.
LEMMA RecordEscapeTypes ==
  ASSUME LedgerTypeOK, NEW i \in Issues, RecordEscape(i, escalated[i])
  PROVE  LedgerTypeOK'
<1>1. 0 \in 0..MaxAttempts
  BY BudgetAssumption DEF BudgetAssumption
<1>2. failures' \in [Issues -> 0..MaxAttempts]
  BY <1>1 DEF LedgerTypeOK, RecordEscape
<1>3. escaped' \in [Issues -> BOOLEAN] /\ escalated' \in [Issues -> BOOLEAN]
  BY DEF LedgerTypeOK, RecordEscape
<1>4. QED
  BY <1>2, <1>3 DEF LedgerTypeOK, RecordEscape

\* The chain of failures stays at or below agent.max_attempts and the spend at or
\* below its cap, through every escape, exit, record and restart.
LEMMA LedgerTypes == IInv /\ [Next]_vars => LedgerTypeOK'
<1> SUFFICES ASSUME IInv, [Next]_vars PROVE LedgerTypeOK'
  OBVIOUS
<1> USE BudgetAssumption, OrchestratorAssumption
    DEF BudgetAssumption, OrchestratorAssumption, IInv, TypeOK, LedgerTypeOK, ledger, Issues
<1>1. CASE Reconcile
  BY <1>1 DEF Reconcile, StartTick, RefreshFails, Refresh, SweepFails, Sweep, SweepDone, SweepNext
<1>2. CASE Poll
  BY <1>2 DEF Poll, SettleHolds, FetchFails, Fetch, BounceDone, ReadParents, ReadParentsFails,
              HoldBack, Bounce, BounceFails
<1>3. CASE Dispatch
  <2>1. CASE DispatchNext
    <3>1. UNCHANGED ledger \/ \E i \in work : Observe(i)
      BY <2>1 DEF DispatchNext
    <3>2. ASSUME NEW i, Observe(i) PROVE LedgerTypeOK'
      <4>1. UNCHANGED ledger \/ /\ known' = [known EXCEPT ![i] = TRUE]
                                /\ failures' = [failures EXCEPT ![i] = Floor(i)]
                                /\ UNCHANGED <<cost, escalated, escaped>>
        BY <3>2 DEF Observe
      <4>2. i \in Issues => Floor(i) \in 0..MaxAttempts
        BY DEF Floor, SeededChain, RestTypeOK
      <4> QED
        <5>1. known' \in [Issues -> BOOLEAN]
          BY <4>1
        <5>2. failures' \in [Issues -> 0..MaxAttempts]
          BY <4>1, <4>2
        <5> QED
          BY <4>1, <5>1, <5>2
    <3> QED
      BY <3>1, <3>2
  <2>2. CASE DispatchDone
    BY <2>2 DEF DispatchDone, OneInHand, InHand, StartRun, RecordEscape, Observe, Floor, SeededChain, RestTypeOK
  <2>3. CASE HandBack \/ HandBackFails
    <3>1. cur \in Issues
      BY <2>3 DEF HandBack, HandBackFails, OneInHand, InHand
    <3>2. UNCHANGED ledger \/ RecordEscape(cur, escalated[cur])
      BY <2>3 DEF HandBack, HandBackFails
    <3> QED
      BY <3>1, <3>2, RecordEscapeTypes
  <2>4. CASE Claim
    BY <2>4 DEF Claim, OneInHand, InHand, StartRun, RecordEscape, Observe, Floor, SeededChain, RestTypeOK
  <2>5. CASE ClaimFails
    BY <2>5 DEF ClaimFails, OneInHand, InHand, StartRun, RecordEscape, Observe, Floor, SeededChain, RestTypeOK
  <2>6. CASE \E answer \in Approvals : Assess(answer)
    BY <2>6 DEF Assess, OneInHand, InHand, StartRun, RecordEscape, Observe, Floor, SeededChain, RestTypeOK
  <2> QED
    BY <1>3, <2>1, <2>2, <2>3, <2>4, <2>5, <2>6 DEF Dispatch
<1>4. CASE Escape
  <2>1. CASE EscapeFails
    BY <2>1 DEF EscapeFails, OweEscape, OneInHand, InHand, RecordEscape, Forget
  <2>2. CASE EscapeRead
    <3>1. cur \in Issues
      BY <2>2 DEF EscapeRead, OneInHand, InHand
    <3>2. UNCHANGED ledger \/ RecordEscape(cur, escalated[cur])
      BY <2>2 DEF EscapeRead
    <3> QED
      BY <3>1, <3>2, RecordEscapeTypes
  <2>3. CASE EscapeWrite
    BY <2>3 DEF EscapeWrite, OneInHand, InHand, RecordEscape, Forget
  <2>4. CASE BudgetFails
    BY <2>4 DEF BudgetFails, OneInHand, InHand, RecordEscape, Forget
  <2>5. CASE BudgetRead
    <3>1. cur \in Issues
      BY <2>5 DEF BudgetRead, OneInHand, InHand
    <3>2. UNCHANGED ledger \/ RecordEscape(cur, escalated[cur])
      BY <2>5 DEF BudgetRead
    <3> QED
      BY <3>1, <3>2, RecordEscapeTypes
  <2>6. CASE BudgetWrite
    BY <2>6 DEF BudgetWrite, OneInHand, InHand, RecordEscape, Forget
  <2>7. CASE Finish
    BY <2>7 DEF Finish, OneInHand, InHand, RecordEscape, Forget
  <2>8. CASE FinishFails
    BY <2>8 DEF FinishFails, OneInHand, InHand, RecordEscape, Forget
  <2> QED
    BY <1>4, <2>1, <2>2, <2>3, <2>4, <2>5, <2>6, <2>7, <2>8 DEF Escape
<1>5. CASE Between \/ ShutDown
  <2>1. CASE FireFails
    BY <2>1 DEF FireFails, AfterExit, Capped, Schedule, ChainSpent, RunsBelowCeiling, SessionsTypeOK
  <2>2. CASE Fire
    BY <2>2 DEF Fire, AfterExit, Capped, Schedule, ChainSpent, RunsBelowCeiling, SessionsTypeOK
  <2>3. CASE \E i \in Issues : HandleExit(i)
    <3>1. PICK i \in Issues : HandleExit(i)
      BY <2>3
    <3>2. UNCHANGED <<known, escalated, escaped>>
      BY <3>1 DEF HandleExit
    <3>3. cost' \in [Issues -> 0..CostCap]
      BY <3>1 DEF HandleExit, Capped
    <3>4. failures[i] + 1 \in 0..MaxAttempts
      <4>1. failures[i] \in 0..MaxAttempts
        OBVIOUS
      <4>2. failures[i] < MaxAttempts
        BY <3>1 DEF HandleExit, RunsBelowCeiling
      <4> QED
        BY <4>1, <4>2
    <3>5. \E n \in {0, failures[i], failures[i] + 1} : failures' = [failures EXCEPT ![i] = n]
      BY <3>1 DEF HandleExit, AfterExit
    <3>6. failures' \in [Issues -> 0..MaxAttempts]
      BY <3>4, <3>5
    <3> QED
      BY <3>2, <3>3, <3>6
  <2>4. CASE \E i \in Issues : FireRetry(i)
    BY <2>4 DEF FireRetry, AfterExit, Capped, Schedule, ChainSpent, RunsBelowCeiling, SessionsTypeOK
  <2>5. CASE Shutdown
    BY <2>5 DEF Shutdown, AfterExit, Capped, Schedule, ChainSpent, RunsBelowCeiling, SessionsTypeOK
  <2>6. CASE Kill
    BY <2>6 DEF Kill, AfterExit, Capped, Schedule, ChainSpent, RunsBelowCeiling, SessionsTypeOK
  <2>7. CASE Down
    BY <2>7 DEF Down, AfterExit, Capped, Schedule, ChainSpent, RunsBelowCeiling, SessionsTypeOK
  <2> QED
    BY <1>5, <2>1, <2>2, <2>3, <2>4, <2>5, <2>6, <2>7 DEF Between, ShutDown
<1>6. CASE \E i \in Issues : Session(i) \/ Human(i)
  BY <1>6 DEF Session, Human, AgentReview, SessionEnds, HumanLabel, HumanClose, HumanReopen,
              PullRequestMoves,
              Touch
<1>7. CASE RequestStop \/ Restart \/ UNCHANGED vars
  <2>1. CASE RequestStop
    BY <2>1 DEF RequestStop, SeededChain, RestTypeOK
  <2>2. CASE Restart
    <3>1. PICK seeds \in SUBSET {i \in Issues : Store /\ logged[i]},
               chain \in [Issues -> 0..MaxAttempts + 1] :
             /\ \A i \in Issues \ seeds : chain[i] = 0
             /\ known' = [i \in Issues |-> i \in seeds]
             /\ failures' = [i \in Issues |-> SeededChain(chain[i])]
             /\ cost' = [i \in Issues |-> IF i \in seeds THEN billed[i] ELSE 0]
      BY <2>2, Zenon DEF Restart
    <3>2. \A n \in 0..MaxAttempts + 1 : SeededChain(n) \in 0..MaxAttempts
      BY DEF SeededChain
    <3>3. \A i \in Issues : chain[i] \in 0..MaxAttempts + 1
      BY <3>1
    <3>4. failures' \in [Issues -> 0..MaxAttempts]
      BY <3>1, <3>2, <3>3
    <3>5. cost' \in [Issues -> 0..CostCap]
      BY <3>1 DEF RestTypeOK
    <3>6. known' \in [Issues -> BOOLEAN]
      BY <3>1
    <3>7. escalated' \in [Issues -> BOOLEAN] /\ escaped' \in [Issues -> BOOLEAN]
      BY <2>2 DEF Restart
    <3> QED
      BY <3>4, <3>5, <3>6, <3>7
  <2>3. CASE UNCHANGED vars
    BY <2>3 DEF vars, SeededChain, RestTypeOK
  <2> QED
    BY <1>7, <2>1, <2>2, <2>3
<1>8. QED
  BY <1>1, <1>2, <1>3, <1>4, <1>5, <1>6, <1>7 DEF Next, Task

\* Only known holds are raised, and failed fetches are counted up to the bound.
LEMMA WorkerTypes == IInv /\ [Next]_vars => WorkerTypeOK'
<1> SUFFICES ASSUME IInv, [Next]_vars PROVE WorkerTypeOK'
  OBVIOUS
<1> USE BudgetAssumption, OrchestratorAssumption
    DEF BudgetAssumption, OrchestratorAssumption, IInv, TypeOK, WorkerTypeOK, worker
<1>1. CASE Reconcile
  BY <1>1 DEF Reconcile, StartTick, RefreshFails, Refresh, SweepFails, Sweep, SweepDone, SweepNext
<1>2. CASE Poll
  BY <1>2 DEF Poll, SettleHolds, FetchFails, Fetch, BounceDone, ReadParents, ReadParentsFails,
              HoldBack, Bounce, BounceFails,
              EndTick
<1>3. CASE Dispatch
  BY <1>3 DEF Dispatch, DispatchNext, DispatchDone, HandBack, HandBackFails, Claim, ClaimFails,
              Assess
<1>4. CASE Escape
  BY <1>4 DEF Escape, EscapeFails, OweEscape, EscapeRead, EscapeWrite, BudgetFails, BudgetRead,
              BudgetWrite, Finish, FinishFails
<1>5. CASE Between \/ ShutDown
  BY <1>5 DEF Between, FireFails, Fire, HandleExit, FireRetry, ShutDown, Shutdown, Kill, Down,
              AfterExit
<1>6. CASE \E i \in Issues : Session(i) \/ Human(i)
  BY <1>6 DEF Session, Human, AgentReview, SessionEnds, HumanLabel, HumanClose, HumanReopen,
              PullRequestMoves,
              Touch
<1>7. CASE RequestStop \/ Restart \/ UNCHANGED vars
  <2>1. CASE RequestStop
    BY <2>1 DEF RequestStop
  <2>2. CASE Restart
    <3>1. holds' = {} /\ fetchFailures' = 0 /\ stopping' = FALSE
      BY <2>2 DEF Restart
    <3>2. holds' \subseteq HoldKinds \cup {"auth", "usage"}
      BY <3>1
    <3>3. fetchFailures' \in 0..MaxFetchFailures
      BY <3>1
    <3> QED
      BY <3>1, <3>2, <3>3
  <2>3. CASE UNCHANGED vars
    BY <2>3 DEF vars
  <2> QED
    BY <1>7, <2>1, <2>2, <2>3
<1>8. QED
  BY <1>1, <1>2, <1>3, <1>4, <1>5, <1>6, <1>7 DEF Next, Task

\* What outlives the process, and the history of an issue, keep their types.
LEMMA RestTypes == IInv /\ [Next]_vars => RestTypeOK'
<1> SUFFICES ASSUME IInv, [Next]_vars PROVE RestTypeOK'
  OBVIOUS
<1> USE BudgetAssumption, OrchestratorAssumption
    DEF BudgetAssumption, OrchestratorAssumption, IInv, TypeOK, RestTypeOK, disk, history, Issues
<1>1. CASE Reconcile
  BY <1>1 DEF Reconcile, StartTick, RefreshFails, Refresh, SweepFails, Sweep, SweepDone, SweepNext
<1>2. CASE Poll
  BY <1>2 DEF Poll, SettleHolds, FetchFails, Fetch, BounceDone, ReadParents, ReadParentsFails,
              HoldBack, Foremost, Bounce, BounceFails
<1>3. CASE Dispatch
  <2>1. CASE DispatchNext
    BY <2>1 DEF DispatchNext, StartRun, OneInHand, InHand
  <2>2. CASE DispatchDone
    BY <2>2 DEF DispatchDone, StartRun, OneInHand, InHand
  <2>3. CASE HandBack \/ HandBackFails
    BY <2>3 DEF HandBack, HandBackFails, StartRun, OneInHand, InHand
  <2>4. CASE Claim
    BY <2>4 DEF Claim, StartRun, OneInHand, InHand
  <2>5. CASE ClaimFails
    BY <2>5 DEF ClaimFails, StartRun, OneInHand, InHand
  <2>6. CASE \E answer \in Approvals : Assess(answer)
    <3>1. CASE UNCHANGED <<sessions, retry, ledger, history>> /\ UNCHANGED <<github, worker, disk>>
      BY <3>1
    <3>2. CASE pc = "assess" /\ StartRun(cur) /\ UNCHANGED <<github, worker, disk>>
      BY <3>2 DEF StartRun, OneInHand, InHand
    <3> QED
      BY <2>6, <3>1, <3>2 DEF Assess
  <2> QED
    BY <1>3, <2>1, <2>2, <2>3, <2>4, <2>5, <2>6 DEF Dispatch
<1>4. CASE Escape
  <2>1. CASE EscapeFails
    BY <2>1 DEF EscapeFails, OweEscape, OneInHand, InHand
  <2>2. CASE EscapeRead
    BY <2>2 DEF EscapeRead, OneInHand, InHand
  <2>3. CASE EscapeWrite
    BY <2>3 DEF EscapeWrite, OneInHand, InHand
  <2>4. CASE BudgetFails
    BY <2>4 DEF BudgetFails, OneInHand, InHand
  <2>5. CASE BudgetRead
    BY <2>5 DEF BudgetRead, OneInHand, InHand
  <2>6. CASE BudgetWrite
    BY <2>6 DEF BudgetWrite, OneInHand, InHand
  <2>7. CASE Finish
    BY <2>7 DEF Finish, OneInHand, InHand
  <2>8. CASE FinishFails
    BY <2>8 DEF FinishFails, OneInHand, InHand
  <2> QED
    BY <1>4, <2>1, <2>2, <2>3, <2>4, <2>5, <2>6, <2>7, <2>8 DEF Escape
<1>5. CASE Between \/ ShutDown
  <2>1. CASE FireFails
    BY <2>1 DEF FireFails, Capped
  <2>2. CASE Fire
    BY <2>2 DEF Fire, Capped
  <2>3. CASE \E i \in Issues : HandleExit(i)
    <3>1. PICK i \in Issues : HandleExit(i)
      BY <2>3
    <3>2. UNCHANGED <<recorded, restarts, history>>
      BY <3>1 DEF HandleExit
    <3>3. billed' \in [Issues -> 0..CostCap]
      BY <3>1 DEF HandleExit, Capped
    <3>4. logged' \in [Issues -> BOOLEAN]
      BY <3>1 DEF HandleExit
    <3> QED
      BY <3>2, <3>3, <3>4
  <2>4. CASE \E i \in Issues : FireRetry(i)
    BY <2>4 DEF FireRetry, Capped
  <2>5. CASE Shutdown
    BY <2>5 DEF Shutdown, Capped
  <2>6. CASE Kill
    BY <2>6 DEF Kill, Capped
  <2>7. CASE Down
    BY <2>7 DEF Down, Capped
  <2> QED
    BY <1>5, <2>1, <2>2, <2>3, <2>4, <2>5, <2>6, <2>7 DEF Between, ShutDown
<1>6. CASE \E i \in Issues : Session(i) \/ Human(i)
  <2>1. CASE \E i \in Issues : AgentReview(i)
    BY <2>1 DEF AgentReview, Touch, LedgerTypeOK, RunsBelowCeiling
  <2>2. CASE \E i \in Issues, how \in Results : SessionEnds(i, how)
    <3>1. PICK i \in Issues, how \in Results : SessionEnds(i, how)
      BY <2>2
    <3>2. failures[i] + 1 \in 0..MaxAttempts
      <4>1. failures[i] \in 0..MaxAttempts
        BY DEF LedgerTypeOK
      <4>2. failures[i] < MaxAttempts
        BY <3>1 DEF SessionEnds, RunsBelowCeiling
      <4> QED
        BY <4>1, <4>2
    <3> QED
      BY <3>1, <3>2 DEF SessionEnds
  <2>3. CASE \E i \in Issues : Human(i)
    BY <2>3 DEF Human, HumanLabel, HumanClose, HumanReopen, PullRequestMoves, Touch, LedgerTypeOK, RunsBelowCeiling
  <2> QED
    BY <1>6, <2>1, <2>2, <2>3 DEF Session
<1>7. CASE RequestStop \/ Restart \/ UNCHANGED vars
  <2>1. CASE RequestStop
    BY <2>1 DEF RequestStop, LedgerTypeOK, RunsBelowCeiling, Running, SessionsTypeOK
  <2>2. CASE Restart
    <3>1. /\ restarts < MaxRestarts /\ restarts' = restarts + 1
          /\ UNCHANGED <<logged, billed>>
          /\ announced' = [i \in Issues |-> 0] /\ handed' = [i \in Issues |-> FALSE]
          /\ turn' = {}
      BY <2>2 DEF Restart
    <3>2. PICK saved \in SUBSET Running :
            recorded' = [i \in Issues |-> IF i \in saved /\ run[i] = "live"
                                          THEN failures[i] + 1 ELSE recorded[i]]
      BY <2>2 DEF Restart
    <3>3. recorded' \in [Issues -> 0..MaxAttempts]
      <4>1. ASSUME NEW i \in Issues, run[i] = "live" PROVE failures[i] + 1 \in 0..MaxAttempts
        <5>1. failures[i] \in 0..MaxAttempts
          BY DEF LedgerTypeOK
        <5>2. failures[i] < MaxAttempts
          BY <4>1 DEF RunsBelowCeiling
        <5> QED
          BY <5>1, <5>2
      <4> QED
        BY <3>2, <4>1
    <3> QED
      BY <3>1, <3>3
  <2>3. CASE UNCHANGED vars
    BY <2>3 DEF vars, LedgerTypeOK, RunsBelowCeiling, Running, SessionsTypeOK
  <2> QED
    BY <1>7, <2>1, <2>2, <2>3
<1>8. QED
  BY <1>1, <1>2, <1>3, <1>4, <1>5, <1>6, <1>7 DEF Next, Task

\* A helper's return gives up the issue in hand.
LEMMA BackTypes ==
  ASSUME TaskTypeOK, cur \in Issues, Back
  PROVE  TaskTypeOK' /\ OneInHand'
<1>1. Unseen \in Snapshots
  BY DEF Unseen, Snapshots
<1>2. seen' \in [Issues -> Snapshots]
  BY <1>1 DEF TaskTypeOK, Back
<1>3. pc' \in Callers /\ cur' = 0 /\ from' = "idle"
  BY DEF TaskTypeOK, Back
<1>4. cur' \in 0..N
  BY <1>3, OrchestratorAssumption DEF OrchestratorAssumption
<1>5. OneInHand'
  BY <1>3 DEF OneInHand, InHand, Callers
<1>6. QED
  BY <1>2, <1>3, <1>4, <1>5 DEF TaskTypeOK, Back, Places, Callers

\* A helper moves between places that have an issue in hand, the loops between
\* places that have none.
LEMMA GotoTypes ==
  ASSUME TaskTypeOK, OneInHand, NEW place \in Places,
         place \in InHand <=> pc \in InHand, Goto(place)
  PROVE  TaskTypeOK' /\ OneInHand'
<1>1. OneInHand'
  BY DEF OneInHand, Goto
<1>2. QED
  BY <1>1 DEF TaskTypeOK, Goto

\* A loop that calls a helper gives it one issue.
LEMMA CallTypes ==
  ASSUME TaskTypeOK, pc \in Callers, NEW place \in InHand, NEW i \in Issues, Call(place, i)
  PROVE  TaskTypeOK' /\ OneInHand'
<1>1. cur' \in 0..N
  BY OrchestratorAssumption DEF OrchestratorAssumption, Call, Issues
<1>2. OneInHand'
  BY DEF OneInHand, Call
<1>3. QED
  BY <1>1, <1>2 DEF TaskTypeOK, Call, InHand, Places

\* The end of a tick leaves the task idle, with nothing in hand.
LEMMA EndTickTypes ==
  ASSUME TaskTypeOK, OneInHand, pc \notin InHand, EndTick
  PROVE  TaskTypeOK' /\ OneInHand'
<1>1. seen' \in [Issues -> Snapshots]
  BY DEF EndTick, Unseen, Snapshots
<1>2. ticks' \in 0..SweepEvery - 1
  BY OrchestratorAssumption DEF OrchestratorAssumption, TaskTypeOK, EndTick
<1>3. OneInHand'
  BY DEF OneInHand, EndTick, InHand
<1>4. QED
  BY <1>1, <1>2, <1>3 DEF TaskTypeOK, EndTick, Places

\* What a poll or a sweep reads of the board.
LEMMA ReadTypes ==
  ASSUME GithubTypeOK, NEW S \in SUBSET Issues
  PROVE  [i \in Issues |-> IF i \in S THEN Board[i] ELSE Unseen] \in [Issues -> Snapshots]
<1>1. Unseen \in Snapshots
  BY DEF Unseen, Snapshots
<1>2. ASSUME NEW i \in Issues PROVE Board[i] \in Snapshots
  BY DEF Board, Snapshots, GithubTypeOK
<1>3. QED
  BY <1>1, <1>2

\* The task is somewhere the code has, with an issue in hand exactly there
\* where a helper works on one.
LEMMA TaskTypes == IInv /\ [Next]_vars => TaskTypeOK' /\ OneInHand'
<1> SUFFICES ASSUME IInv, [Next]_vars PROVE TaskTypeOK' /\ OneInHand'
  OBVIOUS
<1> USE DEF IInv, TypeOK
<1>1. CASE Reconcile
  <2>1. CASE StartTick
    BY <2>1 DEF StartTick, Looping, Goto, AfterReconcile, TaskTypeOK, OneInHand, InHand, Places
  <2>2. CASE RefreshFails \/ Refresh
    BY <2>2 DEF RefreshFails, Refresh, Goto, AfterReconcile, TaskTypeOK, OneInHand, InHand, Places
  <2>3. CASE SweepFails
    BY <2>3 DEF SweepFails, Goto, TaskTypeOK, OneInHand, InHand, Places
  <2>4. CASE Sweep
    <3>1. work' \subseteq Issues
      BY <2>4 DEF Sweep, Unswept
    <3>2. seen' \in [Issues -> Snapshots]
      BY <2>4, <3>1, ReadTypes DEF Sweep
    <3> QED
      BY <2>4, <3>1, <3>2 DEF Sweep, TaskTypeOK, OneInHand, InHand, Places
  <2>5. CASE SweepDone
    <3>1. seen' \in [Issues -> Snapshots]
      BY <2>5 DEF SweepDone, Unseen, Snapshots
    <3> QED
      BY <2>5, <3>1 DEF SweepDone, TaskTypeOK, OneInHand, InHand, Places
  <2>6. CASE \E i \in Issues : SweepNext(i)
    BY <2>6, CallTypes DEF SweepNext, Callers, InHand
  <2> QED
    BY <1>1, <2>1, <2>2, <2>3, <2>4, <2>5, <2>6 DEF Reconcile
<1>2. CASE Poll
  <2>1. CASE SettleHolds
    <3>1. CASE EndTick
      BY <2>1, <3>1, EndTickTypes DEF SettleHolds, InHand
    <3>2. CASE /\ pc' = "fetch" /\ dispatching' \in BOOLEAN
               /\ UNCHANGED <<from, cur, work, seen, ticks>>
      BY <2>1, <3>2 DEF SettleHolds, TaskTypeOK, OneInHand, InHand, Places
    <3> QED
      BY <2>1, <3>1, <3>2 DEF SettleHolds
  <2>2. CASE FetchFails
    BY <2>2, EndTickTypes DEF FetchFails, InHand
  <2>3. CASE Fetch
    <3>1. work' \subseteq Issues
      BY <2>3 DEF Fetch
    <3>2. seen' \in [Issues -> Snapshots]
      BY <2>3, <3>1, ReadTypes DEF Fetch
    <3> QED
      BY <2>3, <3>1, <3>2 DEF Fetch, TaskTypeOK, OneInHand, InHand, Places
  <2>4. CASE BounceDone
    <3>1. CASE dispatching
      BY <2>4, <3>1 DEF BounceDone, TaskTypeOK, OneInHand, InHand, Places
    <3>2. CASE ~dispatching
      BY <2>4, <3>2, EndTickTypes DEF BounceDone, InHand
    <3> QED
      BY <3>1, <3>2
  <2>5. CASE ReadParents \/ ReadParentsFails
    <3>1. PICK held, found : HoldBack(held, found)
      BY <2>5 DEF ReadParents, ReadParentsFails
    <3>2. ASSUME NEW i \in Issues
          PROVE  [label |-> seen[i].label, gh |-> seen[i].gh,
                  conflict |-> seen[i].conflict, held |-> i \in held] \in Snapshots
      BY DEF TaskTypeOK, Snapshots
    <3>3. seen' \in [Issues -> Snapshots]
      BY <3>1, <3>2 DEF HoldBack
    <3> QED
      BY <3>1, <3>3 DEF HoldBack, TaskTypeOK, OneInHand, InHand, Places
  <2>6. CASE \E i \in Issues : Bounce(i) \/ BounceFails(i)
    BY <2>6 DEF Bounce, BounceFails, TaskTypeOK, OneInHand, InHand, Places
  <2> QED
    BY <1>2, <2>1, <2>2, <2>3, <2>4, <2>5, <2>6 DEF Poll
<1>3. CASE Dispatch
  <2>1. CASE DispatchNext
    <3>1. PICK i \in work :
            \/ EndTick
            \/ work' = work \ {i} /\ UNCHANGED <<pc, from, cur, seen, dispatching, ticks>>
            \/ Call("budgetRead", i)
            \/ Call(DispatchPlace(i), i)
      BY <2>1 DEF DispatchNext
    <3>2. i \in Issues /\ pc = "dispatch"
      BY <2>1, <3>1 DEF DispatchNext, TaskTypeOK
    <3>3. DispatchPlace(i) \in InHand /\ "budgetRead" \in InHand
      BY DEF DispatchPlace, InHand
    <3>4. CASE EndTick
      BY <3>2, <3>4, EndTickTypes DEF InHand
    <3>5. CASE work' = work \ {i} /\ UNCHANGED <<pc, from, cur, seen, dispatching, ticks>>
      BY <3>5 DEF TaskTypeOK, OneInHand
    <3>6. CASE Call("budgetRead", i) \/ Call(DispatchPlace(i), i)
      BY <3>2, <3>3, <3>6, CallTypes DEF Callers
    <3> QED
      BY <3>1, <3>4, <3>5, <3>6
  <2>2. CASE DispatchDone
    BY <2>2, EndTickTypes DEF DispatchDone, InHand
  <2>3. CASE HandBack \/ HandBackFails \/ Claim \/ ClaimFails
    BY <2>3, BackTypes DEF HandBack, HandBackFails, Claim, ClaimFails, OneInHand, InHand
  <2>4. CASE \E answer \in Approvals : Assess(answer)
    <3>1. pc = "assess" /\ (Back \/ Goto("unapprove") \/ Goto("claim"))
      BY <2>4 DEF Assess
    <3>2. cur \in Issues
      BY <3>1 DEF OneInHand, InHand
    <3> QED
      BY <3>1, <3>2, BackTypes, GotoTypes DEF InHand, Places
  <2> QED
    BY <1>3, <2>1, <2>2, <2>3, <2>4 DEF Dispatch
<1>4. CASE Escape
  <2>1. pc \in InHand
    BY <1>4 DEF Escape, EscapeFails, EscapeRead, EscapeWrite, BudgetFails, BudgetRead,
                BudgetWrite, Finish, FinishFails, InHand
  <2>2. Back \/ Goto("escapeWrite") \/ Goto("budgetWrite")
    BY <1>4 DEF Escape, EscapeFails, OweEscape, EscapeRead, EscapeWrite, BudgetFails,
                BudgetRead, BudgetWrite, Finish, FinishFails
  <2>3. cur \in Issues
    BY <2>1 DEF OneInHand
  <2> QED
    BY <2>1, <2>2, <2>3, BackTypes, GotoTypes DEF InHand, Places
<1>5. CASE Between \/ ShutDown
  <2>1. CASE FireFails \/ Fire
    <3>1. pc = "fire" /\ cur \in Issues
      BY <2>1 DEF FireFails, Fire, OneInHand, InHand
    <3>2. CASE Back
      BY <3>1, <3>2, BackTypes
    <3>3. CASE Goto("finish") \/ Goto("budgetRead")
      BY <3>1, <3>3, GotoTypes DEF InHand, Places
    <3>4. CASE /\ seen' = [seen EXCEPT ![cur] = Board[cur]]
               /\ pc' = DispatchPlace(cur)
               /\ UNCHANGED <<from, cur, work, dispatching, ticks>>
      <4>1. Board[cur] \in Snapshots
        BY <3>1 DEF Board, Snapshots, GithubTypeOK
      <4>2. seen' \in [Issues -> Snapshots]
        BY <3>1, <3>4, <4>1 DEF TaskTypeOK
      <4>3. pc' \in InHand /\ pc' \in Places
        BY <3>4 DEF DispatchPlace, InHand, Places
      <4> QED
        BY <3>1, <3>4, <4>2, <4>3 DEF TaskTypeOK, OneInHand
    <3> QED
      BY <2>1, <3>2, <3>3, <3>4 DEF FireFails, Fire, Requeue
  <2>2. CASE \E i \in Issues : HandleExit(i)
    <3>1. PICK i \in Issues : HandleExit(i)
      BY <2>2
    <3>2. pc \in Callers
      BY <3>1 DEF HandleExit, Looping, Callers
    <3>3. Call("finish", i) \/ Call("escapeRead", i) \/ UNCHANGED task
      BY <3>1 DEF HandleExit, AfterExit, Schedule, task, Call
    <3> QED
      BY <3>2, <3>3, CallTypes DEF InHand, task, TaskTypeOK, OneInHand
  <2>3. CASE \E i \in Issues : FireRetry(i)
    <3>1. PICK i \in Issues : FireRetry(i)
      BY <2>3
    <3>2. pc = "idle" /\ (Call("escapeRead", i) \/ Call("fire", i) \/ Goto("idle"))
      BY <3>1 DEF FireRetry, Looping
    <3> QED
      BY <3>2, CallTypes, GotoTypes DEF InHand, Callers, Places
  <2>4. CASE ShutDown
    BY <2>4 DEF ShutDown, Shutdown, Kill, Down, Goto, task, TaskTypeOK, OneInHand, InHand, Places
  <2> QED
    BY <1>5, <2>1, <2>2, <2>3, <2>4 DEF Between
<1>6. CASE \E i \in Issues : Session(i) \/ Human(i)
  BY <1>6 DEF Session, Human, AgentReview, SessionEnds, HumanLabel, HumanClose, HumanReopen,
              PullRequestMoves, Touch, task, TaskTypeOK, OneInHand
<1>7. CASE RequestStop
  BY <1>7 DEF RequestStop, task, TaskTypeOK, OneInHand
<1>8. CASE Restart
  <2>1. /\ pc' = "idle" /\ from' = "idle" /\ cur' = 0 /\ work' = {}
        /\ seen' = [i \in Issues |-> Unseen] /\ dispatching' = FALSE /\ ticks' = 0
    BY <1>8 DEF Restart
  <2>2. seen' \in [Issues -> Snapshots]
    BY <2>1 DEF Unseen, Snapshots
  <2>3. cur' \in 0..N /\ ticks' \in 0..SweepEvery - 1
    BY <2>1, OrchestratorAssumption DEF OrchestratorAssumption
  <2>4. work' \subseteq Issues
    BY <2>1
  <2> QED
    BY <2>1, <2>2, <2>3, <2>4 DEF TaskTypeOK, OneInHand, InHand, Places, Callers
<1>9. CASE UNCHANGED vars
  BY <1>9 DEF vars, task, TaskTypeOK, OneInHand
<1>10. QED
  BY <1>1, <1>2, <1>3, <1>4, <1>5, <1>6, <1>7, <1>8, <1>9 DEF Next, Task
-----------------------------------------------------------------------------
(* The steps of the argument: a step either starts a run, or ends one, or    *)
(* replaces the process, or is steady.                                       *)

\* No run starts or ends, a retry is only taken out or put back by the task
\* that holds its issue, an issue is only taken in hand when nothing else has
\* it, and a running issue's chain does not grow.
Steady ==
    \A i \in Issues :
        /\ run'[i] = "idle" <=> run[i] = "idle"
        /\ retry'[i] # "none" => retry[i] # "none" \/ (run[i] = "idle" /\ cur' # i)
        /\ cur' = i => cur = i \/ (run[i] = "idle" /\ retry'[i] = "none")
        /\ run[i] # "idle" => failures'[i] \in {failures[i], 0}

\* There are finitely many sessions.
LEMMA RunningFinite == IsFiniteSet(Running)
<1>1. IsFiniteSet(Issues)
  BY FS_Interval, OrchestratorAssumption DEF OrchestratorAssumption, Issues
<1>2. QED
  BY <1>1, FS_Subset DEF Running

\* A steady step keeps who holds what.
LEMMA SteadyHolds ==
  ASSUME IInv, Steady
  PROVE  ExclusiveHold' /\ RunsBelowCeiling' /\ SlotsRespected' /\ Running' = Running
<1> USE DEF IInv, Steady
<1>1. ASSUME NEW i \in Issues
      PROVE  /\ run'[i] # "idle" => retry'[i] = "none"
             /\ cur' = i => run'[i] = "idle" /\ retry'[i] = "none"
  <2>1. /\ run[i] # "idle" => retry[i] = "none"
        /\ cur = i => run[i] = "idle" /\ retry[i] = "none"
    BY DEF ExclusiveHold
  <2>2. run'[i] = "idle" <=> run[i] = "idle"
    OBVIOUS
  <2>3. retry'[i] # "none" => retry[i] # "none" \/ (run[i] = "idle" /\ cur' # i)
    OBVIOUS
  <2>4. cur' = i => cur = i \/ (run[i] = "idle" /\ retry'[i] = "none")
    OBVIOUS
  <2> QED
    BY <2>1, <2>2, <2>3, <2>4
<1>2. RunsBelowCeiling'
  BY BudgetAssumption DEF BudgetAssumption, RunsBelowCeiling
<1>3. Running' = Running
  BY DEF Running
<1>4. QED
  BY <1>1, <1>2, <1>3 DEF SlotsRespected, ExclusiveHold

\* A claimed run may start: the slot the gate counted is still free.
LEMMA StartHolds ==
  ASSUME IInv, pc \in Claiming, StartRun(cur), cur' = 0
  PROVE  ExclusiveHold' /\ RunsBelowCeiling' /\ SlotsRespected'
<1> USE DEF IInv
<1>1. /\ cur \in Issues
      /\ run' = [run EXCEPT ![cur] = "live"]
      /\ retry' = [retry EXCEPT ![cur] = "none"]
      /\ UNCHANGED failures
  BY DEF OneInHand, Claiming, InHand, StartRun
<1>2. run \in [Issues -> {"idle", "live", "exited"}] /\ retry \in [Issues -> {"none", "run", "escape"}]
  BY DEF TypeOK, SessionsTypeOK
<1>3. ExclusiveHold'
  BY <1>1, <1>2 DEF ExclusiveHold, Issues
<1>4. RunsBelowCeiling'
  BY <1>1, <1>2 DEF RunsBelowCeiling, ClaimsFit
<1>5. Running' = Running \cup {cur}
  BY <1>1, <1>2 DEF Running
<1>6. /\ Cardinality(Running) \in Nat
      /\ Cardinality(Running) < MaxAgents
  BY RunningFinite, FS_CardinalityType DEF ClaimsFit
<1>7. Cardinality(Running') \in {Cardinality(Running), Cardinality(Running) + 1}
  <2>1. Cardinality(Running \cup {cur})
          = IF cur \in Running THEN Cardinality(Running) ELSE Cardinality(Running) + 1
    BY RunningFinite, FS_AddElement
  <2> QED
    BY <1>5, <2>1
<1>8. SlotsRespected'
  BY <1>6, <1>7, OrchestratorAssumption DEF OrchestratorAssumption, SlotsRespected, ClaimsFit
<1>9. QED
  BY <1>3, <1>4, <1>8

\* A session that ended gives its slot up, and its issue to the task, to a
\* retry or to nobody.
LEMMA EndHolds ==
  ASSUME IInv, NEW i \in Issues, HandleExit(i)
  PROVE  ExclusiveHold' /\ RunsBelowCeiling' /\ SlotsRespected'
<1> USE DEF IInv
<1>1. run[i] = "exited" /\ run' = [run EXCEPT ![i] = "idle"] /\ pc \notin InHand
  BY DEF HandleExit, Looping, InHand
<1>2. run \in [Issues -> {"idle", "live", "exited"}] /\ retry \in [Issues -> {"none", "run", "escape"}]
      /\ failures \in [Issues -> 0..MaxAttempts]
  BY DEF TypeOK, SessionsTypeOK, LedgerTypeOK
<1>3. \/ cur' = i /\ UNCHANGED retry
      \/ cur' = cur /\ UNCHANGED retry
      \/ cur' = cur /\ retry' = [retry EXCEPT ![i] = "run"]
  BY DEF HandleExit, AfterExit, Call, Schedule, task
<1>4. cur = 0
  BY <1>1 DEF OneInHand
<1>5. ASSUME NEW j \in Issues
      PROVE  /\ run'[j] # "idle" => retry'[j] = "none"
             /\ cur' = j => run'[j] = "idle" /\ retry'[j] = "none"
  <2>1. run[j] # "idle" => retry[j] = "none"
    BY DEF ExclusiveHold
  <2>2. i # 0 /\ j # 0
    BY DEF Issues
  <2>3. CASE j = i
    <3>1. run'[j] = "idle"
      BY <1>1, <1>2, <2>3
    <3>2. cur' = j => UNCHANGED retry
      BY <1>3, <1>4, <2>2
    <3> QED
      BY <1>1, <2>1, <2>3, <3>1, <3>2
  <2>4. CASE j # i
    BY <1>1, <1>2, <1>3, <1>4, <2>1, <2>2, <2>4
  <2> QED
    BY <2>3, <2>4
<1>6. \E n : failures' = [failures EXCEPT ![i] = n]
  <2>1. UNCHANGED failures \/ \E n : failures' = [failures EXCEPT ![i] = n]
    BY DEF HandleExit, AfterExit
  <2>2. failures = [failures EXCEPT ![i] = failures[i]]
    BY <1>2
  <2> QED
    BY <2>1, <2>2
<1>7. RunsBelowCeiling'
  BY <1>1, <1>2, <1>6 DEF RunsBelowCeiling
<1>8. Running' \subseteq Running
  BY <1>1, <1>2 DEF Running
<1>9. Cardinality(Running') <= Cardinality(Running)
  BY <1>8, RunningFinite, FS_Subset
<1>10. Cardinality(Running') \in Nat /\ Cardinality(Running) \in Nat
  BY <1>8, RunningFinite, FS_Subset, FS_CardinalityType
<1>11. SlotsRespected'
  BY <1>9, <1>10, OrchestratorAssumption DEF OrchestratorAssumption, SlotsRespected
<1>12. QED
  BY <1>5, <1>7, <1>11 DEF ExclusiveHold

\* A new process holds nothing.
LEMMA RestartHolds ==
  ASSUME IInv, Restart
  PROVE  ExclusiveHold' /\ RunsBelowCeiling' /\ SlotsRespected'
<1>1. /\ run' = [i \in Issues |-> "idle"]
      /\ retry' = [i \in Issues |-> "none"]
      /\ cur' = 0
  BY DEF Restart
<1>2. Running' = {}
  BY <1>1 DEF Running
<1>3. Cardinality(Running') = 0
  BY <1>2, FS_EmptySet
<1>4. SlotsRespected'
  BY <1>3, OrchestratorAssumption DEF OrchestratorAssumption, SlotsRespected
<1>5. QED
  BY <1>1, <1>4 DEF ExclusiveHold, RunsBelowCeiling

\* An admitted claim has a slot, both budgets and no hold.
LEMMA Gate ==
  ASSUME LedgerTypeOK, NEW i \in Issues, NEW state \in StateLabels \cup {"none"},
         NEW order, NEW busy, Admit(Request(i, state, order, busy)) = "admitted"
  PROVE  /\ Cardinality(Running) < MaxAgents
         /\ failures[i] < MaxAttempts
         /\ ~OverCost(cost[i])
         /\ ~HoldNow
<1> DEFINE req == Request(i, state, order, busy)
<1>1. /\ req.hold = HoldNow /\ req.slots = Slots /\ req.state = state /\ req.kind = "work"
      /\ req.failures = failures[i] /\ req.cost = cost[i]
  BY DEF Request
<1>2. req.state # "unread"
  BY <1>1 DEF StateLabels
<1>3. ~req.hold /\ ~(req.slots <= 0) /\ ~(req.failures >= MaxAttempts) /\ ~OverCost(req.cost)
  BY <1>1, <1>2 DEF Admit
<1>4. Cardinality(Running) < MaxAgents
  <2>1. ~(Slots <= 0)
    BY <1>1, <1>3
  <2> QED
    BY <2>1 DEF Slots
<1>5. failures[i] < MaxAttempts
  <2>1. ~(failures[i] >= MaxAttempts)
    BY <1>1, <1>3
  <2>2. failures[i] \in Int /\ MaxAttempts \in Int
    BY BudgetAssumption DEF BudgetAssumption, LedgerTypeOK
  <2> QED
    BY <2>1, <2>2
<1>6. ~OverCost(cost[i]) /\ ~HoldNow
  BY <1>1, <1>3
<1>7. QED
  BY <1>4, <1>5, <1>6

\* Nothing busy gets as far as the budget, let alone through the gate.
LEMMA GateFree ==
  ASSUME NEW i \in Issues, NEW state, NEW order, NEW busy,
         Admit(Request(i, state, order, busy)) \in BudgetRefusals \cup {"admitted"}
  PROVE  ~busy
<1> DEFINE req == Request(i, state, order, busy)
<1>1. req.busy = busy
  BY DEF Request
<1>2. ~req.busy
  BY DEF Admit, BudgetRefusals
<1>3. QED
  BY <1>1, <1>2


\* Every step is steady but the start of a claimed run, an exit and a restart.
LEMMA StepKinds ==
  ASSUME IInv, [Next]_vars
  PROVE  \/ Steady
         \/ pc \in Claiming /\ StartRun(cur) /\ cur' = 0
         \/ \E i \in Issues : HandleExit(i)
         \/ Restart
<1> USE DEF IInv, TypeOK, sessions, ledger, task
<1>1. CASE Reconcile
  <2>1. CASE \E i \in Issues : SweepNext(i)
    <3>1. PICK i \in Issues : SweepNext(i)
      BY <2>1
    <3>2. /\ run[i] = "idle" /\ cur' = i
          /\ retry' = [retry EXCEPT ![i] = "none"]
          /\ UNCHANGED <<run, failures>>
      BY <3>1 DEF SweepNext, Call, Running
    <3> QED
      BY <3>2 DEF Steady, SessionsTypeOK
  <2>2. CASE StartTick \/ RefreshFails \/ Refresh \/ SweepFails \/ Sweep \/ SweepDone
    <3>1. UNCHANGED <<run, retry, failures, cur>>
      BY <2>2 DEF StartTick, RefreshFails, Refresh, SweepFails, Sweep, SweepDone, Goto
    <3> QED
      BY <3>1 DEF Steady
  <2> QED
    BY <1>1, <2>1, <2>2 DEF Reconcile
<1>2. CASE Poll
  <2>1. UNCHANGED <<run, retry, failures, cur>>
    BY <1>2 DEF Poll, SettleHolds, FetchFails, Fetch, BounceDone, ReadParents, ReadParentsFails,
                HoldBack, Bounce, BounceFails, EndTick
  <2> QED
    BY <2>1 DEF Steady
<1>3. CASE Dispatch
  <2>1. CASE DispatchNext
    <3>1. PICK i \in work :
            \/ cur' = cur /\ UNCHANGED ledger
            \/ /\ Admit(Request(i, StateOf(seen[i]), seen[i].held, Busy(i)))
                    \in BudgetRefusals \cup {"admitted"}
               /\ cur' = i /\ (UNCHANGED ledger \/ Observe(i))
      BY <2>1 DEF DispatchNext, EndTick, Call
    <3>2. i \in Issues /\ UNCHANGED <<run, retry>>
      BY <2>1 DEF DispatchNext, TaskTypeOK
    <3>3. CASE cur' = cur /\ UNCHANGED ledger
      BY <3>2, <3>3 DEF Steady
    <3>4. CASE /\ Admit(Request(i, StateOf(seen[i]), seen[i].held, Busy(i)))
                    \in BudgetRefusals \cup {"admitted"}
               /\ cur' = i /\ (UNCHANGED ledger \/ Observe(i))
      <4>1. ~Busy(i)
        BY <3>2, <3>4, GateFree
      <4>2. UNCHANGED failures \/ failures' = [failures EXCEPT ![i] = Floor(i)]
        BY <3>4 DEF Observe
      <4> QED
        BY <3>2, <3>4, <4>1, <4>2 DEF Steady, Busy, LedgerTypeOK
    <3> QED
      BY <3>1, <3>3, <3>4
  <2>2. CASE HandBack
    <3>1. /\ cur' = 0 /\ UNCHANGED <<run, retry>>
          /\ failures' = [failures EXCEPT ![cur] = 0]
      BY <2>2 DEF HandBack, Back, RecordEscape
    <3>2. \A i \in Issues : i # 0
      BY DEF Issues
    <3> QED
      BY <3>1, <3>2 DEF Steady, LedgerTypeOK
  <2>3. CASE DispatchDone \/ HandBackFails \/ ClaimFails
    <3>1. /\ cur' \in {cur, 0} /\ UNCHANGED <<run, retry, failures>>
      BY <2>3 DEF DispatchDone, HandBackFails, ClaimFails, Back, EndTick
    <3>2. \A i \in Issues : i # 0
      BY DEF Issues
    <3> QED
      BY <3>1, <3>2 DEF Steady
  <2>4. CASE Claim
    BY <2>4 DEF Claim, Back, Claiming
  <2>5. CASE \E answer \in Approvals : Assess(answer)
    <3>1. \/ pc \in Claiming /\ StartRun(cur) /\ cur' = 0
          \/ cur' \in {cur, 0} /\ UNCHANGED <<run, retry, failures>>
      BY <2>5 DEF Assess, Back, Goto, Claiming
    <3>2. \A i \in Issues : i # 0
      BY DEF Issues
    <3> QED
      BY <3>1, <3>2 DEF Steady
  <2> QED
    BY <1>3, <2>1, <2>2, <2>3, <2>4, <2>5 DEF Dispatch
<1>4. CASE Escape
  <2>1. cur \in Issues /\ run[cur] = "idle"
    BY <1>4 DEF Escape, EscapeFails, EscapeRead, EscapeWrite, BudgetFails, BudgetRead,
                BudgetWrite, Finish, FinishFails, OneInHand, InHand, ExclusiveHold
  <2>2. cur' \in {cur, 0} /\ UNCHANGED run
    BY <1>4 DEF Escape, EscapeFails, OweEscape, EscapeRead, EscapeWrite, BudgetFails, BudgetRead,
                BudgetWrite, Finish, FinishFails, Back, Goto
  <2>3. UNCHANGED retry \/ (retry' = [retry EXCEPT ![cur] = "escape"] /\ cur' = 0)
    BY <1>4 DEF Escape, EscapeFails, OweEscape, EscapeRead, EscapeWrite, BudgetFails, BudgetRead,
                BudgetWrite, Finish, FinishFails, Back
  <2>4. UNCHANGED failures \/ failures' = [failures EXCEPT ![cur] = 0]
    BY <1>4 DEF Escape, EscapeFails, OweEscape, EscapeRead, EscapeWrite, BudgetFails, BudgetRead,
                BudgetWrite, Finish, FinishFails, RecordEscape, Forget
  <2>5. \A i \in Issues : i # 0
    BY DEF Issues
  <2> QED
    BY <2>1, <2>2, <2>3, <2>4, <2>5 DEF Steady, SessionsTypeOK, LedgerTypeOK
<1>5. CASE FireFails \/ Fire
  <2>1. cur \in Issues /\ run[cur] = "idle"
    BY <1>5 DEF FireFails, Fire, OneInHand, InHand, ExclusiveHold
  <2>2. cur' \in {cur, 0} /\ UNCHANGED <<run, failures>>
    BY <1>5 DEF FireFails, Fire, Requeue, Back, Goto
  <2>3. UNCHANGED retry \/ (retry' = [retry EXCEPT ![cur] = "run"] /\ cur' = 0)
    BY <1>5 DEF FireFails, Fire, Requeue, Back
  <2>4. \A i \in Issues : i # 0
    BY DEF Issues
  <2> QED
    BY <2>1, <2>2, <2>3, <2>4 DEF Steady, SessionsTypeOK
<1>6. CASE \E i \in Issues : FireRetry(i)
  <2>1. PICK i \in Issues : FireRetry(i)
    BY <1>6
  <2>2. run[i] = "idle"
    BY <2>1 DEF FireRetry, ExclusiveHold
  <2>3. /\ cur' \in {cur, i} /\ UNCHANGED <<run, failures>>
        /\ retry' = [retry EXCEPT ![i] = "none"]
    BY <2>1 DEF FireRetry, Call, Goto
  <2> QED
    BY <2>2, <2>3 DEF Steady, SessionsTypeOK
<1>7. CASE ShutDown
  <2>1. /\ \A i \in Issues : run'[i] = "idle" <=> run[i] = "idle"
        /\ UNCHANGED <<cur, failures>>
        /\ \A i \in Issues : retry'[i] \in {retry[i], "none"}
    BY <1>7 DEF ShutDown, Shutdown, Kill, Down, Goto
  <2> QED
    BY <2>1 DEF Steady
<1>8. CASE (\E i \in Issues : Session(i) \/ Human(i)) \/ RequestStop \/ UNCHANGED vars
  <2>1. /\ \A i \in Issues : run'[i] = "idle" <=> run[i] = "idle"
        /\ UNCHANGED <<cur, failures, retry>>
    BY <1>8 DEF Session, Human, AgentReview, SessionEnds, HumanLabel, HumanClose, HumanReopen,
                PullRequestMoves, Touch, RequestStop, vars, SessionsTypeOK
  <2> QED
    BY <2>1 DEF Steady
<1>9. QED
  BY <1>1, <1>2, <1>3, <1>4, <1>5, <1>6, <1>7, <1>8 DEF Next, Task, Between

\* A claim that is under way still fits: nothing the task awaits in it starts
\* a session, charges an issue or raises a hold.
LEMMA ClaimsFitNext ==
  ASSUME IInv, [Next]_vars
  PROVE  ClaimsFit'
<1> USE DEF IInv, TypeOK, sessions, ledger, worker, task
<1> SUFFICES ASSUME pc' \in Claiming
             PROVE  /\ Cardinality(Running') < MaxAgents
                    /\ failures'[cur'] < MaxAttempts
                    /\ ~OverCost(cost'[cur'])
                    /\ ~HoldNow'
  BY DEF ClaimsFit
<1>1. CASE DispatchNext
  <2>1. PICK i \in work :
          /\ Admit(Request(i, StateOf(seen[i]), seen[i].held, Busy(i))) = "admitted"
          /\ cur' = i /\ Observe(i)
    BY <1>1 DEF DispatchNext, EndTick, Call, Claiming
  <2>2. i \in Issues /\ StateOf(seen[i]) \in StateLabels \cup {"none"}
    BY DEF TaskTypeOK, Snapshots, StateOf
  <2>3. /\ Cardinality(Running) < MaxAgents
        /\ failures[i] < MaxAttempts
        /\ ~OverCost(cost[i])
        /\ ~HoldNow
    BY <2>1, <2>2, Gate
  <2>4. UNCHANGED <<run, cost, holds, fetchFailures>>
    BY <1>1, <2>1 DEF DispatchNext, Observe
  <2>5. Running' = Running /\ HoldNow' = HoldNow
    BY <2>4 DEF Running, HoldNow
  <2>6. failures'[i] < MaxAttempts
    <3>1. UNCHANGED failures \/ failures' = [failures EXCEPT ![i] = Floor(i)]
      BY <2>1 DEF Observe
    <3>2. Floor(i) < MaxAttempts
      BY <2>2, BudgetAssumption DEF BudgetAssumption, Floor, SeededChain, RestTypeOK
    <3> QED
      BY <2>2, <2>3, <3>1, <3>2 DEF LedgerTypeOK
  <2> QED
    BY <2>1, <2>3, <2>4, <2>5, <2>6 DEF OverCost
<1>2. CASE Fire
  <2>1. cur \in Issues /\ cur' = cur
    BY <1>2 DEF Fire, OneInHand, InHand, Requeue, Back, TaskTypeOK, Callers, Claiming, Goto
  <2>2. Admit(Request(cur, StateOf(Board[cur]), FALSE, Busy(cur))) = "admitted"
    BY <1>2 DEF Fire, Requeue, Back, TaskTypeOK, Callers, Claiming, Goto
  <2>3. StateOf(Board[cur]) \in StateLabels \cup {"none"}
    BY <2>1 DEF StateOf, Board, GithubTypeOK
  <2>4. /\ Cardinality(Running) < MaxAgents
        /\ failures[cur] < MaxAttempts
        /\ ~OverCost(cost[cur])
        /\ ~HoldNow
    BY <2>1, <2>2, <2>3, Gate
  <2>5. UNCHANGED <<run, failures, cost, holds, fetchFailures>>
    BY <1>2 DEF Fire
  <2>6. Running' = Running /\ HoldNow' = HoldNow
    BY <2>5 DEF Running, HoldNow
  <2> QED
    BY <2>1, <2>4, <2>5, <2>6
<1>3. CASE pc \in Claiming /\ cur' = cur /\ UNCHANGED <<failures, cost, holds, fetchFailures>>
           /\ (\A i \in Issues : run'[i] = "idle" <=> run[i] = "idle")
  <2>1. Running' = Running /\ HoldNow' = HoldNow
    BY <1>3 DEF Running, HoldNow
  <2> QED
    BY <1>3, <2>1 DEF ClaimsFit
<1>4. CASE Reconcile
  BY <1>4 DEF Reconcile, StartTick, RefreshFails, Refresh, SweepFails, Sweep, SweepDone, SweepNext,
              Goto, Call, AfterReconcile, Claiming
<1>5. CASE Poll
  BY <1>5 DEF Poll, SettleHolds, FetchFails, Fetch, BounceDone, ReadParents, ReadParentsFails,
              HoldBack, Bounce, BounceFails, EndTick, Claiming
<1>6. CASE DispatchDone \/ HandBack \/ HandBackFails \/ Claim \/ ClaimFails
  BY <1>6 DEF DispatchDone, HandBack, HandBackFails, Claim, ClaimFails, EndTick, Back,
              TaskTypeOK, Callers, Claiming
<1>7. CASE \E answer \in Approvals : Assess(answer)
  <2>1. pc = "assess" /\ ~Back /\ UNCHANGED <<run, failures, cost, holds, fetchFailures, cur>>
    BY <1>7 DEF Assess, Back, Goto, TaskTypeOK, Callers, Claiming
  <2> QED
    BY <1>3, <2>1 DEF Claiming
<1>8. CASE Escape
  BY <1>8 DEF Escape, EscapeFails, OweEscape, EscapeRead, EscapeWrite, BudgetFails, BudgetRead,
              BudgetWrite, Finish, FinishFails, Back, Goto, TaskTypeOK, Callers, Claiming
<1>9. CASE FireFails \/ (\E i \in Issues : HandleExit(i) \/ FireRetry(i)) \/ ShutDown \/ Restart
  <2>1. CASE FireFails
    BY <2>1 DEF FireFails, Requeue, Back, TaskTypeOK, Callers, Claiming
  <2>2. CASE \E i \in Issues : HandleExit(i)
    <3>1. pc \in {"idle", "draining"} /\ pc' \in {pc, "finish", "escapeRead"}
      BY <2>2 DEF HandleExit, AfterExit, Schedule, Looping, Call
    <3> QED
      BY <3>1 DEF Claiming
  <2>3. CASE \E i \in Issues : FireRetry(i)
    <3>1. pc' \in {"escapeRead", "fire", "idle"}
      BY <2>3 DEF FireRetry, Goto, Call
    <3> QED
      BY <3>1 DEF Claiming
  <2>4. CASE ShutDown \/ Restart
    BY <2>4 DEF ShutDown, Shutdown, Kill, Down, Restart, Goto, Claiming
  <2> QED
    BY <1>9, <2>1, <2>2, <2>3, <2>4
<1>10. CASE (\E i \in Issues : Session(i) \/ Human(i)) \/ RequestStop \/ UNCHANGED vars
  <2>1. /\ UNCHANGED <<pc, cur, failures, cost, holds, fetchFailures>>
        /\ \A i \in Issues : run'[i] = "idle" <=> run[i] = "idle"
    BY <1>10 DEF Session, Human, AgentReview, SessionEnds, HumanLabel, HumanClose, HumanReopen,
                 PullRequestMoves, Touch, RequestStop, vars, SessionsTypeOK
  <2> QED
    BY <1>3, <2>1
<1>11. QED
  BY <1>1, <1>2, <1>4, <1>5, <1>6, <1>7, <1>8, <1>9, <1>10
     DEF Next, Task, Dispatch, Between
-----------------------------------------------------------------------------
(* The theorems *)

\* A new worker on a fresh board satisfies the invariant.
LEMMA InitHolds == Init => IInv
<1> SUFFICES ASSUME Init PROVE IInv
  OBVIOUS
<1> USE BudgetAssumption, OrchestratorAssumption
    DEF BudgetAssumption, OrchestratorAssumption, Init
<1>1. GithubTypeOK
  BY DEF GithubTypeOK, StateLabels
<1>2. SessionsTypeOK
  BY DEF SessionsTypeOK, Results, Causes, Closings
<1>3. LedgerTypeOK
  BY DEF LedgerTypeOK
<1>4. WorkerTypeOK
  <2>1. holds \subseteq HoldKinds \cup {"auth", "usage"}
    OBVIOUS
  <2>2. fetchFailures \in 0..MaxFetchFailures
    OBVIOUS
  <2>3. stopping \in BOOLEAN
    OBVIOUS
  <2> QED
    BY <2>1, <2>2, <2>3 DEF WorkerTypeOK
<1>5. TaskTypeOK
  <2>1. Unseen \in Snapshots
    BY DEF Unseen, Snapshots
  <2>2. seen \in [Issues -> Snapshots]
    BY <2>1
  <2>3. cur \in 0..N /\ ticks \in 0..SweepEvery - 1
    OBVIOUS
  <2>4. pc \in Places /\ from \in Callers /\ work \subseteq Issues /\ dispatching \in BOOLEAN
    BY DEF Places, Callers
  <2> QED
    BY <2>2, <2>3, <2>4 DEF TaskTypeOK
<1>6. RestTypeOK
  BY DEF RestTypeOK
<1>7. OneInHand
  BY DEF OneInHand, InHand
<1>8. ExclusiveHold /\ RunsBelowCeiling
  BY DEF ExclusiveHold, RunsBelowCeiling, Issues
<1>9. ClaimsFit
  BY DEF ClaimsFit, Claiming
<1>10. SlotsRespected
  <2>1. Running = {}
    BY DEF Running
  <2>2. Cardinality(Running) = 0
    BY <2>1, FS_EmptySet
  <2> QED
    BY <2>2 DEF SlotsRespected
<1>11. QED
  BY <1>1, <1>2, <1>3, <1>4, <1>5, <1>6, <1>7, <1>8, <1>9, <1>10 DEF IInv, TypeOK

\* Every step of the worker, its sessions and the board preserves it.
LEMMA StepHolds == IInv /\ [Next]_vars => IInv'
<1> SUFFICES ASSUME IInv, [Next]_vars PROVE IInv'
  OBVIOUS
<1>1. TypeOK'
  BY GithubTypes, SessionsTypes, LedgerTypes, WorkerTypes, TaskTypes, RestTypes DEF TypeOK
<1>2. OneInHand'
  BY TaskTypes
<1>3. ClaimsFit'
  BY ClaimsFitNext
<1>4. ExclusiveHold' /\ RunsBelowCeiling' /\ SlotsRespected'
  <2>1. CASE Steady
    BY <2>1, SteadyHolds
  <2>2. CASE pc \in Claiming /\ StartRun(cur) /\ cur' = 0
    BY <2>2, StartHolds
  <2>3. CASE \E i \in Issues : HandleExit(i)
    BY <2>3, EndHolds
  <2>4. CASE Restart
    BY <2>4, RestartHolds
  <2> QED
    BY <2>1, <2>2, <2>3, <2>4, StepKinds
<1>5. QED
  BY <1>1, <1>2, <1>3, <1>4 DEF IInv

\* The inductive invariant holds of every behaviour of the worker.
THEOREM Invariance == Spec => []IInv
<1>1. QED
  BY InitHolds, StepHolds, PTL DEF Spec

\* Every variable of the worker keeps its type, the ledger's chain and spend
\* their bounds, whatever the board, the sessions and the crashes do.
THEOREM TypeCorrect == Spec => []TypeOK
<1>1. IInv => TypeOK
  BY DEF IInv
<1>2. QED
  BY <1>1, Invariance, PTL

\* No interleaving overbooks agent.max_concurrent_agents.
THEOREM SlotsAreRespected == Spec => []SlotsRespected
<1>1. IInv => SlotsRespected
  BY DEF IInv
<1>2. QED
  BY <1>1, Invariance, PTL

\* An issue is held by one of a session, a retry and the task.
THEOREM HoldIsExclusive == Spec => []ExclusiveHold
<1>1. IInv => ExclusiveHold
  BY DEF IInv
<1>2. QED
  BY <1>1, Invariance, PTL

\* A run that starts is the one the task was claiming, and the claim still fits.
LEMMA StartsAreClaims ==
  ASSUME IInv, [Next]_vars, NEW i \in Issues, Starts(i)
  PROVE  /\ pc \in Claiming /\ cur = i
         /\ failures[i] < MaxAttempts
         /\ ~OverCost(cost[i])
         /\ ~HoldNow
<1>1. run \in [Issues -> {"idle", "live", "exited"}]
  BY DEF IInv, TypeOK, SessionsTypeOK
<1>2. pc \in Claiming /\ cur = i
  <2>1. CASE Steady
    BY <2>1 DEF Steady, Starts
  <2>2. CASE pc \in Claiming /\ StartRun(cur)
    BY <1>1, <2>2 DEF StartRun, Starts
  <2>3. CASE \E j \in Issues : HandleExit(j)
    BY <1>1, <2>3 DEF HandleExit, Starts
  <2>4. CASE Restart
    BY <2>4 DEF Restart, Starts
  <2> QED
    BY <2>1, <2>2, <2>3, <2>4, StepKinds
<1>3. QED
  BY <1>2 DEF IInv, ClaimsFit

\* Through whichever door, a run starts on an issue below both ceilings (#112).
THEOREM RunsAreWithinBudget == Spec => RunsWithinBudget
<1>1. IInv /\ [Next]_vars
        => [\A i \in Issues : Starts(i) => failures[i] < MaxAttempts /\ ~OverCost(cost[i])]_vars
  BY StartsAreClaims
<1>2. QED
  BY <1>1, Invariance, PTL DEF Spec, RunsWithinBudget

\* No run starts under a hold, though the claim awaited after the gate.
THEOREM NoRunStartsUnderHold == Spec => NoRunUnderHold
<1>1. IInv /\ [Next]_vars => [\A i \in Issues : Starts(i) => ~HoldNow]_vars
  BY StartsAreClaims
<1>2. QED
  BY <1>1, Invariance, PTL DEF Spec, NoRunUnderHold

\* A bounce adds one label, and only below the limit.
LEMMA BouncesStayBounded == IInv /\ BouncesBounded /\ [Next]_vars => BouncesBounded'
<1> SUFFICES ASSUME IInv, BouncesBounded, [Next]_vars PROVE BouncesBounded'
  OBVIOUS
<1>1. CASE \E i \in Issues : Bounce(i)
  <2>1. PICK i \in Issues : Bounce(i)
    BY <1>1
  <2>2. \/ UNCHANGED bounces
        \/ /\ ~(bounces[i] >= ConflictLimit)
           /\ \/ UNCHANGED bounces
              \/ bounces' = [bounces EXCEPT ![i] = bounces[i] + 1]
    <3>1. bounces \in [Issues -> Nat]
      BY DEF IInv, TypeOK, GithubTypeOK
    <3> QED
      BY <2>1, <3>1 DEF Bounce, LimitReached, github
  <2>3. ASSUME NEW j \in Issues PROVE bounces'[j] <= ConflictLimit
    <3>1. bounces \in [Issues -> Nat] /\ ConflictLimit \in Nat /\ bounces[j] <= ConflictLimit
      BY OrchestratorAssumption
         DEF OrchestratorAssumption, IInv, TypeOK, GithubTypeOK, BouncesBounded
    <3> QED
      BY <2>2, <3>1
  <2> QED
    BY <2>3 DEF BouncesBounded
<1>2. CASE ~\E i \in Issues : Bounce(i)
  <2>1. UNCHANGED bounces
    <3>1. CASE Reconcile \/ Poll
      BY <1>2, <3>1
         DEF Reconcile, StartTick, RefreshFails, Refresh, SweepFails, Sweep, SweepDone, SweepNext,
             Poll, SettleHolds, FetchFails, Fetch, BounceDone, ReadParents, ReadParentsFails,
             HoldBack, BounceFails, github
    <3>2. CASE Dispatch
      BY <3>2 DEF Dispatch, DispatchNext, DispatchDone, HandBack, HandBackFails, Claim,
                  ClaimFails, Assess, Set, github
    <3>3. CASE Escape
      BY <3>3 DEF Escape, EscapeFails, OweEscape, EscapeRead, EscapeWrite, BudgetFails,
                  BudgetRead, BudgetWrite, Finish, FinishFails, Set, github
    <3>4. CASE Between \/ ShutDown
      BY <3>4 DEF Between, FireFails, Fire, HandleExit, FireRetry, ShutDown, Shutdown, Kill,
                  Down, github
    <3>5. CASE \E i \in Issues : Session(i) \/ Human(i)
      BY <3>5 DEF Session, Human, AgentReview, SessionEnds, HumanLabel, HumanClose, HumanReopen,
                  PullRequestMoves, Set, github
    <3>6. CASE RequestStop \/ Restart \/ UNCHANGED vars
      BY <3>6 DEF RequestStop, Restart, vars, github
    <3> QED
      BY <3>1, <3>2, <3>3, <3>4, <3>5, <3>6 DEF Next, Task
  <2> QED
    BY <2>1 DEF BouncesBounded
<1>3. QED
  BY <1>1, <1>2

\* The bounce spends at most agent.max_conflict_reworks labels on an issue, in
\* however many processes.
THEOREM BouncesAreBounded == Spec => []BouncesBounded
<1>1. Init => BouncesBounded
  BY OrchestratorAssumption DEF OrchestratorAssumption, Init, BouncesBounded
<1>2. QED
  BY <1>1, Invariance, BouncesStayBounded, PTL DEF Spec
-----------------------------------------------------------------------------
(* What a step does to the ledger *)

\* The issue's figures are at a ceiling: the gate refuses it for its budget.
Refusable(i) == failures[i] >= MaxAttempts \/ OverCost(cost[i])

\* Where the task is in the two escapes that mark what they hand over.
Escaping == {"escapeRead", "escapeWrite"}
Refusing == {"budgetRead", "budgetWrite"}

\* A blocked escape is owed to the issue, or under way.
Owed(i) == retry[i] = "escape" \/ (cur = i /\ pc \in Escaping)

\* The chain and the mark of whoever now has an issue handed to a human.
HandsOver == /\ cur \in Issues /\ run[cur] = "idle" /\ cur' = 0
             /\ RecordEscape(cur, escalated[cur])
             /\ UNCHANGED <<run, retry, announced, billed>>

\* A record from before this process is folded into an issue's chain.
Recalls(i) == /\ run[i] = "idle" /\ pc' \notin Escaping \cup Refusing
              /\ Observe(i)
              /\ UNCHANGED <<run, retry, announced, billed>>

\* Nothing is written to the ledger, no run starts or ends, an escape is
\* owed only to an issue that ran or was owed one, and the budget escape is
\* about an issue the budget refuses.
LedgerRests ==
    /\ UNCHANGED <<known, failures, cost, escalated, announced, billed>>
    /\ \A i \in Issues : /\ run'[i] = "idle" <=> run[i] = "idle"
                         /\ Owed(i)' => Owed(i)
    /\ pc' \in Refusing => (pc \in Refusing /\ cur' = cur) \/ Refusable(cur')

\* A refusal for the budget is a figure at its ceiling.
LEMMA GateRefuses ==
  ASSUME NEW i \in Issues, NEW state, NEW order, NEW busy,
         Admit(Request(i, state, order, busy)) \in BudgetRefusals
  PROVE  Refusable(i)
<1> DEFINE req == Request(i, state, order, busy)
<1>1. req.failures = failures[i] /\ req.cost = cost[i]
  BY DEF Request
<1>2. req.failures >= MaxAttempts \/ OverCost(req.cost)
  BY DEF Admit, BudgetRefusals
<1>3. QED
  BY <1>1, <1>2 DEF Refusable

\* What the gate admits was read with a label that asks for work.
LEMMA GateActive ==
  ASSUME NEW i \in Issues, NEW state \in StateLabels \cup {"none"}, NEW order, NEW busy,
         Admit(Request(i, state, order, busy)) = "admitted"
  PROVE  state \in ActiveStates
<1> DEFINE req == Request(i, state, order, busy)
<1>1. req.state = state /\ req.kind = "work"
  BY DEF Request
<1>2. req.state # "unread"
  BY <1>1 DEF StateLabels
<1>3. req.state \in ActiveStates
  BY <1>1, <1>2 DEF Admit
<1>4. QED
  BY <1>1, <1>3

\* An escape's steps: it goes on, it is owed again, or it is done and recorded.
LEMMA EscapeKinds ==
  ASSUME IInv, Escape
  PROVE  LedgerRests \/ HandsOver \/ BudgetWrite \/ Finish
<1> USE DEF IInv, TypeOK, sessions, ledger, task, disk, history
<1>1. cur \in Issues /\ run[cur] = "idle" /\ pc \in InHand /\ pc \notin Callers
  BY DEF Escape, EscapeFails, EscapeRead, EscapeWrite, BudgetFails, BudgetRead,
         BudgetWrite, Finish, FinishFails, OneInHand, InHand, ExclusiveHold, Callers
<1>2. \A i \in Issues : i # 0
  BY DEF Issues
<1>3. from \in Callers
  BY DEF TaskTypeOK
<1>4. CASE EscapeFails
  <2>1. /\ UNCHANGED <<run, known, failures, cost, escalated, announced, billed>>
        /\ cur' = 0 /\ pc' = from /\ pc \in Escaping
        /\ retry' = [retry EXCEPT ![cur] = "escape"]
    BY <1>4 DEF EscapeFails, OweEscape, Back, Escaping
  <2>2. pc' \notin Refusing
    BY <1>3, <2>1 DEF Callers, Refusing
  <2>3. ASSUME NEW i \in Issues, Owed(i)' PROVE Owed(i)
    BY <1>2, <2>1, <2>3 DEF Owed, SessionsTypeOK
  <2> QED
    BY <2>1, <2>2, <2>3 DEF LedgerRests
<1>5. CASE UNCHANGED <<run, retry, known, failures, cost, escalated, announced, billed>>
           /\ ((cur' = 0 /\ pc' = from) \/ (cur' = cur /\ pc \in Escaping /\ pc' \in Escaping)
               \/ (cur' = cur /\ pc \in Refusing /\ pc' \in Refusing))
  <2>1. pc' \in Refusing => pc \in Refusing /\ cur' = cur
    BY <1>3, <1>5 DEF Callers, Refusing, Escaping
  <2>2. ASSUME NEW i \in Issues, Owed(i)' PROVE Owed(i)
    BY <1>2, <1>3, <1>5, <2>2 DEF Owed, Refusing, Escaping, Callers
  <2> QED
    BY <1>5, <2>1, <2>2 DEF LedgerRests
<1>6. CASE BudgetFails \/ FinishFails
  BY <1>5, <1>6 DEF BudgetFails, FinishFails, Back
<1>7. CASE EscapeRead \/ EscapeWrite
  BY <1>1, <1>5, <1>7 DEF EscapeRead, EscapeWrite, Back, Goto, HandsOver, Escaping
<1>8. CASE BudgetRead
  BY <1>1, <1>5, <1>8 DEF BudgetRead, Back, Goto, HandsOver, Refusing
<1>9. QED
  BY <1>4, <1>6, <1>7, <1>8 DEF Escape

\* The candidate sweep: a candidate is passed over, refused, or taken in hand,
\* what its record says folded in.
LEMMA DispatchKinds ==
  ASSUME IInv, Dispatch
  PROVE  \/ LedgerRests \/ HandsOver
         \/ pc \in Claiming /\ StartRun(cur) /\ cur' = 0 /\ UNCHANGED billed
         \/ \E i \in Issues : Recalls(i)
<1> USE DEF IInv, TypeOK, sessions, ledger, task, disk, history
<1>1. \A i \in Issues : i # 0
  BY DEF Issues
<1>2. from \in Callers
  BY DEF TaskTypeOK
<1>3. CASE /\ UNCHANGED <<run, retry, known, failures, cost, escalated, announced, billed>>
           /\ pc' \notin Escaping \cup Refusing
  <2>1. ASSUME NEW i \in Issues, Owed(i)' PROVE Owed(i)
    BY <1>3, <2>1 DEF Owed
  <2> QED
    BY <1>3, <2>1 DEF LedgerRests
<1>4. CASE DispatchNext
  <2>1. PICK i \in work :
          LET verdict == Admit(Request(i, StateOf(seen[i]), seen[i].held, Busy(i)))
          IN  \/ EndTick /\ UNCHANGED ledger
              \/ /\ UNCHANGED ledger
                 /\ UNCHANGED <<pc, from, cur, seen, dispatching, ticks>>
              \/ verdict \in BudgetRefusals /\ Call("budgetRead", i) /\ UNCHANGED ledger
              \/ verdict = "admitted" /\ Call(DispatchPlace(i), i) /\ Observe(i)
    BY <1>4 DEF DispatchNext
  <2>2. i \in Issues /\ pc = "dispatch" /\ UNCHANGED <<run, retry, announced, billed>>
    BY <1>4 DEF DispatchNext, TaskTypeOK
  <2>3. CASE EndTick /\ UNCHANGED ledger
    BY <1>3, <2>2, <2>3 DEF EndTick, Escaping, Refusing
  <2>4. CASE UNCHANGED ledger /\ UNCHANGED <<pc, from, cur, seen, dispatching, ticks>>
    BY <1>3, <2>2, <2>4 DEF Escaping, Refusing
  <2>5. CASE /\ Admit(Request(i, StateOf(seen[i]), seen[i].held, Busy(i))) \in BudgetRefusals
             /\ Call("budgetRead", i) /\ UNCHANGED ledger
    <3>1. Refusable(i)
      BY <2>2, <2>5, GateRefuses
    <3>2. cur' = i /\ pc' = "budgetRead"
      BY <2>5 DEF Call
    <3>3. ASSUME NEW j \in Issues, Owed(j)' PROVE Owed(j)
      BY <2>2, <3>2, <3>3 DEF Owed, Escaping
    <3> QED
      BY <2>2, <2>5, <3>1, <3>2, <3>3 DEF LedgerRests
  <2>6. CASE /\ Admit(Request(i, StateOf(seen[i]), seen[i].held, Busy(i))) = "admitted"
             /\ Call(DispatchPlace(i), i) /\ Observe(i)
    <3>1. ~Busy(i)
      BY <2>2, <2>6, GateFree
    <3>2. pc' \notin Escaping \cup Refusing
      BY <2>6 DEF Call, DispatchPlace, Escaping, Refusing
    <3> QED
      BY <2>2, <2>6, <3>1, <3>2 DEF Recalls, Busy
  <2> QED
    BY <2>1, <2>3, <2>4, <2>5, <2>6
<1>5. CASE HandBack
  <2>1. cur \in Issues /\ run[cur] = "idle"
    BY <1>5 DEF HandBack, OneInHand, InHand, ExclusiveHold
  <2> QED
    BY <1>5, <2>1 DEF HandBack, HandsOver, Back
<1>6. CASE DispatchDone \/ HandBackFails \/ ClaimFails
  BY <1>2, <1>3, <1>6 DEF DispatchDone, HandBackFails, ClaimFails, EndTick, Back, Callers,
                          Escaping, Refusing
<1>7. CASE Claim
  BY <1>7 DEF Claim, Back, Claiming
<1>8. CASE \E answer \in Approvals : Assess(answer)
  <2>1. \/ pc \in Claiming /\ StartRun(cur) /\ cur' = 0 /\ UNCHANGED billed
        \/ /\ UNCHANGED <<run, retry, known, failures, cost, escalated, announced, billed>>
           /\ pc' \in {from, "unapprove", "claim"}
    BY <1>8 DEF Assess, Back, Goto, Claiming
  <2> QED
    BY <1>2, <1>3, <2>1 DEF Callers, Escaping, Refusing
<1>9. QED
  BY <1>4, <1>5, <1>6, <1>7, <1>8 DEF Dispatch

\* A retry that is fired is owed an escape no longer, or refreshed and asked
\* of the gate again.
LEMMA RetryKinds ==
  ASSUME IInv, FireFails \/ Fire \/ \E i \in Issues : FireRetry(i)
  PROVE  LedgerRests
<1> USE DEF IInv, TypeOK, sessions, ledger, task, disk, history
<1>1. \A i \in Issues : i # 0
  BY DEF Issues
<1>2. from \in Callers
  BY DEF TaskTypeOK
<1>3. UNCHANGED <<run, known, failures, cost, escalated, announced, billed>>
  BY DEF FireFails, Fire, FireRetry
<1>4. CASE FireFails \/ Fire
  <2>1. cur \in Issues /\ pc = "fire"
    BY <1>4 DEF FireFails, Fire, OneInHand, InHand
  <2>2. UNCHANGED retry \/ retry' = [retry EXCEPT ![cur] = "run"]
    BY <1>4 DEF FireFails, Fire, Requeue
  <2>3. \/ pc' \in {from, "finish"} \cup Claiming
        \/ /\ pc' = "budgetRead" /\ cur' = cur
           /\ Admit(Request(cur, StateOf(Board[cur]), FALSE, Busy(cur))) \in BudgetRefusals
    BY <1>4 DEF FireFails, Fire, Requeue, Back, Goto, DispatchPlace, Claiming
  <2>4. pc' \in Refusing => Refusable(cur')
    BY <1>2, <2>1, <2>3, GateRefuses DEF Callers, Claiming, Refusing, Refusable
  <2>5. pc' \notin Escaping
    BY <1>2, <2>3 DEF Callers, Claiming, Escaping
  <2>6. ASSUME NEW i \in Issues, Owed(i)' PROVE Owed(i)
    BY <2>2, <2>5, <2>6 DEF Owed, SessionsTypeOK
  <2> QED
    BY <1>3, <2>4, <2>6 DEF LedgerRests
<1>5. CASE \E i \in Issues : FireRetry(i)
  <2>1. PICK i \in Issues : FireRetry(i)
    BY <1>5
  <2>2. retry' = [retry EXCEPT ![i] = "none"]
    BY <2>1 DEF FireRetry
  <2>3. \/ retry[i] = "escape" /\ pc' = "escapeRead" /\ cur' = i
        \/ pc' \in {"fire", "idle"}
    BY <2>1 DEF FireRetry, Call, Goto
  <2>4. ASSUME NEW j \in Issues, Owed(j)' PROVE Owed(j)
    BY <2>2, <2>3, <2>4 DEF Owed, Escaping, SessionsTypeOK
  <2>5. pc' \notin Refusing
    BY <2>3 DEF Refusing
  <2> QED
    BY <1>3, <2>4, <2>5 DEF LedgerRests
<1>6. QED
  BY <1>4, <1>5

\* Every step by what it does to the ledger.
LEMMA LedgerKinds ==
  ASSUME IInv, [Next]_vars
  PROVE  \/ LedgerRests
         \/ HandsOver
         \/ pc \in Claiming /\ StartRun(cur) /\ cur' = 0 /\ UNCHANGED billed
         \/ \E i \in Issues : Recalls(i)
         \/ \E i \in Issues : HandleExit(i)
         \/ BudgetWrite
         \/ Finish
         \/ Restart
<1> USE DEF IInv, TypeOK, sessions, ledger, task, disk, history
<1>1. CASE \/ /\ UNCHANGED <<known, failures, cost, escalated, announced, billed>>
              /\ \A i \in Issues : /\ run'[i] = "idle" <=> run[i] = "idle"
                                   /\ retry'[i] \in {retry[i], "none"}
              /\ pc' \notin Escaping \cup Refusing \/ UNCHANGED <<pc, cur>>
  <2>1. ASSUME NEW i \in Issues, Owed(i)' PROVE Owed(i)
    BY <1>1, <2>1 DEF Owed
  <2> QED
    BY <1>1, <2>1 DEF LedgerRests
<1>2. CASE Reconcile
  <2>1. /\ UNCHANGED <<run, known, failures, cost, escalated, announced, billed>>
        /\ \A i \in Issues : retry'[i] \in {retry[i], "none"}
    BY <1>2 DEF Reconcile, StartTick, RefreshFails, Refresh, SweepFails, Sweep, SweepDone, SweepNext,
                SessionsTypeOK
  <2>2. pc' \in {"refresh", "sweep", "holds", "sweeping", "finish"}
    BY <1>2 DEF Reconcile, StartTick, RefreshFails, Refresh, SweepFails, Sweep, SweepDone, SweepNext,
                Goto, Call, AfterReconcile
  <2> QED
    BY <1>1, <2>1, <2>2 DEF Escaping, Refusing
<1>3. CASE Poll
  <2>1. UNCHANGED <<run, retry, known, failures, cost, escalated, announced, billed>>
    BY <1>3 DEF Poll, SettleHolds, FetchFails, Fetch, BounceDone, ReadParents, ReadParentsFails,
                HoldBack, Bounce, BounceFails
  <2>2. pc' \in {"idle", "fetch", "bounce", "dispatch", "parents"}
    BY <1>3 DEF Poll, SettleHolds, FetchFails, Fetch, BounceDone, ReadParents, ReadParentsFails,
                HoldBack, Bounce, BounceFails, EndTick
  <2> QED
    BY <1>1, <2>1, <2>2 DEF Escaping, Refusing
<1>4. CASE ShutDown
  <2>1. /\ UNCHANGED <<known, failures, cost, escalated, announced, billed>>
        /\ \A i \in Issues : /\ run'[i] = "idle" <=> run[i] = "idle"
                             /\ retry'[i] \in {retry[i], "none"}
        /\ pc' \in {"draining", "down"}
    BY <1>4 DEF ShutDown, Shutdown, Kill, Down, Goto
  <2> QED
    BY <1>1, <2>1 DEF Escaping, Refusing
<1>5. CASE (\E i \in Issues : Session(i) \/ Human(i)) \/ RequestStop \/ UNCHANGED vars
  <2>1. /\ UNCHANGED <<known, failures, cost, escalated, announced, billed, retry, pc, cur>>
        /\ \A i \in Issues : run'[i] = "idle" <=> run[i] = "idle"
    BY <1>5 DEF Session, Human, AgentReview, SessionEnds, HumanLabel, HumanClose, HumanReopen,
                PullRequestMoves, Touch, RequestStop, vars, SessionsTypeOK
  <2> QED
    BY <1>1, <2>1
<1>6. QED
  BY <1>2, <1>3, <1>4, <1>5, DispatchKinds, EscapeKinds, RetryKinds DEF Next, Task, Between
-----------------------------------------------------------------------------
(* One announcement for one escalation *)

\* The ledger has an entry for every issue that runs, has figures, or is owed
\* an escape, so what an escape marks it marks.
OwedIsKnown == \A i \in Issues :
    (run[i] # "idle" \/ Owed(i) \/ failures[i] > 0 \/ cost[i] > 0) => known[i]

\* The budget escape is about an issue the budget still refuses.
RefusedInHand == pc \in Refusing => Refusable(cur)

\* An issue announced once is not running, and before the budget refuses it
\* again its entry says that it was announced.
MarkHolds == \A i \in Issues :
    announced[i] # 0 => /\ announced[i] = 1
                        /\ run[i] = "idle"
                        /\ escalated[i] \/ ~Refusable(i)

MarkInv == OwedIsKnown /\ RefusedInHand /\ MarkHolds

\* An issue at a ceiling has figures, so the ledger knows it.
LEMMA RefusableIsKnown ==
  ASSUME LedgerTypeOK, OwedIsKnown, NEW i \in Issues, Refusable(i)
  PROVE  known[i]
<1>1. failures[i] \in Nat /\ cost[i] \in Nat
  BY DEF LedgerTypeOK
<1>2. failures[i] > 0 \/ cost[i] > 0
  BY <1>1, BudgetAssumption DEF BudgetAssumption, Refusable, OverCost
<1>3. QED
  BY <1>2 DEF OwedIsKnown

\* A step that leaves the ledger alone.
LEMMA MarkRests ==
  ASSUME IInv, MarkInv, LedgerRests
  PROVE  MarkInv'
<1> USE DEF MarkInv, LedgerRests
<1>1. OwedIsKnown'
  BY DEF OwedIsKnown
<1>2. RefusedInHand'
  BY DEF RefusedInHand, Refusable
<1>3. MarkHolds'
  BY DEF MarkHolds, Refusable
<1>4. QED
  BY <1>1, <1>2, <1>3

\* The task never returns from a helper into one.
LEMMA ReturnsToLoop ==
  ASSUME IInv, [Next]_vars, cur' = 0
  PROVE  pc' \notin InHand /\ pc' \notin Escaping \cup Refusing
<1>1. OneInHand'
  BY TaskTypes
<1>2. 0 \notin Issues
  BY DEF Issues
<1>3. Issues' = Issues
  BY DEF Issues
<1>4. QED
  BY <1>1, <1>2, <1>3 DEF OneInHand, InHand, Escaping, Refusing

\* The start of a run: a new entry, announced to nobody.
LEMMA MarkStarts ==
  ASSUME IInv, MarkInv, [Next]_vars, pc \in Claiming, StartRun(cur), cur' = 0
  PROVE  MarkInv'
<1> USE DEF MarkInv
<1>1. pc' \notin Escaping \cup Refusing
  BY ReturnsToLoop
<1>2. cur \in Issues
  BY DEF IInv, OneInHand, InHand, Claiming
<1>3. /\ run \in [Issues -> {"idle", "live", "exited"}]
      /\ retry \in [Issues -> {"none", "run", "escape"}]
      /\ known \in [Issues -> BOOLEAN] /\ announced \in [Issues -> 0..2]
      /\ escalated \in [Issues -> BOOLEAN]
  BY DEF IInv, TypeOK, SessionsTypeOK, LedgerTypeOK, RestTypeOK
<1>4. \A i \in Issues \ {cur} : /\ run'[i] = run[i] /\ retry'[i] = retry[i] /\ known'[i] = known[i]
                               /\ announced'[i] = announced[i] /\ escalated'[i] = escalated[i]
  BY <1>3 DEF StartRun
<1>5. known'[cur] = TRUE /\ announced'[cur] = 0
  BY <1>2, <1>3 DEF StartRun
<1>6. UNCHANGED <<failures, cost>>
  BY DEF StartRun
<1>7. OwedIsKnown'
  BY <1>1, <1>4, <1>5, <1>6 DEF OwedIsKnown, Owed
<1>8. RefusedInHand'
  BY <1>1 DEF RefusedInHand
<1>9. MarkHolds'
  BY <1>4, <1>5, <1>6 DEF MarkHolds, Refusable
<1>10. QED
  BY <1>7, <1>8, <1>9

\* A hand-over ends the chain and keeps the mark.
LEMMA MarkHandsOver ==
  ASSUME IInv, MarkInv, [Next]_vars, HandsOver
  PROVE  MarkInv'
<1> USE DEF MarkInv
<1>1. pc' \notin Escaping \cup Refusing
  BY ReturnsToLoop DEF HandsOver
<1>2. failures \in [Issues -> 0..MaxAttempts] /\ escalated \in [Issues -> BOOLEAN]
  BY DEF IInv, TypeOK, LedgerTypeOK
<1>3. /\ cur \in Issues
      /\ failures' = [failures EXCEPT ![cur] = 0]
      /\ escalated' = [escalated EXCEPT ![cur] = escalated[cur]]
      /\ UNCHANGED <<run, retry, known, cost, announced>>
  BY DEF HandsOver, RecordEscape
<1>4. UNCHANGED escalated
  BY <1>2, <1>3
<1>5. \A i \in Issues : failures'[i] \in {failures[i], 0}
  BY <1>2, <1>3
<1>6. OwedIsKnown'
  BY <1>1, <1>3, <1>5 DEF OwedIsKnown, Owed
<1>7. RefusedInHand'
  BY <1>1 DEF RefusedInHand
<1>8. ASSUME NEW i \in Issues, ~Refusable(i) PROVE ~Refusable(i)'
  BY <1>3, <1>5, <1>8, BudgetAssumption DEF BudgetAssumption, Refusable
<1>9. MarkHolds'
  BY <1>3, <1>4, <1>8 DEF MarkHolds
<1>10. QED
  BY <1>6, <1>7, <1>9

\* A recalled chain makes an entry, and stays below the ceiling.
LEMMA MarkRecalls ==
  ASSUME IInv, MarkInv, [Next]_vars, NEW i \in Issues, Recalls(i)
  PROVE  MarkInv'
<1> USE DEF MarkInv
<1>1. pc' \notin Escaping \cup Refusing /\ UNCHANGED <<run, retry, announced>>
  BY DEF Recalls
<1>2. CASE UNCHANGED ledger
  BY <1>1, <1>2 DEF ledger, OwedIsKnown, Owed, RefusedInHand, MarkHolds, Refusable
<1>3. CASE /\ failures' = [failures EXCEPT ![i] = Floor(i)]
           /\ known' = [known EXCEPT ![i] = TRUE]
           /\ UNCHANGED <<cost, escalated, escaped>>
  <2>1. failures \in [Issues -> 0..MaxAttempts] /\ known \in [Issues -> BOOLEAN]
    BY DEF IInv, TypeOK, LedgerTypeOK
  <2>2. ~(Floor(i) >= MaxAttempts)
    BY BudgetAssumption DEF BudgetAssumption, Floor, SeededChain, IInv, TypeOK, RestTypeOK
  <2>3. OwedIsKnown'
    BY <1>1, <1>3, <2>1 DEF OwedIsKnown, Owed
  <2>4. RefusedInHand'
    BY <1>1 DEF RefusedInHand
  <2>5. ASSUME NEW j \in Issues, ~Refusable(j) PROVE ~Refusable(j)'
    BY <1>3, <2>1, <2>2, <2>5 DEF Refusable
  <2>6. MarkHolds'
    BY <1>1, <1>3, <2>5 DEF MarkHolds
  <2> QED
    BY <2>3, <2>4, <2>6
<1>4. QED
  BY <1>2, <1>3 DEF Recalls, Observe

\* A run that ends is charged in the entry it has, and was not announced.
LEMMA MarkEnds ==
  ASSUME IInv, MarkInv, [Next]_vars, NEW i \in Issues, HandleExit(i)
  PROVE  MarkInv'
<1> USE DEF MarkInv
<1>1. /\ run[i] = "exited" /\ run' = [run EXCEPT ![i] = "idle"]
      /\ UNCHANGED <<known, escalated, announced>>
  BY DEF HandleExit, history
<1>2. cur = 0 /\ pc \notin InHand
  BY <1>1 DEF HandleExit, Looping, InHand, IInv, OneInHand
<1>3. known[i] /\ announced[i] = 0
  BY <1>1 DEF OwedIsKnown, MarkHolds
<1>4. /\ run \in [Issues -> {"idle", "live", "exited"}]
      /\ retry \in [Issues -> {"none", "run", "escape"}]
      /\ failures \in [Issues -> 0..MaxAttempts] /\ cost \in [Issues -> 0..CostCap]
  BY DEF IInv, TypeOK, SessionsTypeOK, LedgerTypeOK
<1>5. \A j \in Issues \ {i} : failures'[j] = failures[j]
  BY <1>4 DEF HandleExit, AfterExit
<1>6. \A j \in Issues \ {i} : cost'[j] = cost[j]
  BY <1>4 DEF HandleExit
<1>7. \A j \in Issues \ {i} : retry'[j] = retry[j]
  BY <1>4 DEF HandleExit, AfterExit, Schedule
<1>8. \/ cur' = i /\ pc' \in {"finish", "escapeRead"}
      \/ UNCHANGED <<cur, pc>>
  BY DEF HandleExit, AfterExit, Schedule, Call, task
<1>9. ASSUME NEW j \in Issues \ {i} PROVE Owed(j)' => Owed(j)
  BY <1>7, <1>8 DEF Owed
<1>10. OwedIsKnown'
  BY <1>1, <1>3, <1>4, <1>5, <1>6, <1>9 DEF OwedIsKnown
<1>11. RefusedInHand'
  BY <1>2, <1>8 DEF RefusedInHand, Refusing, InHand
<1>12. MarkHolds'
  BY <1>1, <1>3, <1>4, <1>5, <1>6 DEF MarkHolds, Refusable
<1>13. QED
  BY <1>10, <1>11, <1>12

\* The budget escape announces an issue not announced yet, and marks it.
LEMMA MarkBudget ==
  ASSUME IInv, MarkInv, [Next]_vars, BudgetWrite
  PROVE  MarkInv'
<1> USE DEF MarkInv
<1>1. cur \in Issues /\ run[cur] = "idle" /\ pc = "budgetWrite"
  BY DEF BudgetWrite, IInv, OneInHand, InHand, ExclusiveHold
<1>2. Refusable(cur)
  BY <1>1 DEF RefusedInHand, Refusing
<1>3. known[cur]
  BY <1>1, <1>2, RefusableIsKnown DEF IInv, TypeOK
<1>4. cur' = 0 /\ pc' \notin Escaping \cup Refusing
  BY ReturnsToLoop DEF BudgetWrite, Back
<1>5. /\ failures \in [Issues -> 0..MaxAttempts] /\ escalated \in [Issues -> BOOLEAN]
      /\ announced \in [Issues -> 0..2]
  BY DEF IInv, TypeOK, LedgerTypeOK, RestTypeOK
<1>6. /\ failures' = [failures EXCEPT ![cur] = 0]
      /\ escalated' = [escalated EXCEPT ![cur] = known[cur]]
      /\ UNCHANGED <<run, retry, known, cost>>
  BY DEF BudgetWrite, RecordEscape, sessions
<1>7. announced' = [announced EXCEPT ![cur] =
                      IF escalated[cur] \/ announced[cur] = 2
                      THEN announced[cur] ELSE announced[cur] + 1]
  BY <1>1, <1>5 DEF BudgetWrite
<1>8. announced'[cur] \in {0, 1} /\ escalated'[cur]
  <2>1. announced[cur] \in 0..2 /\ (announced[cur] # 0 => announced[cur] = 1 /\ escalated[cur])
    BY <1>1, <1>2, <1>5 DEF MarkHolds
  <2> QED
    BY <1>1, <1>3, <1>5, <1>6, <1>7, <2>1
<1>9. \A i \in Issues : failures'[i] \in {failures[i], 0}
  BY <1>5, <1>6
<1>10. OwedIsKnown'
  BY <1>4, <1>6, <1>9 DEF OwedIsKnown, Owed
<1>11. RefusedInHand'
  BY <1>4 DEF RefusedInHand
<1>12. ASSUME NEW i \in Issues, announced'[i] # 0
       PROVE  announced'[i] = 1 /\ run'[i] = "idle" /\ (escalated'[i] \/ ~Refusable(i)')
  <2>1. CASE i = cur
    BY <1>1, <1>6, <1>8, <1>12, <2>1
  <2>2. CASE i # cur
    <3>1. announced'[i] = announced[i] /\ escalated'[i] = escalated[i] /\ failures'[i] = failures[i]
      BY <1>5, <1>6, <1>7, <2>2
    <3> QED
      BY <1>6, <1>12, <3>1 DEF MarkHolds, Refusable
  <2> QED
    BY <2>1, <2>2
<1>13. MarkHolds'
  BY <1>12 DEF MarkHolds
<1>14. QED
  BY <1>10, <1>11, <1>13

\* A close-out forgets the entry with its figures.
LEMMA MarkFinishes ==
  ASSUME IInv, MarkInv, [Next]_vars, Finish
  PROVE  MarkInv'
<1> USE DEF MarkInv
<1>1. cur \in Issues /\ run[cur] = "idle" /\ retry[cur] = "none"
  BY DEF Finish, IInv, OneInHand, InHand, ExclusiveHold
<1>2. cur' = 0 /\ pc' \notin Escaping \cup Refusing
  BY ReturnsToLoop DEF Finish, Back
<1>3. /\ failures \in [Issues -> 0..MaxAttempts] /\ cost \in [Issues -> 0..CostCap]
      /\ known \in [Issues -> BOOLEAN] /\ escalated \in [Issues -> BOOLEAN]
  BY DEF IInv, TypeOK, LedgerTypeOK
<1>4. UNCHANGED <<run, retry, announced>>
  BY DEF Finish, history
<1>5. failures'[cur] = 0 /\ cost'[cur] = 0
  BY <1>1, <1>3 DEF Finish, Forget
<1>6. \A i \in Issues \ {cur} : /\ failures'[i] = failures[i] /\ cost'[i] = cost[i]
                               /\ known'[i] = known[i] /\ escalated'[i] = escalated[i]
  BY <1>3 DEF Finish, Forget
<1>7. OwedIsKnown'
  BY <1>1, <1>2, <1>4, <1>5, <1>6 DEF OwedIsKnown, Owed
<1>8. RefusedInHand'
  BY <1>2 DEF RefusedInHand
<1>9. ~(failures'[cur] >= MaxAttempts \/ OverCost(cost'[cur]))
  BY <1>5, BudgetAssumption DEF BudgetAssumption, OverCost
<1>10. MarkHolds'
  BY <1>4, <1>6, <1>9 DEF MarkHolds, Refusable
<1>11. QED
  BY <1>7, <1>8, <1>10

\* A new process knows what it is seeded with, and has announced nothing.
LEMMA MarkRestarts ==
  ASSUME IInv, MarkInv, Restart
  PROVE  MarkInv'
<1> USE DEF MarkInv
<1>1. /\ run' = [i \in Issues |-> "idle"] /\ retry' = [i \in Issues |-> "none"]
      /\ announced' = [i \in Issues |-> 0] /\ pc' = "idle"
  BY DEF Restart
<1>2. PICK seeds \in SUBSET {i \in Issues : Store /\ logged[i]},
           chain \in [Issues -> 0..MaxAttempts + 1] :
         /\ \A i \in Issues \ seeds : chain[i] = 0
         /\ known' = [i \in Issues |-> i \in seeds]
         /\ failures' = [i \in Issues |-> SeededChain(chain[i])]
         /\ cost' = [i \in Issues |-> IF i \in seeds THEN billed[i] ELSE 0]
  BY Zenon DEF Restart
<1>3. SeededChain(0) = 0
  BY BudgetAssumption DEF BudgetAssumption, SeededChain
<1>4. \A i \in Issues : known'[i] \/ (failures'[i] = 0 /\ cost'[i] = 0)
  BY <1>2, <1>3
<1>5. OwedIsKnown'
  BY <1>1, <1>4 DEF OwedIsKnown, Owed, Escaping
<1>6. RefusedInHand'
  BY <1>1 DEF RefusedInHand, Refusing
<1>7. MarkHolds'
  BY <1>1 DEF MarkHolds
<1>8. QED
  BY <1>5, <1>6, <1>7

\* Every step keeps the marks.
LEMMA MarkStep == IInv /\ MarkInv /\ [Next]_vars => MarkInv'
<1> SUFFICES ASSUME IInv, MarkInv, [Next]_vars PROVE MarkInv'
  OBVIOUS
<1>1. QED
  BY LedgerKinds, MarkRests, MarkStarts, MarkHandsOver, MarkRecalls, MarkEnds, MarkBudget,
     MarkFinishes, MarkRestarts

\* A new worker has announced nothing and knows no issue.
LEMMA MarkInit == Init => MarkInv
<1> SUFFICES ASSUME Init PROVE MarkInv
  OBVIOUS
<1>1. OwedIsKnown
  BY DEF Init, OwedIsKnown, Owed, Escaping
<1>2. RefusedInHand /\ MarkHolds
  BY DEF Init, RefusedInHand, MarkHolds, Refusing
<1>3. QED
  BY <1>1, <1>2 DEF MarkInv

\* The marks are kept by every behaviour of the worker.
THEOREM MarksKept == Spec => []MarkInv
<1>1. QED
  BY Invariance, MarkInit, MarkStep, PTL DEF Spec

\* One escalation is one Blocked event, however often a human or the bounce
\* returns the issue for the gate to refuse again.
THEOREM AnnouncedAtMostOnce == Spec => []AnnouncedOnce
<1>1. IInv /\ MarkInv => AnnouncedOnce
  <2> SUFFICES ASSUME IInv, MarkInv, NEW i \in Issues PROVE announced[i] <= 1
    BY DEF AnnouncedOnce
  <2>1. announced[i] \in {0, 1}
    BY DEF MarkInv, MarkHolds
  <2> QED
    BY <2>1
<1>2. QED
  BY <1>1, Invariance, MarksKept, PTL
-----------------------------------------------------------------------------
(* What is handed to a human stays handed over *)

\* An issue handed over and not touched since rests: no label that asks for
\* work, the mark the bounce reads where its label is the bounce's, and what
\* the task last read of it no older than that.
Rests(i) == /\ label[i] \in {"none", "complete", "review"}
            /\ label[i] = "review" => escaped[i]
            /\ seen[i].label \in {"none", label[i]}
            /\ run[i] = "idle"

\* The task claims no issue that is handed over, and finishes one only into a
\* label that asks for nothing.
ClaimsUnhanded == pc \in Claiming => ~handed[cur]
FinishRests == (pc = "finish" /\ handed[cur])
                 => terminal[cur] \in {"complete", "cancelled"} \/ label[cur] = "complete"

HandInv == (\A i \in Issues : handed[i] => Rests(i)) /\ ClaimsUnhanded /\ FinishRests

\* A step that hands nothing over, and leaves alone what is handed over.
HandsRest ==
    /\ \A i \in Issues : handed'[i] =>
         /\ handed[i] /\ label'[i] = label[i]
         /\ escaped[i] => escaped'[i]
         /\ seen'[i].label \in {seen[i].label, "none", label[i]}
         /\ run'[i] = "idle"
    /\ pc' \in Claiming => (pc \in Claiming /\ cur' = cur) \/ ~handed[cur']
    /\ pc' = "finish" =>
         \/ pc = "finish" /\ cur' = cur /\ UNCHANGED terminal
         \/ ~handed[cur'] \/ label[cur'] = "complete"
         \/ terminal'[cur'] \in {"complete", "cancelled"}

\* Such a step keeps the invariant.
LEMMA RestingIsKept ==
  ASSUME IInv, HandInv, [Next]_vars, HandsRest
  PROVE  HandInv'
<1> USE DEF HandInv, HandsRest
<1>1. ASSUME NEW i \in Issues, handed'[i] PROVE Rests(i)'
  BY <1>1 DEF Rests
<1>2. pc' \in InHand => cur' \in Issues
  BY TaskTypes DEF OneInHand, Issues
<1>3. ClaimsUnhanded'
  BY <1>2 DEF ClaimsUnhanded, Claiming, InHand
<1>4. FinishRests'
  BY <1>2 DEF FinishRests, InHand
<1>5. QED
  BY <1>1, <1>3, <1>4

\* What the task reads, it reads as it is.
LEMMA SeenLabels ==
  /\ Unseen.label = "none"
  /\ \A i \in Issues : Board[i].label = label[i]
BY DEF Unseen, Board

\* The refresh and the closed-issue sweep.
LEMMA HandReconcile ==
  ASSUME IInv, HandInv, Reconcile
  PROVE  HandsRest
<1> USE DEF IInv, TypeOK, sessions, ledger, task, disk, history, github, worker
<1>1. /\ UNCHANGED <<label, escaped, handed, run>>
      /\ pc' \notin Claiming
  BY DEF Reconcile, StartTick, RefreshFails, Refresh, SweepFails, Sweep, SweepDone, SweepNext,
         Goto, Call, AfterReconcile, Claiming
<1>2. \A i \in Issues : handed[i] => run[i] = "idle"
  BY DEF HandInv, Rests
<1>3. CASE \E i \in Issues : SweepNext(i)
  <2>1. PICK i \in Issues : SweepNext(i)
    BY <1>3
  <2>2. cur' = i /\ UNCHANGED seen /\ terminal'[i] = Closing(seen[i])
    BY <2>1 DEF SweepNext, Call, SessionsTypeOK
  <2>3. handed[i] => Closing(seen[i]) \in {"complete", "cancelled"} \/ label[i] = "complete"
    BY DEF HandInv, Rests, Closing
  <2> QED
    BY <1>1, <1>2, <2>2, <2>3 DEF HandsRest
<1>4. CASE StartTick \/ RefreshFails \/ Refresh \/ SweepFails \/ Sweep \/ SweepDone
  <2>1. pc' # "finish"
    BY <1>4 DEF StartTick, RefreshFails, Refresh, SweepFails, Sweep, SweepDone, Goto, AfterReconcile
  <2>2. \A i \in Issues : seen'[i] \in {seen[i], Unseen, Board[i]}
    BY <1>4 DEF StartTick, RefreshFails, Refresh, SweepFails, Sweep, SweepDone, Goto
  <2>3. \A i \in Issues : seen'[i].label \in {seen[i].label, "none", label[i]}
    BY <2>2, SeenLabels
  <2> QED
    BY <1>1, <1>2, <2>1, <2>3 DEF HandsRest
<1>5. QED
  BY <1>3, <1>4 DEF Reconcile

\* The poll: the bounce passes over what the ledger marks as escaped.
LEMMA HandPoll ==
  ASSUME IInv, HandInv, Poll
  PROVE  HandsRest
<1> USE DEF IInv, TypeOK, sessions, ledger, task, disk, history, github, worker
<1>1. UNCHANGED <<escaped, handed, run>>
  BY DEF Poll, SettleHolds, FetchFails, Fetch, BounceDone, ReadParents, ReadParentsFails,
         HoldBack, Bounce, BounceFails
<1>2. pc' \notin Claiming /\ pc' # "finish"
  BY DEF Poll, SettleHolds, FetchFails, Fetch, BounceDone, ReadParents, ReadParentsFails,
         HoldBack, Bounce, BounceFails, EndTick, Claiming
<1>3. \A i \in Issues : handed[i] => run[i] = "idle"
  BY DEF HandInv, Rests
<1>4. CASE \E i \in Issues : Bounce(i)
  <2>1. PICK i \in Issues : Bounce(i)
    BY <1>4
  <2>2. ~escaped[i] /\ seen[i].label = "review"
    BY <2>1 DEF Bounce, Bounceable
  <2>3. ~handed[i]
    BY <2>2 DEF HandInv, Rests
  <2>4. UNCHANGED label \/ label' = [label EXCEPT ![i] = "rework"]
    BY <2>1 DEF Bounce
  <2>5. \A j \in Issues \ {i} : label'[j] = label[j]
    BY <2>4 DEF GithubTypeOK
  <2>6. UNCHANGED seen
    BY <2>1 DEF Bounce
  <2> QED
    BY <1>1, <1>2, <1>3, <2>3, <2>5, <2>6 DEF HandsRest
<1>5. CASE SettleHolds \/ FetchFails \/ Fetch \/ BounceDone \/ \E i \in Issues : BounceFails(i)
  <2>1. UNCHANGED label
    BY <1>5 DEF SettleHolds, FetchFails, Fetch, BounceDone, BounceFails
  <2>2. \A i \in Issues : seen'[i] \in {seen[i], Unseen, Board[i]}
    BY <1>5 DEF SettleHolds, FetchFails, Fetch, BounceDone, BounceFails, EndTick
  <2>3. \A i \in Issues : seen'[i].label \in {seen[i].label, "none", label[i]}
    BY <2>2, SeenLabels
  <2> QED
    BY <1>1, <1>2, <1>3, <2>1, <2>3 DEF HandsRest
<1>6. CASE ReadParents \/ ReadParentsFails
  <2>1. UNCHANGED label /\ \A i \in Issues : seen'[i].label = seen[i].label
    BY <1>6 DEF ReadParents, ReadParentsFails, HoldBack
  <2> QED
    BY <1>1, <1>2, <1>3, <2>1 DEF HandsRest
<1>7. QED
  BY <1>4, <1>5, <1>6 DEF Poll

\* A helper's return, and a helper's next step, about an issue it leaves as it is.
LEMMA HandLeaves ==
  ASSUME IInv, HandInv, UNCHANGED <<label, handed>>,
         \A i \in Issues : handed[i] => run'[i] = "idle",
         \A i \in Issues : handed[i] => (escaped[i] => escaped'[i]),
         Back \/ (UNCHANGED <<cur, seen>> /\ (pc' \in Claiming => pc \in Claiming) /\ pc' # "finish")
  PROVE  HandsRest
<1>1. \A i \in Issues : seen'[i] \in {seen[i], Unseen}
  BY DEF IInv, TypeOK, TaskTypeOK, Back
<1>2. \A i \in Issues : seen'[i].label \in {seen[i].label, "none"}
  BY <1>1, SeenLabels
<1>3. Back => pc' \notin Claiming /\ pc' # "finish"
  BY DEF IInv, TypeOK, TaskTypeOK, Callers, Back, Claiming
<1>4. QED
  BY <1>2, <1>3 DEF HandsRest

\* The start of a run is on an issue that is not handed over.
LEMMA HandStarts ==
  ASSUME IInv, HandInv, pc \in Claiming, StartRun(cur), Back,
         UNCHANGED label \/ label' = [label EXCEPT ![cur] = "in_progress"]
  PROVE  HandsRest
<1>1. cur \in Issues /\ ~handed[cur] /\ UNCHANGED handed
  BY DEF IInv, OneInHand, InHand, Claiming, HandInv, ClaimsUnhanded, StartRun
<1>2. /\ run \in [Issues -> {"idle", "live", "exited"}] /\ escaped \in [Issues -> BOOLEAN]
      /\ label \in [Issues -> StateLabels \cup {"none"}]
  BY DEF IInv, TypeOK, SessionsTypeOK, LedgerTypeOK, GithubTypeOK
<1>3. \A i \in Issues \ {cur} : run'[i] = run[i] /\ escaped'[i] = escaped[i] /\ label'[i] = label[i]
  BY <1>2 DEF StartRun
<1>4. \A i \in Issues : seen'[i] \in {seen[i], Unseen}
  BY DEF IInv, TypeOK, TaskTypeOK, Back
<1>5. \A i \in Issues : seen'[i].label \in {seen[i].label, "none"}
  BY <1>4, SeenLabels
<1>6. pc' \notin Claiming /\ pc' # "finish"
  BY DEF IInv, TypeOK, TaskTypeOK, Callers, Back, Claiming
<1>7. \A i \in Issues : handed[i] => run[i] = "idle"
  BY DEF HandInv, Rests
<1>8. QED
  BY <1>1, <1>3, <1>5, <1>6, <1>7 DEF HandsRest

\* Dispatch, but for the hand-back: the gate admits no issue that rests.
LEMMA HandDispatch ==
  ASSUME IInv, HandInv, Dispatch, ~HandBack
  PROVE  HandsRest
<1> USE DEF IInv, TypeOK, sessions, ledger, task, disk, history, github, worker
<1>1. \A i \in Issues : handed[i] => run[i] = "idle"
  BY DEF HandInv, Rests
<1>2. CASE DispatchNext
  <2>1. PICK i \in work :
          \/ EndTick
          \/ UNCHANGED <<pc, from, cur, seen, dispatching, ticks>>
          \/ Call("budgetRead", i)
          \/ /\ Admit(Request(i, StateOf(seen[i]), seen[i].held, Busy(i))) = "admitted"
             /\ Call(DispatchPlace(i), i)
    BY <1>2 DEF DispatchNext
  <2>2. i \in Issues /\ pc = "dispatch" /\ UNCHANGED <<label, handed, run>>
    BY <1>2 DEF DispatchNext, TaskTypeOK
  <2>3. UNCHANGED escaped
    BY <1>2 DEF DispatchNext, Observe
  <2>4. \A j \in Issues : seen'[j].label \in {seen[j].label, "none"}
    BY <2>1, SeenLabels DEF EndTick, Call
  <2>5. pc' # "finish"
    BY <2>1, <2>2 DEF EndTick, Call, DispatchPlace
  <2>6. CASE pc' \notin Claiming
    BY <1>1, <2>2, <2>3, <2>4, <2>5, <2>6 DEF HandsRest
  <2>7. CASE pc' \in Claiming
    <3>1. /\ Admit(Request(i, StateOf(seen[i]), seen[i].held, Busy(i))) = "admitted"
          /\ cur' = i
      BY <2>1, <2>2, <2>7 DEF EndTick, Call, Claiming
    <3>2. StateOf(seen[i]) \in StateLabels \cup {"none"}
      BY <2>2 DEF TaskTypeOK, Snapshots, StateOf
    <3>3. StateOf(seen[i]) \in ActiveStates
      BY <2>2, <3>1, <3>2, GateActive
    <3>4. seen[i].label \in ActiveStates
      BY <3>3 DEF StateOf, ActiveStates
    <3>5. ~handed[i]
      BY <2>2, <3>4 DEF HandInv, Rests, ActiveStates
    <3> QED
      BY <1>1, <2>2, <2>3, <2>4, <2>5, <3>1, <3>5 DEF HandsRest
  <2> QED
    BY <2>6, <2>7
<1>3. CASE DispatchDone
  <2>1. \A j \in Issues : seen'[j].label = "none"
    BY <1>3, SeenLabels DEF DispatchDone, EndTick
  <2>2. UNCHANGED <<label, handed, run, escaped>> /\ pc' = "idle"
    BY <1>3 DEF DispatchDone, EndTick
  <2> QED
    BY <1>1, <2>1, <2>2 DEF HandsRest, Claiming
<1>4. CASE HandBackFails \/ ClaimFails
  BY <1>1, <1>4, HandLeaves DEF HandBackFails, ClaimFails
<1>5. CASE Claim
  BY <1>5, HandStarts DEF Claim, Claiming
<1>6. CASE \E answer \in Approvals : Assess(answer)
  <2>1. pc = "assess" /\ UNCHANGED label
    BY <1>6 DEF Assess
  <2>2. \/ StartRun(cur) /\ Back
        \/ /\ UNCHANGED <<handed, run, escaped>>
           /\ Back \/ Goto("unapprove") \/ Goto("claim")
    BY <1>6 DEF Assess
  <2>3. CASE StartRun(cur) /\ Back
    BY <2>1, <2>3, HandStarts DEF Claiming
  <2>4. CASE /\ UNCHANGED <<handed, run, escaped>>
             /\ Back \/ Goto("unapprove") \/ Goto("claim")
    BY <1>1, <2>1, <2>4, HandLeaves DEF Goto, Claiming
  <2> QED
    BY <2>2, <2>3, <2>4
<1>7. QED
  BY <1>2, <1>3, <1>4, <1>5, <1>6 DEF Dispatch

\* An escape that only reads, is skipped or fails hands nothing over.
LEMMA HandEscape ==
  ASSUME IInv, HandInv, Escape, ~EscapeWrite, ~BudgetWrite, ~Finish
  PROVE  HandsRest
<1> USE DEF IInv, TypeOK, sessions, ledger, task, disk, history, github, worker
<1>1. \A i \in Issues : handed[i] => run[i] = "idle"
  BY DEF HandInv, Rests
<1>2. UNCHANGED <<label, handed, run>>
  BY DEF Escape, EscapeFails, OweEscape, EscapeRead, BudgetFails, BudgetRead, FinishFails
<1>3. UNCHANGED escaped \/ RecordEscape(cur, escalated[cur])
  BY DEF Escape, EscapeFails, OweEscape, EscapeRead, BudgetFails, BudgetRead, FinishFails
<1>4. \A i \in Issues : escaped[i] => escaped'[i]
  BY <1>3 DEF RecordEscape, LedgerTypeOK
<1>5. Back \/ Goto("escapeWrite") \/ Goto("budgetWrite")
  BY DEF Escape, EscapeFails, OweEscape, EscapeRead, BudgetFails, BudgetRead, FinishFails
<1>6. QED
  BY <1>1, <1>2, <1>4, <1>5, HandLeaves DEF Goto, Claiming

\* A write that hands an issue over leaves it without a label, or for review
\* with the mark on it.
LEMMA HandOver ==
  ASSUME IInv, MarkInv, HandInv, [Next]_vars, HandBack \/ EscapeWrite \/ BudgetWrite
  PROVE  HandInv'
<1> USE DEF HandInv
<1>1. cur \in Issues /\ run[cur] = "idle"
  BY DEF IInv, HandBack, EscapeWrite, BudgetWrite, OneInHand, InHand, ExclusiveHold
<1>2. cur' = 0 /\ pc' \notin InHand /\ seen' = [seen EXCEPT ![cur] = Unseen]
  BY ReturnsToLoop DEF HandBack, EscapeWrite, BudgetWrite, Back
<1>3. handed' = [handed EXCEPT ![cur] = TRUE] /\ UNCHANGED run
  BY DEF HandBack, EscapeWrite, BudgetWrite, sessions
<1>4. /\ label \in [Issues -> StateLabels \cup {"none"}] /\ seen \in [Issues -> Snapshots]
      /\ handed \in [Issues -> BOOLEAN] /\ escaped \in [Issues -> BOOLEAN]
  BY DEF IInv, TypeOK, GithubTypeOK, TaskTypeOK, RestTypeOK, LedgerTypeOK
<1>5. \/ HandBack /\ label' = [label EXCEPT ![cur] = "none"]
      \/ EscapeWrite /\ label' = [label EXCEPT ![cur] = "review"]
      \/ BudgetWrite /\ label' = [label EXCEPT ![cur] = "review"]
  BY DEF HandBack, EscapeWrite, BudgetWrite, Set
<1>6. escaped' = IF known[cur] THEN [escaped EXCEPT ![cur] = TRUE] ELSE escaped
  BY DEF HandBack, EscapeWrite, BudgetWrite, RecordEscape
<1>7. EscapeWrite \/ BudgetWrite => known[cur]
  <2>1. EscapeWrite => Owed(cur)
    BY DEF EscapeWrite, Owed, Escaping
  <2>2. BudgetWrite => Refusable(cur)
    BY DEF BudgetWrite, MarkInv, RefusedInHand, Refusing
  <2> QED
    BY <1>1, <2>1, <2>2, RefusableIsKnown DEF MarkInv, OwedIsKnown, IInv, TypeOK
<1>8. ASSUME NEW i \in Issues, handed'[i] PROVE Rests(i)'
  <2>1. CASE i = cur
    <3>1. label'[i] = "none" \/ (label'[i] = "review" /\ escaped'[i])
      BY <1>1, <1>4, <1>5, <1>6, <1>7, <2>1
    <3>2. seen'[i].label = "none"
      BY <1>1, <1>2, <1>4, <2>1, SeenLabels
    <3> QED
      BY <1>1, <1>3, <2>1, <3>1, <3>2 DEF Rests
  <2>2. CASE i # cur
    <3>1. handed[i] /\ label'[i] = label[i] /\ escaped'[i] = escaped[i] /\ seen'[i] = seen[i]
      BY <1>2, <1>3, <1>4, <1>5, <1>6, <1>8, <2>2
    <3> QED
      BY <1>3, <3>1 DEF Rests
  <2> QED
    BY <2>1, <2>2
<1>9. ClaimsUnhanded' /\ FinishRests'
  BY <1>2 DEF ClaimsUnhanded, FinishRests, Claiming, InHand
<1>10. QED
  BY <1>8, <1>9

\* A close-out forgets the mark, of an issue whose label asks for nothing.
LEMMA HandFinishes ==
  ASSUME IInv, HandInv, [Next]_vars, Finish
  PROVE  HandInv'
<1> USE DEF HandInv
<1>1. cur \in Issues /\ run[cur] = "idle" /\ pc = "finish"
  BY DEF IInv, Finish, OneInHand, InHand, ExclusiveHold
<1>2. cur' = 0 /\ pc' \notin InHand /\ seen' = [seen EXCEPT ![cur] = Unseen]
  BY ReturnsToLoop DEF Finish, Back
<1>3. UNCHANGED <<handed, run>>
  BY DEF Finish, history
<1>4. /\ label \in [Issues -> StateLabels \cup {"none"}] /\ seen \in [Issues -> Snapshots]
      /\ escaped \in [Issues -> BOOLEAN]
  BY DEF IInv, TypeOK, GithubTypeOK, TaskTypeOK, LedgerTypeOK
<1>5. \/ terminal[cur] = "complete" /\ label' = [label EXCEPT ![cur] = "complete"]
      \/ terminal[cur] = "cancelled" /\ label' = [label EXCEPT ![cur] = "none"]
      \/ terminal[cur] \notin {"complete", "cancelled"} /\ UNCHANGED label
  BY DEF Finish, Set, github
<1>6. escaped' = [escaped EXCEPT ![cur] = FALSE]
  BY DEF Finish, Forget
<1>7. ASSUME NEW i \in Issues, handed'[i] PROVE Rests(i)'
  <2>1. CASE i = cur
    <3>1. label'[i] \in {"none", "complete"}
      BY <1>1, <1>3, <1>4, <1>5, <1>7, <2>1 DEF FinishRests
    <3>2. seen'[i].label = "none"
      BY <1>1, <1>2, <1>4, <2>1, SeenLabels
    <3> QED
      BY <1>1, <1>3, <2>1, <3>1, <3>2 DEF Rests
  <2>2. CASE i # cur
    <3>1. label'[i] = label[i] /\ escaped'[i] = escaped[i] /\ seen'[i] = seen[i]
      BY <1>2, <1>4, <1>5, <1>6, <2>2
    <3> QED
      BY <1>3, <1>7, <3>1 DEF Rests
  <2> QED
    BY <2>1, <2>2
<1>8. ClaimsUnhanded' /\ FinishRests'
  BY <1>2 DEF ClaimsUnhanded, FinishRests, Claiming, InHand
<1>9. QED
  BY <1>7, <1>8

\* Exits and retries: what ran was not handed over, and a retry's refresh
\* reads an issue as it is.
LEMMA HandBetween ==
  ASSUME IInv, HandInv, Between
  PROVE  HandsRest
<1> USE DEF IInv, TypeOK, sessions, ledger, task, disk, history, github, worker
<1>1. UNCHANGED <<label, handed, escaped>>
  BY DEF Between, FireFails, Fire, HandleExit, FireRetry
<1>2. \A i \in Issues : handed[i] => run[i] = "idle"
  BY DEF HandInv, Rests
<1>3. CASE FireFails
  BY <1>1, <1>2, <1>3, HandLeaves DEF FireFails, Requeue
<1>4. CASE Fire
  <2>1. cur \in Issues /\ UNCHANGED run /\ pc = "fire"
    BY <1>4 DEF Fire, OneInHand, InHand
  <2>2. CASE Back
    BY <1>1, <1>2, <2>1, <2>2, HandLeaves
  <2>3. CASE Goto("budgetRead")
    BY <1>1, <1>2, <2>1, <2>3, HandLeaves DEF Goto, Claiming
  <2>4. CASE Goto("finish") /\ terminal' = [terminal EXCEPT ![cur] = Closing(Board[cur])]
    <3>1. cur' = cur /\ UNCHANGED seen /\ terminal'[cur] = Closing(Board[cur])
      BY <2>1, <2>4 DEF Goto, SessionsTypeOK
    <3>2. Closing(Board[cur]) \in {"complete", "cancelled"} \/ label[cur] = "complete"
      BY <2>1, SeenLabels DEF Closing
    <3>3. pc' \notin Claiming
      BY <2>4 DEF Goto, Claiming
    <3> QED
      BY <1>1, <1>2, <2>1, <3>1, <3>2, <3>3 DEF HandsRest
  <2>5. CASE /\ Admit(Request(cur, StateOf(Board[cur]), FALSE, Busy(cur))) = "admitted"
             /\ seen' = [seen EXCEPT ![cur] = Board[cur]]
             /\ pc' = DispatchPlace(cur) /\ cur' = cur
    <3>1. StateOf(Board[cur]) \in StateLabels \cup {"none"}
      BY <2>1, SeenLabels DEF StateOf, GithubTypeOK
    <3>2. StateOf(Board[cur]) \in ActiveStates
      BY <2>1, <2>5, <3>1, GateActive
    <3>3. label[cur] \in ActiveStates
      BY <2>1, <3>2, SeenLabels DEF StateOf, ActiveStates
    <3>4. ~handed[cur]
      BY <2>1, <3>3 DEF HandInv, Rests, ActiveStates
    <3>5. \A i \in Issues : seen'[i] \in {seen[i], Board[i]}
      BY <2>1, <2>5 DEF TaskTypeOK
    <3>6. \A i \in Issues : seen'[i].label \in {seen[i].label, label[i]}
      BY <3>5, SeenLabels
    <3>7. pc' # "finish"
      BY <2>5 DEF DispatchPlace
    <3> QED
      BY <1>1, <1>2, <2>1, <2>5, <3>4, <3>6, <3>7 DEF HandsRest
  <2> QED
    BY <1>4, <2>2, <2>3, <2>4, <2>5 DEF Fire, Requeue
<1>5. CASE \E i \in Issues : HandleExit(i)
  <2>1. PICK i \in Issues : HandleExit(i)
    BY <1>5
  <2>2. run[i] = "exited" /\ run' = [run EXCEPT ![i] = "idle"]
    BY <2>1 DEF HandleExit
  <2>3. ~handed[i]
    BY <1>2, <2>2
  <2>4. \A j \in Issues : handed[j] => run'[j] = "idle"
    BY <1>2, <2>2 DEF SessionsTypeOK
  <2>5. UNCHANGED seen
    BY <2>1 DEF HandleExit, AfterExit, Schedule, Call
  <2>6. (cur' = i /\ pc' \in {"finish", "escapeRead"}) \/ UNCHANGED <<pc, cur>>
    BY <2>1 DEF HandleExit, AfterExit, Schedule, Call
  <2>7. pc \notin Claiming /\ pc # "finish"
    BY <2>1 DEF HandleExit, Looping, Claiming
  <2> QED
    BY <1>1, <2>3, <2>4, <2>5, <2>6, <2>7 DEF HandsRest, Claiming
<1>6. CASE \E i \in Issues : FireRetry(i)
  <2>1. /\ UNCHANGED <<run, seen>>
        /\ pc' \in {"escapeRead", "fire", "idle"}
    BY <1>6 DEF FireRetry, Call, Goto
  <2> QED
    BY <1>1, <1>2, <2>1 DEF HandsRest, Claiming
<1>7. QED
  BY <1>3, <1>4, <1>5, <1>6 DEF Between

\* Shutdown, the sessions, the humans and a new process: a human's hand takes
\* the issue back, and nobody else moves what is handed over.
LEMMA HandOthers ==
  ASSUME IInv, HandInv,
         \/ ShutDown \/ RequestStop \/ Restart \/ UNCHANGED vars
         \/ \E i \in Issues : Session(i) \/ Human(i)
  PROVE  HandsRest
<1> USE DEF IInv, TypeOK, sessions, ledger, task, disk, history, github, worker
<1>1. \A i \in Issues : handed[i] => run[i] = "idle"
  BY DEF HandInv, Rests
<1>2. CASE UNCHANGED <<label, handed, escaped, seen, cur, terminal>>
           /\ (\A i \in Issues : run[i] = "idle" => run'[i] = "idle")
           /\ (UNCHANGED pc \/ pc' \in {"draining", "down"})
  BY <1>1, <1>2 DEF HandsRest, Claiming
<1>3. CASE ShutDown \/ RequestStop \/ UNCHANGED vars
  BY <1>2, <1>3 DEF ShutDown, Shutdown, Kill, Down, Goto, RequestStop, vars
<1>4. CASE Restart
  BY <1>4 DEF Restart, HandsRest, Claiming
<1>5. CASE \E i \in Issues : Session(i)
  <2>1. PICK i \in Issues : Session(i)
    BY <1>5
  <2>2. CASE AgentReview(i)
    <3>1. run[i] = "live" /\ label' = [label EXCEPT ![i] = "review"]
          /\ UNCHANGED <<handed, escaped, seen, cur, terminal, run, pc>>
      BY <2>2 DEF AgentReview, Set
    <3>2. ~handed[i] /\ \A j \in Issues \ {i} : label'[j] = label[j]
      BY <1>1, <3>1 DEF GithubTypeOK
    <3> QED
      BY <1>1, <3>1, <3>2 DEF HandsRest
  <2>3. CASE \E how \in Results : SessionEnds(i, how)
    <3>1. run[i] = "live" /\ run' = [run EXCEPT ![i] = "exited"]
          /\ UNCHANGED <<label, handed, escaped, seen, cur, terminal, pc>>
      BY <2>3 DEF SessionEnds
    <3>2. \A j \in Issues : run[j] = "idle" => run'[j] = "idle"
      BY <3>1 DEF SessionsTypeOK
    <3> QED
      BY <1>2, <3>1, <3>2
  <2> QED
    BY <2>1, <2>2, <2>3 DEF Session
<1>6. CASE \E i \in Issues : Human(i)
  <2>1. PICK i \in Issues : Human(i)
    BY <1>6
  <2>2. CASE PullRequestMoves(i)
    BY <1>2, <2>2 DEF PullRequestMoves
  <2>3. CASE (\E l \in HumanLabels : HumanLabel(i, l)) \/ HumanReopen(i)
             \/ \E how \in {"delivered", "abandoned"} : HumanClose(i, how)
    <3>1. /\ handed' = [handed EXCEPT ![i] = FALSE]
          /\ UNCHANGED <<run, escaped, seen, cur, terminal, pc>>
      BY <2>3 DEF HumanLabel, HumanReopen, HumanClose, Touch
    <3>2. \A j \in Issues \ {i} : label'[j] = label[j]
      BY <2>3 DEF HumanLabel, HumanReopen, HumanClose, Set, GithubTypeOK
    <3>3. ~handed'[i] /\ \A j \in Issues \ {i} : handed'[j] = handed[j]
      BY <3>1 DEF RestTypeOK
    <3> QED
      BY <1>1, <3>1, <3>2, <3>3 DEF HandsRest
  <2> QED
    BY <2>1, <2>2, <2>3 DEF Human
<1>7. QED
  BY <1>3, <1>4, <1>5, <1>6

\* Every step keeps what is handed over at rest.
LEMMA HandStep == IInv /\ MarkInv /\ HandInv /\ [Next]_vars => HandInv'
<1> SUFFICES ASSUME IInv, MarkInv, HandInv, [Next]_vars PROVE HandInv'
  OBVIOUS
<1>1. CASE HandBack \/ EscapeWrite \/ BudgetWrite
  BY <1>1, HandOver
<1>2. CASE Finish
  BY <1>2, HandFinishes
<1>3. CASE ~HandBack /\ ~EscapeWrite /\ ~BudgetWrite /\ ~Finish
  <2>1. HandsRest
    BY <1>3, HandReconcile, HandPoll, HandDispatch, HandEscape, HandBetween, HandOthers
       DEF Next, Task
  <2> QED
    BY <2>1, RestingIsKept
<1>4. QED
  BY <1>1, <1>2, <1>3

\* A new worker has handed nothing over.
LEMMA HandInit == Init => HandInv
BY DEF Init, HandInv, ClaimsUnhanded, FinishRests, Claiming

\* What is handed over is at rest in every behaviour of the worker.
THEOREM HandsKept == Spec => []HandInv
<1>1. QED
  BY Invariance, MarksKept, HandInit, HandStep, PTL DEF Spec

\* No run starts on an issue an escape handed to a human, by whichever door,
\* until a human has touched it.
THEOREM HandedOverStaysSo == Spec => HandedOverStays
<1>1. IInv /\ HandInv /\ [Next]_vars => [\A i \in Issues : Starts(i) => ~handed[i]]_vars
  BY StartsAreClaims DEF HandInv, ClaimsUnhanded
<1>2. QED
  BY <1>1, Invariance, HandsKept, PTL DEF Spec, HandedOverStays
-----------------------------------------------------------------------------
(* The order of a split *)

\* The task is in the candidate sweep, or in what the sweep called.
Sweeping == pc = "dispatch" \/ (pc \in InHand /\ from = "dispatch")

\* What spares a poll the parents' order: the gate refuses whatever is asked.
NothingStarts == Slots = 0 \/ stopping \/ HoldNow

\* Where the task is with an issue the gate admitted, but for operator steps.
Placed == {"assess", "unapprove", "claim"}

\* In the sweep a `todo` step is held back, was found to be foremost, or the gate
\* refuses it for the worker's own reasons; the one admitted was found foremost.
OrderInv ==
    /\ Sweeping => \A i \in Split \ OperatorSteps :
                      seen[i].label = "todo" => seen[i].held \/ i \in turn \/ NothingStarts
    /\ Sweeping /\ pc \in Placed => (cur \in Split /\ seen[cur].label = "todo" => cur \in turn)
    /\ pc = "fire" => from = "idle"

\* A step that begins no sweep and places no issue, and forgets at most an issue.
OrderRests ==
    /\ Sweeping' => /\ Sweeping
                    /\ turn' = turn
                    /\ \A i \in Issues : seen'[i] \in {seen[i], Unseen}
                    /\ NothingStarts => NothingStarts'
                    /\ pc' \in Placed => pc \in Placed /\ cur' = cur
    /\ pc' = "fire" => from' = "idle"

\* Such a step keeps the invariant.
LEMMA OrderIsKept ==
  ASSUME OrderInv, OrderRests
  PROVE  OrderInv'
<1> USE OrchestratorAssumption DEF OrchestratorAssumption, OrderInv, OrderRests
<1>1. Unseen.label = "none"
  BY DEF Unseen
<1>2. ASSUME Sweeping', NEW i \in Split \ OperatorSteps, seen'[i].label = "todo"
      PROVE  seen'[i].held \/ i \in turn' \/ NothingStarts'
  <2>1. seen'[i] = seen[i]
    BY <1>1, <1>2
  <2> QED
    BY <1>2, <2>1
<1>3. ASSUME Sweeping', pc' \in Placed, cur' \in Split, seen'[cur'].label = "todo"
      PROVE  cur' \in turn'
  <2>1. seen'[cur'] = seen[cur] /\ cur' = cur
    BY <1>1, <1>3
  <2> QED
    BY <1>3, <2>1
<1>4. QED
  BY <1>2, <1>3

\* The sweep begins with every `todo` step held back or found foremost, or with nothing
\* that could start.
LEMMA OrderOpens ==
  ASSUME BounceDone \/ ReadParents \/ ReadParentsFails
  PROVE  OrderInv'
<1>1. pc' \notin Placed /\ pc' # "fire" /\ (Sweeping' => pc' = "dispatch")
  BY DEF BounceDone, ReadParents, ReadParentsFails, HoldBack, EndTick, Sweeping, Placed, InHand
<1>2. Ordered = IF NothingStarts THEN {} ELSE {i \in Split \ OperatorSteps : seen[i].label = "todo"}
  BY DEF Ordered, NothingStarts
<1>3. NothingStarts' = NothingStarts
  <2>1. UNCHANGED <<sessions, worker>>
    BY DEF BounceDone, ReadParents, ReadParentsFails, HoldBack
  <2>2. UNCHANGED <<run, stopping, holds, fetchFailures>>
    BY <2>1 DEF sessions, worker
  <2> QED
    BY <2>2 DEF NothingStarts, Slots, Running, HoldNow
<1>4. ASSUME pc' = "dispatch", NEW i \in Split \ OperatorSteps, seen'[i].label = "todo"
      PROVE  seen'[i].held \/ i \in turn' \/ NothingStarts'
  <2>1. CASE BounceDone
    <3>1. Ordered = {} /\ seen' = seen
      BY <1>4, <2>1 DEF BounceDone, EndTick
    <3> QED
      BY <1>2, <1>3, <1>4, <3>1
  <2>2. CASE ReadParents \/ ReadParentsFails
    <3>1. PICK held, found : HoldBack(held, found) /\ Ordered \subseteq held \cup found
      BY <2>2 DEF ReadParents, ReadParentsFails
    <3>2. i \in Issues
      BY OrchestratorAssumption DEF OrchestratorAssumption
    <3>3. seen'[i].label = seen[i].label /\ seen'[i].held = (i \in held) /\ turn' = found
      BY <3>1, <3>2 DEF HoldBack
    <3> QED
      BY <1>2, <1>3, <1>4, <3>1, <3>3
  <2> QED
    BY <2>1, <2>2
<1>5. QED
  BY <1>1, <1>4 DEF OrderInv

\* The gate admits no step that is held back, and nothing while nothing starts.
LEMMA OrderAdmits ==
  ASSUME NEW i \in Issues, seen[i] \in Snapshots, seen[i].label = "todo",
         Admit(Request(i, StateOf(seen[i]), seen[i].held, Busy(i))) = "admitted"
  PROVE  ~seen[i].held /\ ~NothingStarts
<1> DEFINE req == Request(i, StateOf(seen[i]), seen[i].held, Busy(i))
<1>1. /\ req.stopping = stopping /\ req.hold = HoldNow /\ req.slots = Slots /\ req.kind = "work"
      /\ req.state = StateOf(seen[i]) /\ req.order = seen[i].held
  BY DEF Request
<1>2. StateOf(seen[i]) \in {"todo", "none"}
  BY DEF StateOf
<1>3. ~req.stopping /\ ~req.hold /\ ~(req.slots <= 0) /\ ~(req.state = "todo" /\ req.order)
  BY <1>1, <1>2 DEF Admit
<1>4. req.state \in ActiveStates
  BY <1>1, <1>2 DEF Admit
<1>5. QED
  BY <1>1, <1>2, <1>3, <1>4 DEF NothingStarts, ActiveStates

\* One candidate: dropped, refused for good, or placed.
LEMMA OrderSweeps ==
  ASSUME IInv, OrderInv, DispatchNext
  PROVE  OrderInv'
<1>1. PICK i \in work :
        \/ EndTick
        \/ UNCHANGED <<pc, from, cur, seen, dispatching, ticks>>
        \/ Call("budgetRead", i)
        \/ /\ Admit(Request(i, StateOf(seen[i]), seen[i].held, Busy(i))) = "admitted"
           /\ Call(DispatchPlace(i), i)
  BY DEF DispatchNext
<1>2. /\ i \in Issues /\ pc = "dispatch" /\ Sweeping /\ seen[i] \in Snapshots
      /\ turn' = IF pc' = "idle" THEN {} ELSE turn
  BY DEF DispatchNext, Sweeping, IInv, TypeOK, TaskTypeOK
<1>3. NothingStarts' = NothingStarts
  BY DEF DispatchNext, NothingStarts, Slots, Running, HoldNow, sessions, worker
<1>4. CASE EndTick
  BY <1>2, <1>4 DEF EndTick, OrderInv, Sweeping, InHand
<1>5. CASE UNCHANGED <<pc, from, cur, seen, dispatching, ticks>> \/ Call("budgetRead", i)
  <2>1. /\ pc' \in {"dispatch", "budgetRead"} /\ UNCHANGED <<seen, turn>>
    BY <1>2, <1>5 DEF Call
  <2> QED
    BY <1>2, <1>3, <2>1, OrderIsKept DEF OrderRests, Placed
<1>6. CASE /\ Admit(Request(i, StateOf(seen[i]), seen[i].held, Busy(i))) = "admitted"
           /\ Call(DispatchPlace(i), i)
  <2>1. /\ pc' = DispatchPlace(i) /\ from' = "dispatch" /\ cur' = i /\ UNCHANGED <<seen, turn>>
    BY <1>2, <1>6 DEF Call, DispatchPlace
  <2>2. pc' \in Placed /\ i \in Split /\ seen[i].label = "todo" => i \in turn
    BY <1>2, <1>6, <2>1, OrderAdmits DEF OrderInv, DispatchPlace, Placed
  <2>3. pc' # "fire"
    BY <2>1 DEF DispatchPlace
  <2> QED
    BY <1>2, <1>3, <2>1, <2>2, <2>3 DEF OrderInv
<1>7. QED
  BY <1>1, <1>4, <1>5, <1>6

\* What the sweep called returns to it or goes on, and a run that starts is one the gate
\* let through when something could start.
LEMMA OrderCalls ==
  ASSUME IInv, OrderInv, pc \in InHand \ {"fire"}, UNCHANGED <<turn, holds, fetchFailures, stopping>>,
         Back \/ (pc' \in InHand \ {"fire"} /\ UNCHANGED <<from, cur, seen>>
                 /\ (pc' \in Placed => pc \in Placed)),
         UNCHANGED run \/ (pc \in Claiming /\ StartRun(cur))
  PROVE  OrderInv'
<1> USE DEF IInv, TypeOK, TaskTypeOK
<1>1. Back => pc' = from /\ pc' \notin InHand /\ \A i \in Issues : seen'[i] \in {seen[i], Unseen}
  BY DEF Back, Callers, InHand
<1>2. Sweeping' => Sweeping
  BY <1>1 DEF Sweeping, InHand
<1>3. NothingStarts => NothingStarts'
  <2>1. HoldNow' = HoldNow
    BY DEF HoldNow
  <2>2. CASE UNCHANGED run
    BY <2>1, <2>2 DEF NothingStarts, Slots, Running
  <2>3. CASE pc \in Claiming
    <3>1. Cardinality(Running) < MaxAgents /\ ~HoldNow
      BY <2>3 DEF ClaimsFit
    <3>2. Cardinality(Running) \in Nat /\ MaxAgents \in Nat
      BY RunningFinite, FS_CardinalityType, OrchestratorAssumption DEF OrchestratorAssumption
    <3>3. Slots # 0
      BY <3>1, <3>2 DEF Slots
    <3> QED
      BY <3>1, <3>3 DEF NothingStarts
  <2> QED
    BY <2>2, <2>3
<1>4. pc' \in Placed => pc \in Placed /\ cur' = cur
  BY <1>1 DEF Placed, InHand
<1>5. pc' # "fire"
  BY <1>1 DEF InHand
<1>6. OrderRests
  BY <1>1, <1>2, <1>3, <1>4, <1>5 DEF OrderRests
<1>7. QED
  BY <1>6, OrderIsKept

\* Dispatch and the escapes, one call at a time.
LEMMA OrderHelpers ==
  ASSUME IInv, OrderInv, Dispatch \/ Escape, ~DispatchNext
  PROVE  OrderInv'
<1> USE DEF sessions, worker, history
<1>1. CASE DispatchDone
  BY <1>1 DEF DispatchDone, EndTick, OrderInv, Sweeping, InHand
<1>2. CASE HandBack \/ HandBackFails \/ ClaimFails
  <2>1. /\ pc \in InHand \ {"fire"} /\ Back
        /\ UNCHANGED <<turn, holds, fetchFailures, stopping, run>>
    BY <1>2 DEF HandBack, HandBackFails, ClaimFails, InHand
  <2> QED
    BY <2>1, OrderCalls
<1>3. CASE Claim
  <2>1. /\ pc \in InHand \ {"fire"} /\ Back /\ pc \in Claiming /\ StartRun(cur)
        /\ UNCHANGED <<turn, holds, fetchFailures, stopping>>
    BY <1>3 DEF Claim, StartRun, InHand, Claiming
  <2> QED
    BY <2>1, OrderCalls
<1>4. CASE \E answer \in Approvals : Assess(answer)
  <2>1. /\ pc = "assess" /\ UNCHANGED <<turn, holds, fetchFailures, stopping>>
        /\ Back \/ Goto("unapprove") \/ Goto("claim")
        /\ UNCHANGED run \/ StartRun(cur)
    BY <1>4 DEF Assess, StartRun
  <2> QED
    BY <2>1, OrderCalls DEF Goto, InHand, Claiming, Placed
<1>5. CASE Escape
  <2>1. /\ pc \in InHand \ {"fire"} /\ UNCHANGED <<turn, holds, fetchFailures, stopping, run>>
        /\ Back \/ Goto("escapeWrite") \/ Goto("budgetWrite")
    BY <1>5 DEF Escape, EscapeFails, OweEscape, EscapeRead, EscapeWrite, BudgetFails, BudgetRead,
                BudgetWrite, Finish, FinishFails, InHand
  <2> QED
    BY <2>1, OrderCalls DEF Goto, InHand, Placed
<1>6. QED
  BY <1>1, <1>2, <1>3, <1>4, <1>5 DEF Dispatch

\* Outside the sweep nothing comes into it but by way of the parents' order: an exit and
\* a retry return to the wait between ticks.
LEMMA OrderBetween ==
  ASSUME IInv, OrderInv, Reconcile \/ Between \/ ShutDown \/ Restart
  PROVE  OrderInv'
<1> USE DEF IInv, TypeOK, TaskTypeOK, task
<1>1. ~Sweeping' /\ (pc' = "fire" => from' = "idle")
  <2>1. CASE Reconcile
    <3>1. CASE \E i \in Issues : SweepNext(i)
      BY <3>1 DEF SweepNext, Call, Sweeping, InHand
    <3>2. CASE StartTick \/ RefreshFails \/ Refresh \/ SweepFails \/ Sweep \/ SweepDone
      BY <3>2 DEF StartTick, RefreshFails, Refresh, SweepFails, Sweep, SweepDone, Goto,
                  AfterReconcile, Sweeping, InHand
    <3> QED
      BY <2>1, <3>1, <3>2 DEF Reconcile
  <2>2. CASE FireFails \/ Fire
    <3>1. pc = "fire" /\ from = "idle"
      BY <2>2 DEF FireFails, Fire, OrderInv
    <3>2. \/ pc' = "idle"
          \/ from' = "idle" /\ pc' # "dispatch"
      BY <2>2, <3>1 DEF FireFails, Fire, Requeue, Back, Goto, DispatchPlace
    <3> QED
      BY <3>1, <3>2, <2>2 DEF Sweeping, InHand
  <2>3. CASE \E i \in Issues : HandleExit(i)
    <3>1. /\ pc \in {"idle", "draining"}
          /\ \/ pc' = pc
             \/ from' = pc /\ pc' \in {"finish", "escapeRead"}
      BY <2>3 DEF HandleExit, AfterExit, Schedule, Looping, Call
    <3> QED
      BY <3>1 DEF Sweeping, InHand
  <2>4. CASE \E i \in Issues : FireRetry(i)
    <3>1. \/ pc' = "idle"
          \/ from' = "idle" /\ pc' \in {"fire", "escapeRead"}
      BY <2>4 DEF FireRetry, Looping, Call, Goto
    <3> QED
      BY <3>1 DEF Sweeping, InHand
  <2>5. CASE ShutDown \/ Restart
    BY <2>5 DEF ShutDown, Shutdown, Kill, Down, Restart, Goto, Sweeping, InHand
  <2> QED
    BY <2>1, <2>2, <2>3, <2>4, <2>5 DEF Between
<1>2. QED
  BY <1>1 DEF OrderInv

\* The rest of the poll does not come as far as the sweep, and whoever else moves leaves
\* the task where it is; a stop only starts less.
LEMMA OrderOthers ==
  ASSUME IInv, OrderInv,
         \/ SettleHolds \/ FetchFails \/ Fetch
         \/ \E i \in Issues : Bounce(i) \/ BounceFails(i) \/ Session(i) \/ Human(i)
         \/ RequestStop \/ UNCHANGED vars
  PROVE  OrderInv'
<1> USE DEF sessions, worker, history, task
<1>1. CASE SettleHolds \/ FetchFails \/ Fetch \/ \E i \in Issues : Bounce(i) \/ BounceFails(i)
  BY <1>1 DEF SettleHolds, FetchFails, Fetch, Bounce, BounceFails, EndTick, OrderInv, Sweeping, InHand
<1>2. CASE \/ RequestStop \/ UNCHANGED vars
           \/ \E i \in Issues : Session(i) \/ Human(i)
  <2>1. /\ UNCHANGED <<pc, from, cur, seen, turn, holds, fetchFailures>>
        /\ stopping => stopping'
        /\ \A i \in Issues : run'[i] = "idle" <=> run[i] = "idle"
    BY <1>2 DEF RequestStop, vars, Session, AgentReview, SessionEnds, Human, HumanLabel, HumanClose,
                HumanReopen, PullRequestMoves, Touch, IInv, TypeOK, SessionsTypeOK
  <2>2. Running' = Running
    BY <2>1 DEF Running
  <2>3. Slots' = Slots /\ HoldNow' = HoldNow
    BY <2>1, <2>2 DEF Slots, HoldNow
  <2>4. (NothingStarts => NothingStarts') /\ Sweeping' = Sweeping
    BY <2>1, <2>3 DEF NothingStarts, Sweeping
  <2>5. pc = "fire" => from = "idle"
    BY DEF OrderInv
  <2>6. OrderRests
    BY <2>1, <2>4, <2>5 DEF OrderRests
  <2> QED
    BY <2>6, OrderIsKept
<1>3. QED
  BY <1>1, <1>2

\* Every step keeps the order's invariant.
LEMMA OrderStep == IInv /\ OrderInv /\ [Next]_vars => OrderInv'
BY OrderOpens, OrderSweeps, OrderHelpers, OrderBetween, OrderOthers DEF Next, Task, Poll

\* A run starts from an approved assessment or from a claim.
LEMMA StartsArePlaced ==
  ASSUME IInv, [Next]_vars, NEW i \in Issues, Starts(i)
  PROVE  pc \in Placed /\ cur = i
<1> USE DEF IInv, TypeOK, sessions
<1>1. pc \in Claiming /\ cur = i
  BY StartsAreClaims
<1>2. CASE HandBack \/ HandBackFails
  BY <1>2 DEF HandBack, HandBackFails, Starts
<1>3. CASE pc = "operator" /\ ~HandBack /\ ~HandBackFails
  <2>1. ~Reconcile
    BY <1>3 DEF Reconcile, StartTick, RefreshFails, Refresh, SweepFails, Sweep, SweepDone, SweepNext,
                Looping
  <2>2. ~Poll
    BY <1>3 DEF Poll, SettleHolds, FetchFails, Fetch, BounceDone, ReadParents, ReadParentsFails,
                HoldBack, Bounce, BounceFails
  <2>3. ~Dispatch /\ ~Escape
    BY <1>3 DEF Dispatch, DispatchNext, DispatchDone, Claim, ClaimFails, Assess, Escape, EscapeFails,
                EscapeRead, EscapeWrite, BudgetFails, BudgetRead, BudgetWrite, Finish, FinishFails
  <2>4. ~Between /\ ~ShutDown
    BY <1>3 DEF Between, FireFails, Fire, HandleExit, FireRetry, Looping, ShutDown, Shutdown, Kill, Down
  <2>5. \/ (\E j \in Issues : Session(j) \/ Human(j))
        \/ RequestStop \/ Restart \/ UNCHANGED vars
    BY <2>1, <2>2, <2>3, <2>4 DEF Next, Task
  <2>6. run'[i] = "live" => run[i] = "live"
    BY <2>5 DEF Session, AgentReview, SessionEnds, Human, HumanLabel, HumanClose, HumanReopen,
                PullRequestMoves, Touch, RequestStop, Restart, vars, SessionsTypeOK
  <2> QED
    BY <2>6 DEF Starts
<1>4. QED
  BY <1>1, <1>2, <1>3 DEF Claiming, Placed

\* The order's invariant holds of every behaviour of the worker.
THEOREM OrderKept == Spec => []OrderInv
<1>1. Init => OrderInv
  BY DEF Init, OrderInv, Sweeping, InHand
<1>2. QED
  BY <1>1, Invariance, OrderStep, PTL DEF Spec

\* The sweep starts no `todo` step of a split but one this poll's read of the parents
\* found with no step before it open.
THEOREM SweepKeepsOrder == Spec => SweepKeepsTheOrder
<1>1. IInv /\ OrderInv /\ [Next]_vars
        => [\A i \in Split : Starts(i) /\ from = "dispatch" /\ seen[i].label = "todo"
                             => i \in turn]_vars
  <2> SUFFICES ASSUME IInv, OrderInv, [Next]_vars, NEW i \in Split, Starts(i),
                      from = "dispatch", seen[i].label = "todo"
               PROVE  i \in turn
    OBVIOUS
  <2>1. i \in Issues
    BY OrchestratorAssumption DEF OrchestratorAssumption
  <2>2. pc \in Placed /\ cur = i
    BY <2>1, StartsArePlaced
  <2> QED
    BY <2>2 DEF OrderInv, Sweeping, Placed, InHand
<1>2. QED
  BY <1>1, Invariance, OrderKept, PTL DEF Spec, SweepKeepsTheOrder
-----------------------------------------------------------------------------
(* The promise of WorkBudget *)

\* What WorkBudget sees of a worker.
AtWork == [i \in Issues |-> run[i] # "idle"]

\* A step that starts and ends no run and charges nothing is no step of the
\* abstract specification, or a hand-over, a recall or a close-out.
LEMMA AtWorkKept ==
  ASSUME \A i \in Issues : run'[i] = "idle" <=> run[i] = "idle"
  PROVE  UNCHANGED AtWork
BY DEF AtWork

\* The start of a run is a Begin.
LEMMA BudgetBegins ==
  ASSUME IInv, pc \in Claiming, StartRun(cur), UNCHANGED billed, NEW i, i = cur
  PROVE  i \in Issues /\ Budget!Begin(i)
<1>1. i \in Issues /\ run[i] = "idle"
  BY DEF IInv, OneInHand, InHand, Claiming, ExclusiveHold
<1>2. run \in [Issues -> {"idle", "live", "exited"}] /\ cost \in [Issues -> 0..CostCap]
  BY DEF IInv, TypeOK, SessionsTypeOK, LedgerTypeOK
<1>3. run' = [run EXCEPT ![i] = "live"] /\ UNCHANGED <<failures, cost, billed>>
  BY DEF StartRun
<1>4. AtWork' = [AtWork EXCEPT ![i] = TRUE]
  BY <1>1, <1>2, <1>3 DEF AtWork
<1>5. ~AtWork[i] /\ {j \in Issues : AtWork[j]} = Running
  BY <1>1 DEF AtWork, Running
<1>6. Cardinality(Running) < MaxAgents /\ failures[i] < MaxAttempts /\ ~OverCost(cost[i])
  BY DEF IInv, ClaimsFit
<1>7. CostCap = 0 \/ cost[i] < CostCap
  BY <1>1, <1>2, <1>6, BudgetAssumption DEF BudgetAssumption, OverCost
<1>8. Budget!Cardinality(Running) < MaxAgents
  BY <1>6 DEF Budget!Cardinality, Cardinality
<1>9. ~AtWork[i] /\ Budget!Cardinality({j \in Issues : AtWork[j]}) < MaxAgents
  BY <1>5, <1>8
<1>10. QED
  BY <1>1, <1>3, <1>4, <1>6, <1>7, <1>9 DEF Budget!Begin, Budget!Working, AtWork

\* The exit of a run is an End.
LEMMA BudgetEnds ==
  ASSUME IInv, NEW i \in Issues, HandleExit(i)
  PROVE  Budget!End(i)
<1>1. /\ run \in [Issues -> {"idle", "live", "exited"}]
      /\ failures \in [Issues -> 0..MaxAttempts]
      /\ cost \in [Issues -> 0..CostCap] /\ billed \in [Issues -> 0..CostCap]
  BY DEF IInv, TypeOK, SessionsTypeOK, LedgerTypeOK, RestTypeOK
<1>2. run[i] = "exited" /\ run' = [run EXCEPT ![i] = "idle"]
  BY DEF HandleExit
<1>3. AtWork[i] /\ AtWork' = [AtWork EXCEPT ![i] = FALSE]
  BY <1>1, <1>2 DEF AtWork
<1>4. \E n \in {0, failures[i], failures[i] + 1} : failures' = [failures EXCEPT ![i] = n]
  <2>1. UNCHANGED failures \/ \E n \in {0, failures[i] + 1} : failures' = [failures EXCEPT ![i] = n]
    BY <1>1 DEF HandleExit, AfterExit
  <2>2. failures = [failures EXCEPT ![i] = failures[i]]
    BY <1>1
  <2> QED
    BY <2>1, <2>2
<1>5. PICK spend \in {0, 1} :
        /\ cost' = [cost EXCEPT ![i] = Capped(cost[i] + spend)]
        /\ billed' = [billed EXCEPT ![i] = Capped(billed[i] + spend)]
  BY <1>1 DEF HandleExit
<1>6. CASE spend = 0
  <2>1. Capped(cost[i] + 0) = cost[i] /\ Capped(billed[i] + 0) = billed[i]
    BY <1>1, BudgetAssumption DEF BudgetAssumption, Capped
  <2>2. UNCHANGED <<cost, billed>>
    BY <1>1, <1>5, <1>6, <2>1
  <2> QED
    BY <1>3, <1>4, <2>2 DEF Budget!End, AtWork
<1>7. CASE spend = 1
  <2>1. /\ cost' = [cost EXCEPT ![i] = Budget!Capped(cost[i] + 1)]
        /\ billed' = [billed EXCEPT ![i] = Budget!Capped(billed[i] + 1)]
    BY <1>5, <1>7 DEF Capped, Budget!Capped
  <2> QED
    BY <1>1, <1>3, <1>4, <2>1 DEF Budget!End, AtWork
<1>8. QED
  BY <1>6, <1>7

\* What takes an issue out of the worker's hands is a HandOver.
LEMMA BudgetHandsOver ==
  ASSUME NEW i \in Issues, run[i] = "idle", UNCHANGED <<run, cost, billed>>,
         failures' = [failures EXCEPT ![i] = 0]
  PROVE  Budget!HandOver(i)
<1>1. UNCHANGED AtWork /\ ~AtWork[i]
  BY DEF AtWork
<1>2. QED
  BY <1>1 DEF Budget!HandOver, AtWork

\* A chain from before the process is recalled below the ceiling, or not at all.
LEMMA BudgetRecalls ==
  ASSUME IInv, NEW i \in Issues, Recalls(i)
  PROVE  Budget!Recall(i) \/ UNCHANGED <<AtWork, failures, cost, billed>>
<1>1. run[i] = "idle" /\ UNCHANGED AtWork /\ UNCHANGED <<cost, billed>>
  BY DEF Recalls, Observe, ledger, AtWork
<1>2. CASE UNCHANGED failures
  BY <1>1, <1>2
<1>3. CASE Floor(i) > failures[i] /\ failures' = [failures EXCEPT ![i] = Floor(i)]
  <2>1. failures[i] \in 0..MaxAttempts /\ recorded[i] \in 0..MaxAttempts
    BY DEF IInv, TypeOK, LedgerTypeOK, RestTypeOK
  <2>2. Floor(i) \in failures[i]..MaxAttempts - 1
    BY <1>3, <2>1, BudgetAssumption DEF BudgetAssumption, Floor, SeededChain
  <2> QED
    BY <1>1, <1>3, <2>2 DEF Budget!Recall, AtWork
<1>4. QED
  BY <1>2, <1>3 DEF Recalls, Observe, ledger

\* A new process is charged what the store tells it.
LEMMA BudgetRestarts ==
  ASSUME IInv, Restart
  PROVE  Budget!NewProcess
<1>1. AtWork' = [i \in Issues |-> FALSE] /\ UNCHANGED billed
  BY DEF Restart, AtWork
<1>2. PICK seeds \in SUBSET {i \in Issues : Store /\ logged[i]},
           chain \in [Issues -> 0..MaxAttempts + 1] :
         /\ failures' = [i \in Issues |-> SeededChain(chain[i])]
         /\ cost' = [i \in Issues |-> IF i \in seeds THEN billed[i] ELSE 0]
  BY Zenon DEF Restart
<1>3. \A n \in 0..MaxAttempts + 1 : SeededChain(n) \in 0..MaxAttempts - 1
  BY BudgetAssumption DEF BudgetAssumption, SeededChain
<1>4. failures' \in [Issues -> 0..MaxAttempts - 1]
  BY <1>2, <1>3
<1>5. cost' = [i \in Issues |-> IF i \in Issues \ seeds THEN 0 ELSE billed[i]]
  BY <1>2
<1>6. \E lost \in SUBSET Issues : cost' = [i \in Issues |-> IF i \in lost THEN 0 ELSE billed[i]]
  BY <1>5
<1>7. QED
  BY <1>1, <1>4, <1>6 DEF Budget!NewProcess, AtWork

\* Every step of the worker is a step of WorkBudget or none.
LEMMA BudgetStep == IInv /\ [Next]_vars => [Budget!Next]_(Budget!budget)
<1> SUFFICES ASSUME IInv, [Next]_vars
             PROVE  Budget!Next \/ UNCHANGED <<AtWork, failures, cost, billed>>
  BY DEF Budget!budget, AtWork
<1>1. CASE LedgerRests
  BY <1>1, AtWorkKept DEF LedgerRests
<1>2. CASE HandsOver
  <2>1. Budget!HandOver(cur)
    BY <1>2, BudgetHandsOver DEF HandsOver, RecordEscape
  <2> QED
    BY <1>2, <2>1 DEF HandsOver, Budget!Next
<1>3. CASE pc \in Claiming /\ StartRun(cur) /\ cur' = 0 /\ UNCHANGED billed
  <2>1. PICK i : i = cur
    OBVIOUS
  <2>2. i \in Issues /\ Budget!Begin(i)
    BY <1>3, <2>1, BudgetBegins
  <2> QED
    BY <2>2 DEF Budget!Next
<1>4. CASE \E i \in Issues : Recalls(i)
  BY <1>4, BudgetRecalls DEF Budget!Next
<1>5. CASE \E i \in Issues : HandleExit(i)
  BY <1>5, BudgetEnds DEF Budget!Next
<1>6. CASE BudgetWrite
  <2>1. cur \in Issues /\ run[cur] = "idle"
    BY <1>6 DEF BudgetWrite, IInv, OneInHand, InHand, ExclusiveHold
  <2>2. UNCHANGED <<run, cost, billed>> /\ failures' = [failures EXCEPT ![cur] = 0]
    BY <1>6 DEF BudgetWrite, RecordEscape, sessions, disk
  <2>3. Budget!HandOver(cur)
    BY <2>1, <2>2, BudgetHandsOver
  <2> QED
    BY <2>1, <2>3 DEF Budget!Next
<1>7. CASE Finish
  <2>1. cur \in Issues /\ run[cur] = "idle"
    BY <1>7 DEF Finish, IInv, OneInHand, InHand, ExclusiveHold
  <2>2. /\ UNCHANGED <<run, billed>> /\ failures' = [failures EXCEPT ![cur] = 0]
        /\ cost' = [cost EXCEPT ![cur] = 0]
    BY <1>7 DEF Finish, Forget, disk
  <2>3. ~AtWork[cur] /\ UNCHANGED AtWork
    BY <2>1, <2>2 DEF AtWork
  <2>4. Budget!CloseOut(cur)
    BY <2>2, <2>3 DEF Budget!CloseOut, AtWork
  <2> QED
    BY <2>1, <2>4 DEF Budget!Next
<1>8. CASE Restart
  BY <1>8, BudgetRestarts DEF Budget!Next
<1>9. QED
  BY <1>1, <1>2, <1>3, <1>4, <1>5, <1>6, <1>7, <1>8, LedgerKinds

\* The gate and the ledger keep the promise of the abstract specification:
\* whatever the board, the sessions and the crashes do, runs begin below the
\* ceilings and only what it names lowers a chain.
THEOREM BudgetIsKept == Spec => KeepsBudget
<1>1. Init => Budget!Init
  <2> SUFFICES ASSUME Init PROVE Budget!Init
    OBVIOUS
  <2>1. \A i \in Issues : (run[i] # "idle") = FALSE
    BY DEF Init
  <2>2. [i \in Issues |-> run[i] # "idle"] = [i \in Issues |-> FALSE]
    BY <2>1
  <2>3. /\ failures = [i \in Issues |-> 0] /\ cost = [i \in Issues |-> 0]
        /\ billed = [i \in Issues |-> 0]
    BY DEF Init
  <2> QED
    BY <2>2, <2>3 DEF Budget!Init
<1>2. QED
  BY <1>1, Invariance, BudgetStep, PTL DEF Spec, KeepsBudget, Budget!Spec
=============================================================================
