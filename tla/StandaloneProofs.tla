--------------------------- MODULE StandaloneProofs ---------------------------
(***************************************************************************)
(* The components that stand by themselves.                                *)
(*                                                                         *)
(* Egress: what the proxy counts is what it holds, for any number of       *)
(* clients and any ceilings, and its log of saturations misses none and    *)
(* repeats none.                                                           *)
(*                                                                         *)
(* Ledger: the worker forgets an issue only for Limit others written after *)
(* it, for any limits, issues and restarts.                                *)
(*                                                                         *)
(* Hub: of two web processes no threshold of a period is posted again that *)
(* Slack answered for, for any thresholds, periods, outages, failed posts, *)
(* lost answers and restarts.                                              *)
(***************************************************************************)
EXTENDS Egress, Ledger, Hub, FiniteSetTheorems, SequenceTheorems, TLAPS
-----------------------------------------------------------------------------
(* The egress proxy *)

\* The clients whose connection is in one of some awaits.
In(p, K) == {c \in Clients : p[c] \in K}

\* One connection's move from await to await: nothing is counted anew, one
\* more is, or one less.
LEMMA MoveWithin ==
    ASSUME NEW p \in [Clients -> Pcs], NEW c \in Clients, NEW at \in Pcs, NEW K,
           p[c] \in K <=> at \in K
    PROVE  In([p EXCEPT ![c] = at], K) = In(p, K)
  BY DEF In

LEMMA MoveIn ==
    ASSUME NEW p \in [Clients -> Pcs], NEW c \in Clients, NEW at \in Pcs, NEW K,
           p[c] \notin K, at \in K
    PROVE  Cardinality(In([p EXCEPT ![c] = at], K)) = Cardinality(In(p, K)) + 1
  <1>1. In([p EXCEPT ![c] = at], K) = In(p, K) \cup {c}
    BY DEF In
  <1>2. IsFiniteSet(In(p, K)) /\ c \notin In(p, K)
    BY EgressAssumption, FS_Subset DEF In
  <1> QED
    BY <1>1, <1>2, FS_AddElement

LEMMA MoveOut ==
    ASSUME NEW p \in [Clients -> Pcs], NEW c \in Clients, NEW at \in Pcs, NEW K,
           p[c] \in K, at \notin K
    PROVE  /\ Cardinality(In([p EXCEPT ![c] = at], K)) = Cardinality(In(p, K)) - 1
           /\ Cardinality(In(p, K)) \in Nat \ {0}
  <1>1. In([p EXCEPT ![c] = at], K) = In(p, K) \ {c}
    BY DEF In
  <1>2. IsFiniteSet(In(p, K)) /\ c \in In(p, K)
    BY EgressAssumption, FS_Subset DEF In
  <1>3. Cardinality(In(p, K) \ {c}) = Cardinality(In(p, K)) - 1
    BY <1>2, FS_RemoveElement
  <1>4. Cardinality(In(p, K)) \in Nat /\ Cardinality(In(p, K)) # 0
    BY <1>2, FS_CardinalityType, FS_EmptySet
  <1> QED
    BY <1>1, <1>3, <1>4

LEMMA RecoveredBelow == RecoveredAt \in Nat /\ RecoveredAt < MaxConnections
  BY EgressAssumption DEF RecoveredAt
-----------------------------------------------------------------------------
\* The inductive invariant: SlotsReturned on `In`, and what `saturated`
\* remembers of the count since the last line.
Counts == /\ accepted = Cardinality(In(pc, Accepted))
          /\ open = Cardinality(In(pc, Open))

Lows == /\ low <= accepted
        /\ saturated => low >= 0
        /\ ~saturated => low < RecoveredAt
        /\ saturated /\ low < RecoveredAt => accepted < RecoveredAt

EgressInv == TypeOK /\ Counts /\ Lows

LEMMA EgressInvInit == EgressInit => EgressInv
  <1> SUFFICES ASSUME EgressInit PROVE EgressInv
    OBVIOUS
  <1>1. In(pc, Accepted) = {} /\ In(pc, Open) = {}
    BY DEF EgressInit, In, Accepted, Open
  <1>2. Counts
    BY <1>1, FS_EmptySet DEF EgressInit, Counts
  <1>3. -1 \in -1..MaxConnections /\ 0 \in 0..MaxConnections
    BY EgressAssumption
  <1>4. TypeOK
    BY <1>3 DEF EgressInit, TypeOK, Pcs
  <1>5. Lows
    BY RecoveredBelow DEF EgressInit, Lows
  <1> QED
    BY <1>2, <1>4, <1>5 DEF EgressInv

\* What is known of the client stays of its type, wherever the connection goes.
LEMMA GotoTyped ==
    ASSUME TypeOK, NEW c \in Clients, NEW at \in Pcs, Goto(c, at)
    PROVE  client' \in [Clients -> {"here", "half", "gone"}]
  BY DEF Goto, TypeOK

\* A step of one connection that neither count is about.
LEMMA Unmoved ==
    ASSUME TypeOK, Counts, Lows, NEW c \in Clients, NEW at \in Pcs, Goto(c, at),
           pc[c] \in Accepted <=> at \in Accepted, pc[c] \in Open <=> at \in Open,
           UNCHANGED <<accepted, open, saturated, low>>
    PROVE  Counts' /\ Lows'
  <1>1. pc \in [Clients -> Pcs]
    BY DEF TypeOK
  <1>2. In(pc', Accepted) = In(pc, Accepted) /\ In(pc', Open) = In(pc, Open)
    BY <1>1, MoveWithin DEF Goto
  <1> QED
    BY <1>2 DEF Counts, Lows, RecoveredAt

\* handle's finally, of a connection whose tunnel, if any, is counted no more.
LEMMA LeaveKeeps ==
    ASSUME TypeOK, Counts, Lows, NEW c \in Clients,
           pc[c] \in Accepted, pc[c] \notin Open, Leave(c)
    PROVE  /\ Counts' /\ Lows'
           /\ pc' \in [Clients -> Pcs] /\ accepted' \in 0..MaxConnections /\ open' \in Nat
           /\ saturated' \in BOOLEAN /\ low' \in -1..MaxConnections
           /\ client' \in [Clients -> {"here", "half", "gone"}]
  <1>0. client' \in [Clients -> {"here", "half", "gone"}]
    BY GotoTyped DEF Leave, Pcs
  <1>1. pc \in [Clients -> Pcs] /\ "closing" \in Pcs
    BY DEF TypeOK, Pcs
  <1>2. pc' = [pc EXCEPT ![c] = "closing"]
    BY DEF Leave, Goto
  <1>3. /\ Cardinality(In(pc', Accepted)) = Cardinality(In(pc, Accepted)) - 1
        /\ Cardinality(In(pc, Accepted)) \in Nat \ {0}
    BY <1>1, <1>2, MoveOut DEF Accepted
  <1>4. In(pc', Open) = In(pc, Open)
    BY <1>1, <1>2, MoveWithin DEF Open
  <1>5. accepted' = accepted - 1 /\ accepted \in Nat \ {0} /\ open' = open
    BY <1>3 DEF Leave, Counts
  <1>6. Counts'
    BY <1>3, <1>4, <1>5 DEF Counts
  <1>7. accepted' \in 0..MaxConnections /\ low' \in -1..MaxConnections
    BY <1>5, EgressAssumption DEF TypeOK, Leave, Least
  <1>8. low' = Least(low, accepted') /\ saturated' = saturated /\ RecoveredAt' = RecoveredAt
    BY DEF Leave, RecoveredAt
  <1>9. Lows'
    BY <1>5, <1>7, <1>8, RecoveredBelow DEF Lows, TypeOK, Least
  <1> QED
    BY <1>0, <1>1, <1>2, <1>5, <1>6, <1>7, <1>8, <1>9 DEF TypeOK

\* _serve's finally: the tunnel alone is counted no more.
LEMMA HangUpKeeps ==
    ASSUME TypeOK, Counts, Lows, NEW c \in Clients, pc[c] \in Open, HangUp(c)
    PROVE  Counts' /\ Lows' /\ open' \in Nat
  <1>1. pc \in [Clients -> Pcs] /\ "hanging_up" \in Pcs
    BY DEF TypeOK, Pcs, Accepted
  <1>2. pc' = [pc EXCEPT ![c] = "hanging_up"]
    BY DEF HangUp, Goto
  <1>3. In(pc', Accepted) = In(pc, Accepted)
    BY <1>1, <1>2, MoveWithin DEF Accepted, Open
  <1>4. /\ Cardinality(In(pc', Open)) = Cardinality(In(pc, Open)) - 1
        /\ Cardinality(In(pc, Open)) \in Nat \ {0}
    BY <1>1, <1>2, MoveOut DEF Open
  <1>5. Counts' /\ open' \in Nat
    BY <1>3, <1>4 DEF Counts, HangUp
  <1>6. Lows'
    BY DEF Lows, HangUp, RecoveredAt
  <1> QED
    BY <1>5, <1>6

LEMMA EgressInvNext == EgressInv /\ [EgressNext]_egressVars => EgressInv'
  <1> SUFFICES ASSUME EgressInv, [EgressNext]_egressVars PROVE EgressInv'
    OBVIOUS
  <1> USE DEF EgressInv
  <1>1. CASE Stop
    BY <1>1 DEF Stop, TypeOK, Counts, Lows, In, task, count, RecoveredAt
  <1>2. CASE Cancel
    <2>1. pc \in [Clients -> Pcs] /\ pc' = [c \in Clients |-> Cancelled(pc[c])]
      BY <1>2 DEF Cancel, TypeOK
    <2>2. \A at \in Pcs : /\ Cancelled(at) \in Pcs /\ Cancelled(at) \notin Open
                          /\ Cancelled(at) \in Accepted <=> at \in Open
      BY DEF Cancelled, Pcs, Accepted, Open
    <2>3. In(pc', Accepted) = In(pc, Open) /\ In(pc', Open) = {}
      <3>1. \A c \in Clients : pc[c] \in Pcs /\ pc'[c] = Cancelled(pc[c])
        BY <2>1
      <3>2. \A c \in Clients : pc'[c] \notin Open /\ (pc'[c] \in Accepted <=> pc[c] \in Open)
        BY <2>2, <3>1
      <3> QED
        BY <3>2 DEF In
    <2>4. accepted' = open /\ open' = 0 /\ low' = Least(low, accepted')
      BY <1>2 DEF Cancel
    <2>5. Counts'
      BY <2>3, <2>4, FS_EmptySet DEF Counts
    <2>6. open <= accepted
      <3>1. In(pc, Open) \in SUBSET In(pc, Accepted) /\ IsFiniteSet(In(pc, Accepted))
        BY EgressAssumption, FS_Subset DEF In, Open, Accepted
      <3> QED
        BY <3>1, FS_Subset DEF Counts
    <2>7. accepted' \in 0..MaxConnections /\ low' \in -1..MaxConnections
      BY <2>4, <2>6, EgressAssumption DEF TypeOK, Least
    <2>8. TypeOK'
      <3>1. pc' \in [Clients -> Pcs]
        BY <2>1, <2>2
      <3> QED
        BY <1>2, <2>4, <2>7, <3>1 DEF Cancel, TypeOK
    <2>9. Lows'
      BY <1>2, <2>4, <2>6, <2>7, RecoveredBelow DEF Cancel, Lows, Least, TypeOK, RecoveredAt
    <2> QED
      BY <2>5, <2>8, <2>9
  <1>22. CASE Exit
    BY <1>22 DEF Exit, TypeOK, Counts, Lows, In, task, count, RecoveredAt
  <1>3. ASSUME NEW c \in Clients, Connect(c) PROVE EgressInv'
    <2> USE <1>3
    <2>0. pc \in [Clients -> Pcs] /\ pc[c] = "away"
      BY DEF Connect, TypeOK
    <2>1. CASE TurnAway(c)
      <3>1. pc' = [pc EXCEPT ![c] = "turned_away"] /\ "turned_away" \in Pcs
        BY <2>1 DEF TurnAway, Goto, Pcs
      <3>2. In(pc', Accepted) = In(pc, Accepted) /\ In(pc', Open) = In(pc, Open)
        BY <2>0, <3>1, MoveWithin DEF Accepted, Open
      <3>3. Counts'
        BY <2>1, <3>2 DEF TurnAway, Counts
      <3>4. TypeOK'
        BY <1>3, <2>1, <3>1, GotoTyped DEF TurnAway, Connect, TypeOK
      <3>5. Lows'
        BY <2>1, RecoveredBelow DEF TurnAway, Lows, TypeOK, RecoveredAt
      <3> QED
        BY <3>3, <3>4, <3>5
    <2>2. CASE TakeOn(c)
      <3>1. pc' = [pc EXCEPT ![c] = "reading"] /\ "reading" \in Pcs
        BY <2>2 DEF TakeOn, Goto, Pcs, Accepted
      <3>2. Cardinality(In(pc', Accepted)) = Cardinality(In(pc, Accepted)) + 1
        BY <2>0, <3>1, MoveIn DEF Accepted
      <3>3. In(pc', Open) = In(pc, Open)
        BY <2>0, <3>1, MoveWithin DEF Open
      <3>4. Counts'
        BY <2>2, <3>2, <3>3 DEF TakeOn, Counts
      <3>5. TypeOK'
        BY <2>2, <3>1, EgressAssumption DEF TakeOn, Connect, TypeOK, StillSaturated
      <3>6. /\ accepted' = accepted + 1 /\ low' = low /\ RecoveredAt' = RecoveredAt
            /\ saturated' <=> StillSaturated
        BY <2>2 DEF TakeOn, RecoveredAt
      <3>7. accepted \in Nat /\ low \in Int /\ low <= accepted /\ RecoveredAt \in Nat
        BY RecoveredBelow DEF TypeOK, Lows
      <3>8. CASE accepted >= RecoveredAt
        <4>1. saturated' <=> saturated
          BY <3>6, <3>8 DEF StillSaturated
        <4>2. saturated => ~(low < RecoveredAt)
          BY <3>7, <3>8 DEF Lows
        <4>3. Lows'
          BY <3>6, <3>7, <4>1, <4>2 DEF Lows
        <4> QED
          BY <3>4, <3>5, <4>3
      <3>9. CASE ~(accepted >= RecoveredAt)
        <4>1. ~saturated'
          BY <3>6, <3>9 DEF StillSaturated
        <4>2. low < RecoveredAt
          BY <3>7, <3>9
        <4>3. Lows'
          BY <3>6, <3>7, <4>1, <4>2 DEF Lows
        <4> QED
          BY <3>4, <3>5, <4>3
      <3> QED
        BY <3>8, <3>9
    <2> QED
      BY <2>1, <2>2 DEF Connect
  <1>4. ASSUME NEW c \in Clients, Asked(c) PROVE EgressInv'
    <2> USE <1>4
    <2>1. TypeOK'
      BY DEF Asked, TypeOK, Goto, Pcs, Accepted, count, Targets
    <2>2. \E at \in Pcs : Goto(c, at) /\ (pc[c] \in Accepted <=> at \in Accepted)
                                     /\ (pc[c] \in Open <=> at \in Open)
      BY DEF Asked, Pcs, Accepted, Open, Targets
    <2>3. Counts' /\ Lows'
      BY <2>2, Unmoved DEF Asked, count
    <2> QED
      BY <2>1, <2>3
  <1>5. ASSUME NEW c \in Clients, AskedTooLate(c) PROVE EgressInv'
    <2> USE <1>5
    <2>1. TypeOK'
      BY DEF AskedTooLate, TypeOK, Goto, Pcs, Accepted, count
    <2>2. \E at \in Pcs : Goto(c, at) /\ (pc[c] \in Accepted <=> at \in Accepted)
                                     /\ (pc[c] \in Open <=> at \in Open)
      BY DEF AskedTooLate, Pcs, Accepted, Open
    <2>3. Counts' /\ Lows'
      BY <2>2, Unmoved DEF AskedTooLate, count
    <2> QED
      BY <2>1, <2>3
  <1>6. ASSUME NEW c \in Clients, AskedHalf(c) PROVE EgressInv'
    <2>1. pc[c] \in Accepted /\ pc[c] \notin Open /\ Leave(c)
      BY <1>6 DEF AskedHalf, Accepted, Open
    <2> QED
      BY <1>6, <2>1, LeaveKeeps DEF AskedHalf, TypeOK
  <1>7. ASSUME NEW c \in Clients, Reached(c) PROVE EgressInv'
    <2>1. pc \in [Clients -> Pcs] /\ pc[c] = "connecting" /\ "greeting" \in Pcs
      BY <1>7 DEF Reached, TypeOK, Pcs, Accepted
    <2>2. pc' = [pc EXCEPT ![c] = "greeting"]
      BY <1>7 DEF Reached, Goto
    <2>3. In(pc', Accepted) = In(pc, Accepted)
      BY <2>1, <2>2, MoveWithin DEF Accepted
    <2>4. Cardinality(In(pc', Open)) = Cardinality(In(pc, Open)) + 1
      BY <2>1, <2>2, MoveIn DEF Open
    <2>5. Counts'
      BY <1>7, <2>3, <2>4 DEF Reached, Counts
    <2>6. TypeOK'
      BY <1>7, <2>1, <2>2, GotoTyped DEF Reached, TypeOK
    <2>7. Lows'
      BY <1>7 DEF Reached, Lows, RecoveredAt
    <2> QED
      BY <2>5, <2>6, <2>7
  <1>8. ASSUME NEW c \in Clients, NotReached(c) PROVE EgressInv'
    <2> USE <1>8
    <2>1. TypeOK'
      BY DEF NotReached, TypeOK, Goto, Pcs, Accepted, count
    <2>2. \E at \in Pcs : Goto(c, at) /\ (pc[c] \in Accepted <=> at \in Accepted)
                                     /\ (pc[c] \in Open <=> at \in Open)
      BY DEF NotReached, Pcs, Accepted, Open
    <2>3. Counts' /\ Lows'
      BY <2>2, Unmoved DEF NotReached, count
    <2> QED
      BY <2>1, <2>3
  <1>9. ASSUME NEW c \in Clients, Replied(c) PROVE EgressInv'
    <2>1. pc[c] \in Accepted /\ pc[c] \notin Open /\ Leave(c)
      BY <1>9 DEF Replied, Accepted, Open
    <2> QED
      BY <1>9, <2>1, LeaveKeeps DEF Replied, TypeOK
  <1>10. ASSUME NEW c \in Clients, Greeted(c) PROVE EgressInv'
    <2> USE <1>10
    <2>1. TypeOK'
      BY DEF Greeted, TypeOK, Goto, Pcs, Accepted, count
    <2>2. \E at \in Pcs : Goto(c, at) /\ (pc[c] \in Accepted <=> at \in Accepted)
                                     /\ (pc[c] \in Open <=> at \in Open)
      BY DEF Greeted, Pcs, Accepted, Open
    <2>3. Counts' /\ Lows'
      BY <2>2, Unmoved DEF Greeted, count
    <2> QED
      BY <2>1, <2>3
  <1>11. ASSUME NEW c \in Clients, GreetingFails(c) PROVE EgressInv'
    <2>1. pc[c] \in Open /\ HangUp(c)
      BY <1>11 DEF GreetingFails, Open
    <2>2. Counts' /\ Lows' /\ open' \in Nat
      BY <2>1, HangUpKeeps
    <2> QED
      BY <1>11, <2>1, <2>2 DEF GreetingFails, HangUp, Goto, TypeOK, Pcs, Accepted
  <1>12. ASSUME NEW c \in Clients, PassEnd(c) PROVE EgressInv'
    BY <1>12 DEF PassEnd, TypeOK, Counts, Lows, In, task, count, RecoveredAt
  <1>23. ASSUME NEW c \in Clients, PassRequest(c) PROVE EgressInv'
    BY <1>23 DEF PassRequest, TypeOK, Counts, Lows, In, task, count, RecoveredAt
  <1>24. ASSUME NEW c \in Clients, ClientReads(c) PROVE EgressInv'
    BY <1>24 DEF ClientReads, TypeOK, Counts, Lows, In, task, count, RecoveredAt
  <1>25. ASSUME NEW c \in Clients, HostReads(c) PROVE EgressInv'
    BY <1>25 DEF HostReads, TypeOK, Counts, Lows, In, task, count, RecoveredAt
  <1>13. ASSUME NEW c \in Clients, PassAnswer(c) PROVE EgressInv'
    BY <1>13 DEF PassAnswer, TypeOK, Counts, Lows, In, task, count, RecoveredAt
  <1>14. ASSUME NEW c \in Clients, EndTunnel(c) PROVE EgressInv'
    <2>1. pc[c] \in Open /\ HangUp(c)
      BY <1>14 DEF EndTunnel, Open
    <2>2. Counts' /\ Lows' /\ open' \in Nat
      BY <2>1, HangUpKeeps
    <2> QED
      BY <1>14, <2>1, <2>2 DEF EndTunnel, HangUp, Goto, TypeOK, Pcs, Accepted
  <1>15. ASSUME NEW c \in Clients, HungUp(c) PROVE EgressInv'
    <2>1. pc[c] \in Accepted /\ pc[c] \notin Open /\ Leave(c)
      BY <1>15 DEF HungUp, Accepted, Open
    <2> QED
      BY <1>15, <2>1, LeaveKeeps DEF HungUp, TypeOK
  <1>16. ASSUME NEW c \in Clients, Closed(c) PROVE EgressInv'
    <2> USE <1>16
    <2>1. TypeOK'
      BY DEF Closed, TypeOK, Goto, Pcs, Accepted, count
    <2>2. \E at \in Pcs : Goto(c, at) /\ (pc[c] \in Accepted <=> at \in Accepted)
                                     /\ (pc[c] \in Open <=> at \in Open)
      BY DEF Closed, Pcs, Accepted, Open
    <2>3. Counts' /\ Lows'
      BY <2>2, Unmoved DEF Closed, count
    <2> QED
      BY <2>1, <2>3
  <1>17. ASSUME NEW c \in Clients, HalfCloses(c) PROVE EgressInv'
    BY <1>17 DEF HalfCloses, TypeOK, Counts, Lows, In, task, count, RecoveredAt
  <1>18. ASSUME NEW c \in Clients, Goes(c) PROVE EgressInv'
    BY <1>18 DEF Goes, TypeOK, Counts, Lows, In, task, count, RecoveredAt
  <1>19. ASSUME NEW c \in Clients, HostAnswers(c) PROVE EgressInv'
    BY <1>19 DEF HostAnswers, TypeOK, Counts, Lows, In, task, count, RecoveredAt
  <1>20. ASSUME NEW c \in Clients, HostFails(c) PROVE EgressInv'
    BY <1>20 DEF HostFails, TypeOK, Counts, Lows, In, task, count, RecoveredAt
  <1>21. CASE UNCHANGED egressVars
    BY <1>21 DEF egressVars, task, count, TypeOK, Counts, Lows, In, RecoveredAt
  <1> QED
    BY <1>1, <1>2, <1>3, <1>4, <1>5, <1>6, <1>7, <1>8, <1>9, <1>10, <1>11, <1>12, <1>13,
       <1>14, <1>15, <1>16, <1>17, <1>18, <1>19, <1>20, <1>21, <1>22, <1>23, <1>24, <1>25
    DEF EgressNext, Serve

\* Types, counts and what is logged, in every reachable state of the proxy.
THEOREM EgressInvariance == EgressSpec => []EgressInv
  BY EgressInvInit, EgressInvNext, PTL DEF EgressSpec

\* Each count is of the connections it stands for, whichever way each ended,
\* for any number of clients and any ceilings (Proxy.handle, ._serve).
THEOREM SlotsAreReturned == EgressSpec => []SlotsReturned
  <1>1. EgressInv => SlotsReturned
    BY DEF EgressInv, TypeOK, Counts, In, SlotsReturned
  <1> QED
    BY <1>1, EgressInvariance, PTL

\* A saturation is logged once an episode and every episode is logged.
THEOREM EpisodesAreLogged == EgressSpec => []EpisodesLogged
  <1>1. ASSUME EgressInv, accepted >= MaxConnections PROVE ~saturated <=> low < RecoveredAt
    <2>1. ~(accepted < RecoveredAt)
      BY <1>1, RecoveredBelow, EgressAssumption DEF EgressInv, TypeOK
    <2> QED
      BY <1>1, <2>1 DEF EgressInv, Lows
  <1>2. EgressInv => EpisodesLogged
    BY <1>1 DEF EpisodesLogged
  <1> QED
    BY <1>2, EgressInvariance, PTL
-----------------------------------------------------------------------------
(* The ledger *)

\* Sequence `s` names nobody twice, and whoever comes later in it was written later, as `h` says.
Written(s, h) == \A k, l \in DOMAIN s : k < l => s[k] # s[l] /\ s[l] \in h[s[k]]

\* The keys are in the order of their writes, and whoever is not among them saw Limit others
\* written since.
QueueInv ==
    /\ queue \in Seq(Ids) /\ Len(queue) <= Limit
    /\ Known \subseteq DOMAIN since /\ DOMAIN since \subseteq Ids
    /\ \A i \in DOMAIN since : since[i] \subseteq Ids
    /\ Written(queue, since)
    /\ \A i \in DOMAIN since \ Known : Cardinality(since[i]) >= Limit

\* Runs are numbered.
RunsCounted == clock \in Nat /\ started \in [Ids -> Nat]

\* What a sequence names, by place.
LEMMA NamedBy ==
    ASSUME NEW s \in Seq(Ids)
    PROVE  /\ Len(s) \in Nat /\ DOMAIN s = 1..Len(s) /\ ToSet(s) \subseteq Ids
           /\ \A k \in 1..Len(s) : s[k] \in Ids /\ s[k] \in ToSet(s)
           /\ \A i \in ToSet(s) : \E k \in 1..Len(s) : s[k] = i
  <1>1. Len(s) \in Nat /\ DOMAIN s = 1..Len(s) /\ s \in [1..Len(s) -> Ids]
    BY LenProperties
  <1> QED BY <1>1 DEF ToSet

\* Limit keys in a row, each written after `i`, are Limit others.
LEMMA ManyWritten ==
    ASSUME NEW s \in Seq(Ids), Len(s) = Limit, NEW W \in SUBSET Ids,
           \A k \in DOMAIN s : s[k] \in W, \A k, l \in DOMAIN s : k < l => s[k] # s[l]
    PROVE  Cardinality(W) >= Limit
  <1>1. Limit \in Nat /\ DOMAIN s = 1..Limit /\ IsFiniteSet(W)
    BY NamedBy, LedgerAssumption, FS_Subset
  <1>2. s \in [1..Limit -> W]
    BY <1>1, LenProperties
  <1>3. \A k, l \in 1..Limit : s[k] = s[l] => k = l
    BY <1>1
  <1>4. s \in Injection(1..Limit, W)
    BY <1>2, <1>3 DEF Injection, IsInjective
  <1>5. Cardinality(1..Limit) <= Cardinality(W)
    BY <1>1, <1>4, FS_Injection
  <1>6. Cardinality(1..Limit) = Limit /\ Cardinality(W) \in Nat
    BY <1>1, FS_Interval, FS_CardinalityType, LedgerAssumption
  <1> QED BY <1>1, <1>5, <1>6

\* A key taken out leaves the others in their order.
LEMMA WithoutKeeps ==
    ASSUME NEW s \in Seq(Ids), NEW i \in Ids, \A k, l \in DOMAIN s : k < l => s[k] # s[l]
    PROVE  /\ Without(s, i) \in Seq(Ids) /\ Len(Without(s, i)) <= Len(s)
           /\ ToSet(Without(s, i)) = ToSet(s) \ {i}
           /\ \A h : Written(s, h) => Written(Without(s, i), h)
  <1>1. CASE i \notin ToSet(s)
    BY <1>1, NamedBy DEF Without
  <1>2. CASE i \in ToSet(s)
    <2> DEFINE d == CHOOSE k \in DOMAIN s : s[k] = i
               n == Len(s)
               q == Without(s, i)
    <2>1. n \in Nat /\ DOMAIN s = 1..n /\ d \in 1..n /\ s[d] = i /\ \A k \in 1..n : s[k] \in Ids
      <3>1. \E k \in DOMAIN s : s[k] = i
        BY <1>2, NamedBy
      <3>2. d \in DOMAIN s /\ s[d] = i
        BY <3>1
      <3> QED BY <3>2, NamedBy
    <2>2. q = SubSeq(s, 1, d - 1) \o SubSeq(s, d + 1, n)
      BY <1>2 DEF Without, RemoveAt
    <2> HIDE DEF d, n, q
    <2>3. /\ SubSeq(s, 1, d - 1) \in Seq(Ids) /\ Len(SubSeq(s, 1, d - 1)) = d - 1
          /\ \A k \in 1..d - 1 : SubSeq(s, 1, d - 1)[k] = s[k]
      <3>1. /\ SubSeq(s, 1, d - 1) \in Seq(Ids)
            /\ Len(SubSeq(s, 1, d - 1)) = IF 1 <= d - 1 THEN d - 1 - 1 + 1 ELSE 0
            /\ \A k \in 1..d - 1 - 1 + 1 : SubSeq(s, 1, d - 1)[k] = s[1 + k - 1]
        BY <2>1, SubSeqProperties
      <3>2. d - 1 - 1 + 1 = d - 1 /\ (d - 1 < 1 => d - 1 = 0) /\ \A k \in 1..d - 1 : 1 + k - 1 = k
        BY <2>1
      <3>3. Len(SubSeq(s, 1, d - 1)) = d - 1
        BY <2>1, <3>1
      <3> QED BY <3>1, <3>2, <3>3
    <2>4. /\ SubSeq(s, d + 1, n) \in Seq(Ids) /\ Len(SubSeq(s, d + 1, n)) = n - d
          /\ \A k \in 1..n - d : SubSeq(s, d + 1, n)[k] = s[d + k]
      <3>1. \A k \in d + 1..n : s[k] \in Ids
        BY <2>1
      <3>2. /\ SubSeq(s, d + 1, n) \in Seq(Ids)
            /\ Len(SubSeq(s, d + 1, n)) = IF d + 1 <= n THEN n - (d + 1) + 1 ELSE 0
            /\ \A k \in 1..n - (d + 1) + 1 : SubSeq(s, d + 1, n)[k] = s[d + 1 + k - 1]
        BY <2>1, <3>1, SubSeqProperties
      <3>3. n - (d + 1) + 1 = n - d /\ (~(d + 1 <= n) => n - d = 0)
            /\ \A k \in 1..n - d : d + 1 + k - 1 = d + k
        BY <2>1
      <3>4. Len(SubSeq(s, d + 1, n)) = n - d
        BY <3>2, <3>3
      <3> QED BY <3>2, <3>3, <3>4
    <2>5. /\ q \in Seq(Ids) /\ Len(q) = n - 1 /\ DOMAIN q = 1..n - 1
          /\ \A k \in 1..n - 1 : q[k] = IF k < d THEN s[k] ELSE s[k + 1]
      <3>1. q \in Seq(Ids) /\ Len(q) = n - 1
        BY <2>1, <2>2, <2>3, <2>4, ConcatProperties
      <3>2. \A k \in 1..n - 1 : q[k] = IF k <= d - 1 THEN SubSeq(s, 1, d - 1)[k]
                                       ELSE SubSeq(s, d + 1, n)[k - (d - 1)]
        <4> DEFINE a == SubSeq(s, 1, d - 1)
                   b == SubSeq(s, d + 1, n)
        <4>1. /\ a \in Seq(Ids) /\ b \in Seq(Ids) /\ q = a \o b
              /\ Len(a) = d - 1 /\ Len(b) = n - d /\ (d - 1) + (n - d) = n - 1
          BY <2>1, <2>2, <2>3, <2>4
        <4> HIDE DEF a, b
        <4>2. \A k \in 1..Len(a) + Len(b) : q[k] = IF k <= Len(a) THEN a[k] ELSE b[k - Len(a)]
          BY <4>1, ConcatProperties
        <4> QED BY <4>1, <4>2 DEF a, b
      <3> QED BY <2>1, <2>3, <2>4, <3>1, <3>2, LenProperties
    <2>6. ToSet(q) = ToSet(s) \ {i}
      <3>1. ASSUME NEW k \in 1..n - 1 PROVE q[k] \in ToSet(s) \ {i}
        <4>1. \E l \in 1..n : l # d /\ q[k] = s[l]
          BY <2>1, <2>5
        <4>2. \A l \in 1..n : l # d => s[l] # i
          <5> SUFFICES ASSUME NEW l \in 1..n, l # d PROVE s[l] # i
            OBVIOUS
          <5>1. l < d \/ d < l
            BY <2>1
          <5> QED BY <2>1, <5>1
        <4> QED BY <2>1, <4>1, <4>2 DEF ToSet
      <3>2. ASSUME NEW k \in 1..n, s[k] # i PROVE \E l \in 1..n - 1 : q[l] = s[k]
        <4>1. CASE k < d
          BY <2>1, <2>5, <4>1
        <4>2. CASE k > d
          <5>1. k - 1 \in 1..n - 1 /\ q[k - 1] = s[k]
            BY <2>1, <2>5, <4>2
          <5> QED BY <5>1
        <4> QED BY <2>1, <3>2, <4>1, <4>2
      <3>3. ToSet(q) = {q[k] : k \in 1..n - 1} /\ ToSet(s) = {s[k] : k \in 1..n}
        BY <2>1, <2>5 DEF ToSet
      <3> QED BY <3>1, <3>2, <3>3
    <2>7. ASSUME NEW h, Written(s, h) PROVE Written(q, h)
      <3> SUFFICES ASSUME NEW k \in 1..n - 1, NEW l \in 1..n - 1, k < l
                   PROVE  q[k] # q[l] /\ q[l] \in h[q[k]]
        BY <2>5 DEF Written
      <3>1. PICK a \in 1..n, b \in 1..n : a < b /\ q[k] = s[a] /\ q[l] = s[b]
        <4> DEFINE a == IF k < d THEN k ELSE k + 1
                   b == IF l < d THEN l ELSE l + 1
        <4>1. a \in 1..n /\ b \in 1..n /\ a < b /\ q[k] = s[a] /\ q[l] = s[b]
          BY <2>1, <2>5
        <4> QED BY <4>1
      <3> QED BY <2>1, <2>7, <3>1 DEF Written
    <2>8. Len(q) <= n
      BY <2>1, <2>5
    <2> QED BY <2>5, <2>6, <2>7, <2>8 DEF q, n
  <1> QED BY <1>1, <1>2

\* A write keeps the order, and whom it evicts is the one longest not written.
LEMMA PutKeeps == ASSUME QueueInv, NEW i \in Ids, NEW e, Put(i, e) PROVE QueueInv'
  <1> DEFINE p == Without(queue, i)
             q == Append(p, i)
             n == Len(p)
  <1>1. /\ p \in Seq(Ids) /\ n <= Len(queue) /\ ToSet(p) = Known \ {i} /\ Written(p, since)
    <2>1. \A k, l \in DOMAIN queue : k < l => queue[k] # queue[l]
      BY DEF QueueInv, Written
    <2> QED BY <2>1, WithoutKeeps DEF QueueInv, Known
  <1>2. Limit \in Nat \ {0} /\ Len(queue) \in Nat /\ Len(queue) <= Limit /\ n \in Nat
    BY <1>1, LedgerAssumption, LenProperties DEF QueueInv
  <1>11. queue' = Trim(q)
    BY DEF Put
  <1>3. /\ DOMAIN since' = DOMAIN since \cup {i}
        /\ since'[i] = {} /\ \A j \in DOMAIN since \ {i} : since'[j] = since[j] \cup {i}
    BY DEF Put
  <1> HIDE DEF p
  <1>4. /\ q \in Seq(Ids) /\ Len(q) = n + 1 /\ DOMAIN q = 1..n + 1 /\ q[n + 1] = i /\ DOMAIN p = 1..n
        /\ \A k \in 1..n : q[k] = p[k] /\ p[k] \in Known \ {i}
    BY <1>1, AppendProperties, LenProperties, NamedBy
  <1> HIDE DEF q
  <1>5. Written(q, since')
    <2> SUFFICES ASSUME NEW k \in 1..n + 1, NEW l \in 1..n + 1, k < l
                 PROVE  q[k] # q[l] /\ q[l] \in since'[q[k]]
      BY <1>4 DEF Written
    <2>1. k \in 1..n /\ q[k] \in DOMAIN since \ {i}
      BY <1>2, <1>4 DEF QueueInv
    <2>2. since'[q[k]] = since[q[k]] \cup {i}
      BY <1>3, <2>1
    <2>3. CASE l = n + 1
      BY <1>4, <2>1, <2>2, <2>3
    <2>4. CASE l \in 1..n
      BY <1>1, <1>4, <2>1, <2>2, <2>4 DEF Written
    <2> QED BY <1>2, <2>3, <2>4
  <1>6. /\ \A j \in DOMAIN since' : since'[j] \subseteq Ids
        /\ DOMAIN since' \subseteq Ids /\ Known \cup {i} \subseteq DOMAIN since'
    <2>1. \A j \in DOMAIN since' : since'[j] = {} \/ (j \in DOMAIN since /\ since'[j] = since[j] \cup {i})
      BY <1>3
    <2> QED BY <1>3, <2>1 DEF QueueInv
  <1>7. ToSet(q) = (Known \cup {i})
    <2>1. \A j : j \in ToSet(q) <=> \E k \in 1..n + 1 : q[k] = j
      BY <1>4 DEF ToSet
    <2>2. \A j \in Known \ {i} : \E k \in 1..n : p[k] = j
      BY <1>1, NamedBy
    <2> QED BY <1>2, <1>4, <2>1, <2>2
  <1>8. ASSUME NEW j \in DOMAIN since' \ (Known \cup {i}) PROVE Cardinality(since'[j]) >= Limit
    <2>1. j \in DOMAIN since \ Known /\ since'[j] = since[j] \cup {i}
      BY <1>3
    <2>2. Cardinality(since[j]) >= Limit
      BY <2>1 DEF QueueInv
    <2>3. since[j] \subseteq since'[j] /\ IsFiniteSet(since'[j])
      BY <1>6, <2>1, LedgerAssumption, FS_Subset
    <2>4. Cardinality(since[j]) <= Cardinality(since'[j]) /\ Cardinality(since[j]) \in Nat
          /\ Cardinality(since'[j]) \in Nat
      BY <2>3, FS_Subset, FS_CardinalityType
    <2> QED BY <1>2, <2>2, <2>4
  <1>9. CASE Len(q) <= Limit
    <2>1. queue' = q
      BY <1>11, <1>2, <1>4, <1>9 DEF Trim
    <2> QED BY <1>4, <1>5, <1>6, <1>7, <1>8, <1>9, <2>1 DEF QueueInv, Known
  <1>10. CASE Len(q) > Limit
    <2>1. queue' = Tail(q) /\ n = Limit
      <3>1. queue' = Tail(q)
        BY <1>11, <1>10 DEF Trim
      <3>2. n <= Limit
        BY <1>1, <1>2
      <3>3. n + 1 > Limit
        BY <1>4, <1>10
      <3>4. n = Limit
        BY <1>2, <3>2, <3>3
      <3> QED BY <3>1, <3>4
    <2>2. /\ queue' \in Seq(Ids) /\ Len(queue') = Limit /\ DOMAIN queue' = 1..Limit
          /\ \A k \in 1..Limit : queue'[k] = q[k + 1]
      <3>1. q # <<>>
        BY <1>2, <1>4
      <3>2. /\ Tail(q) \in Seq(Ids) /\ Len(Tail(q)) = Len(q) - 1
            /\ \A k \in 1..Len(Tail(q)) : Tail(q)[k] = q[k + 1]
        BY <1>4, <3>1, HeadTailProperties
      <3> QED BY <1>2, <1>4, <2>1, <3>2, LenProperties
    <2>3. Written(queue', since')
      <3> SUFFICES ASSUME NEW k \in 1..Limit, NEW l \in 1..Limit, k < l
                   PROVE  queue'[k] # queue'[l] /\ queue'[l] \in since'[queue'[k]]
        BY <2>2 DEF Written
      <3>1. k + 1 \in 1..n + 1 /\ l + 1 \in 1..n + 1 /\ k + 1 < l + 1
        BY <1>2, <2>1
      <3>2. q[k + 1] # q[l + 1] /\ q[l + 1] \in since'[q[k + 1]]
        BY <1>4, <1>5, <3>1 DEF Written
      <3> QED BY <2>2, <3>2
    <2>4. ToSet(q) = {q[1]} \cup ToSet(queue')
      <3>1. \A j : j \in ToSet(q) <=> \E k \in 1..n + 1 : q[k] = j
        BY <1>4 DEF ToSet
      <3>2. \A j : j \in ToSet(queue') <=> \E k \in 1..Limit : q[k + 1] = j
        BY <2>2 DEF ToSet
      <3>3. \A k \in 1..n + 1 : k = 1 \/ (k - 1 \in 1..Limit /\ q[(k - 1) + 1] = q[k])
        BY <1>2, <2>1
      <3>4. \A k \in 1..Limit : k + 1 \in 1..n + 1
        BY <1>2, <2>1
      <3>5. 1 \in 1..n + 1
        BY <1>2
      <3> QED BY <3>1, <3>2, <3>3, <3>4, <3>5
    <2>5. Cardinality(since'[q[1]]) >= Limit
      <3>1. q[1] \in ToSet(q) /\ 1 \in DOMAIN q
        BY <1>2, <1>4 DEF ToSet
      <3>2. since'[q[1]] \in SUBSET Ids
        BY <1>6, <1>7, <3>1
      <3>3. \A k \in DOMAIN queue' : queue'[k] \in since'[q[1]]
        <4> SUFFICES ASSUME NEW k \in 1..Limit PROVE q[k + 1] \in since'[q[1]]
          BY <2>2
        <4>1. k + 1 \in DOMAIN q /\ 1 < k + 1
          BY <1>2, <1>4, <2>1
        <4> QED BY <1>5, <3>1, <4>1 DEF Written
      <3>4. \A k, l \in DOMAIN queue' : k < l => queue'[k] # queue'[l]
        BY <2>3 DEF Written
      <3> QED BY <2>2, <3>2, <3>3, <3>4, ManyWritten
    <2>6. \A j \in DOMAIN since' \ Known' : Cardinality(since'[j]) >= Limit
      BY <1>7, <1>8, <2>4, <2>5 DEF Known
    <2>7. Known' \subseteq DOMAIN since'
      BY <1>6, <1>7, <2>4 DEF Known
    <2>8. Len(queue') <= Limit
      BY <1>2, <2>2
    <2> QED BY <1>6, <2>2, <2>3, <2>6, <2>7, <2>8 DEF QueueInv
  <1> QED BY <1>2, <1>4, <1>9, <1>10

\* A key forgotten is not missed.
LEMMA ForgetKeeps == ASSUME QueueInv, NEW i \in Ids, Forget(i) PROVE QueueInv'
  <1>1. /\ queue' \in Seq(Ids) /\ Len(queue') <= Len(queue) /\ Known' = Known \ {i} /\ Written(queue', since)
    <2>1. \A k, l \in DOMAIN queue : k < l => queue[k] # queue[l]
      BY DEF QueueInv, Written
    <2> QED BY <2>1, WithoutKeeps DEF QueueInv, Known, Forget
  <1>2. DOMAIN since' = DOMAIN since \ {i} /\ \A j \in DOMAIN since \ {i} : since'[j] = since[j]
    BY DEF Forget
  <1>3. Written(queue', since')
    <2> SUFFICES ASSUME NEW k \in DOMAIN queue', NEW l \in DOMAIN queue', k < l
                 PROVE  queue'[k] # queue'[l] /\ queue'[l] \in since'[queue'[k]]
      BY DEF Written
    <2>1. queue'[k] \in Known'
      BY <1>1, NamedBy DEF Known
    <2>2. since'[queue'[k]] = since[queue'[k]]
      BY <1>1, <1>2, <2>1 DEF QueueInv
    <2> QED BY <1>1, <2>2 DEF Written
  <1>4. Len(queue') <= Limit
    <2>1. Len(queue') \in Nat /\ Len(queue) \in Nat /\ Limit \in Nat
      BY <1>1, LenProperties, LedgerAssumption DEF QueueInv
    <2> QED BY <1>1, <2>1 DEF QueueInv
  <1> QED BY <1>1, <1>2, <1>3, <1>4 DEF QueueInv

\* The next process's seed is in the order of the runs before it.
LEMMA SeedKeeps == ASSUME QueueInv, RunsCounted, Restart PROVE QueueInv'
  <1> DEFINE recent == {i \in Ids : started[i] > 0 /\
                           Cardinality({j \in Ids : started[j] > started[i]}) < SeedLimit}
             n == Cardinality(recent)
             m == IF n > Limit THEN n - Limit ELSE 0
  <1>1. IsFiniteSet(recent) /\ n \in Nat /\ recent \subseteq Ids /\ Limit \in Nat \ {0}
    BY LedgerAssumption, FS_Subset, FS_CardinalityType
  <1>2. PICK seed \in [1..n -> recent] :
          /\ SeedOrder(seed, recent)
          /\ queue' = SubSeq(seed, m + 1, n)
          /\ since' = [i \in recent |-> {j \in recent : started[j] > started[i]}]
    BY DEF Restart
  <1>3. /\ ToSet(seed) = recent /\ DOMAIN seed = 1..n
        /\ \A k, l \in 1..n : k < l => started[seed[k]] < started[seed[l]]
    BY <1>2 DEF SeedOrder
  <1>4. DOMAIN since' = recent /\ \A i \in recent : since'[i] = {j \in recent : started[j] > started[i]}
    BY <1>2
  <1>5. \A k, l \in 1..n : k < l => seed[l] \in since'[seed[k]] /\ seed[k] # seed[l]
    <2> SUFFICES ASSUME NEW k \in 1..n, NEW l \in 1..n, k < l
                 PROVE  seed[l] \in since'[seed[k]] /\ seed[k] # seed[l]
      OBVIOUS
    <2>1. seed[k] \in recent /\ seed[l] \in recent /\ started[seed[k]] < started[seed[l]]
      BY <1>2, <1>3
    <2>2. started[seed[k]] \in Nat /\ started[seed[l]] \in Nat
      BY <1>1, <2>1 DEF RunsCounted
    <2>3. started[seed[l]] > started[seed[k]] /\ seed[k] # seed[l]
      BY <2>1, <2>2
    <2> QED BY <1>4, <2>1, <2>3
  <1> HIDE DEF recent
  <1>6. m \in 0..n /\ n - m <= Limit /\ (m > 0 => n - m = Limit)
    BY <1>1
  <1> HIDE DEF n, m
  <1>7. /\ queue' \in Seq(Ids) /\ Len(queue') = n - m /\ DOMAIN queue' = 1..n - m
        /\ \A k \in 1..n - m : queue'[k] = seed[m + k]
    <2>1. \A k \in m + 1..n : seed[k] \in Ids
      BY <1>1, <1>2, <1>6
    <2>2. /\ queue' \in Seq(Ids) /\ Len(queue') = IF m + 1 <= n THEN n - (m + 1) + 1 ELSE 0
          /\ \A k \in 1..n - (m + 1) + 1 : queue'[k] = seed[m + 1 + k - 1]
      BY <1>1, <1>2, <1>6, <2>1, SubSeqProperties
    <2> QED BY <1>1, <1>6, <2>2, LenProperties
  <1>8. Written(queue', since')
    <2> SUFFICES ASSUME NEW k \in 1..n - m, NEW l \in 1..n - m, k < l
                 PROVE  queue'[k] # queue'[l] /\ queue'[l] \in since'[queue'[k]]
      BY <1>7 DEF Written
    <2>1. m + k \in 1..n /\ m + l \in 1..n /\ m + k < m + l
      BY <1>1, <1>6
    <2> QED BY <1>5, <1>7, <2>1
  <1>9. Known' \subseteq recent
    <2>1. \A k \in 1..n - m : seed[m + k] \in recent
      BY <1>1, <1>2, <1>6
    <2> QED BY <1>7, <2>1 DEF Known, ToSet
  <1>10. ASSUME NEW i \in recent \ Known' PROVE Cardinality(since'[i]) >= Limit
    <2>1. PICK a \in 1..n : seed[a] = i
      BY <1>3 DEF ToSet
    <2>2. a <= m
      <3> SUFFICES ASSUME a > m PROVE FALSE
        BY <1>1, <1>6
      <3>1. a - m \in 1..n - m /\ queue'[a - m] = seed[m + (a - m)] /\ m + (a - m) = a
        BY <1>1, <1>6, <1>7
      <3> QED BY <1>7, <1>10, <2>1, <3>1 DEF Known, ToSet
    <2>3. Len(queue') = Limit
      BY <1>1, <1>6, <1>7, <2>2
    <2>4. \A k \in DOMAIN queue' : queue'[k] \in since'[i]
      <3> SUFFICES ASSUME NEW k \in 1..n - m PROVE queue'[k] \in since'[i]
        BY <1>7
      <3>1. m + k \in 1..n /\ a < m + k
        BY <1>1, <1>6, <2>2
      <3> QED BY <1>5, <1>7, <2>1, <3>1
    <2>5. since'[i] \in SUBSET Ids
      BY <1>1, <1>4
    <2>6. \A k, l \in DOMAIN queue' : k < l => queue'[k] # queue'[l]
      BY <1>8 DEF Written
    <2> QED BY <1>7, <2>3, <2>4, <2>5, <2>6, ManyWritten
  <1>11. \A i \in recent : since'[i] \subseteq Ids
    BY <1>1, <1>4
  <1>12. Len(queue') <= Limit
    BY <1>6, <1>7
  <1> QED BY <1>1, <1>4, <1>7, <1>8, <1>9, <1>10, <1>11, <1>12 DEF QueueInv

\* The ledger forgets an issue's history only when Limit others were written after it, whatever
\* runs, refusals, escapes and restarts: class Ledger's promise of its insertion order.
THEOREM LedgerKeepsRecent == LedgerSpec => []KeepsRecentlyRun
  <1>1. LedgerInit => (QueueInv /\ RunsCounted)
    <2> SUFFICES ASSUME LedgerInit PROVE QueueInv /\ RunsCounted
      OBVIOUS
    <2>1. queue = <<>> /\ DOMAIN since = {} /\ Limit \in Nat
      BY LedgerAssumption DEF LedgerInit
    <2>2. queue \in Seq(Ids) /\ Len(queue) = 0 /\ DOMAIN queue = {}
      BY <2>1, EmptySeq
    <2>3. Known = {}
      BY <2>2 DEF Known, ToSet
    <2> QED BY <2>1, <2>2, <2>3 DEF QueueInv, Written, LedgerInit, RunsCounted
  <1>4. RunsCounted /\ [LedgerNext]_ledgerVars => RunsCounted'
    <2> SUFFICES ASSUME RunsCounted, [LedgerNext]_ledgerVars PROVE RunsCounted'
      OBVIOUS
    <2>1. CASE UNCHANGED <<clock, started>>
      BY <2>1 DEF RunsCounted
    <2>2. ASSUME NEW i \in Ids, Dispatched(i) PROVE RunsCounted'
      BY <2>2 DEF Dispatched, RunsCounted
    <2> QED BY <2>1, <2>2 DEF LedgerNext, ledgerVars, RunEnds, RecordEscape, Escalate, Forget, Refused,
                              Observed, Restart
  <1>2. QueueInv /\ RunsCounted /\ [LedgerNext]_ledgerVars => QueueInv'
    <2> SUFFICES ASSUME QueueInv, RunsCounted, [LedgerNext]_ledgerVars PROVE QueueInv'
      OBVIOUS
    <2>1. CASE UNCHANGED <<queue, since>>
      BY <2>1 DEF QueueInv, Known, Written
    <2>2. CASE Restart
      BY <2>2, SeedKeeps
    <2>3. ASSUME NEW i \in Ids, Forget(i) PROVE QueueInv'
      BY <2>3, ForgetKeeps
    <2>4. ASSUME NEW i \in Ids, NEW e, Put(i, e) PROVE QueueInv'
      BY <2>4, PutKeeps
    <2>5. ASSUME NEW i \in Ids,
                 \/ Dispatched(i)
                 \/ \E how \in {"failed", "succeeded", "released"} : RunEnds(i, how)
                 \/ RecordEscape(i) \/ Escalate(i)
                 \/ \E why \in BudgetRefusals : Refused(i, why)
                 \/ \E attempt \in 1..MaxAttempts : Observed(i, attempt)
          PROVE  (\E e : Put(i, e)) \/ UNCHANGED <<queue, since>>
      BY <2>5 DEF Dispatched, RunEnds, RecordEscape, Escalate, Refused, Observed, Amend
    <2> QED BY <2>1, <2>2, <2>3, <2>4, <2>5 DEF LedgerNext, ledgerVars
  <1>3. QueueInv => KeepsRecentlyRun
    <2> SUFFICES ASSUME QueueInv, NEW i \in DOMAIN since, Cardinality(since[i]) < Limit, i \notin Known
                 PROVE  FALSE
      BY DEF KeepsRecentlyRun
    <2>1. Cardinality(since[i]) >= Limit
      BY DEF QueueInv
    <2>2. Cardinality(since[i]) \in Nat /\ Limit \in Nat
      BY LedgerAssumption, FS_Subset, FS_CardinalityType DEF QueueInv
    <2> QED BY <2>1, <2>2
  <1> QED BY <1>1, <1>2, <1>3, <1>4, PTL DEF LedgerSpec
-----------------------------------------------------------------------------
(* The hub's alerts *)

\* The old web process and the new one of an upgrade, and no third.
TwoWebs == \A u, v, w \in Webs : u = v \/ v = w \/ u = w

Cycles == [at : {"idle", "read", "claim", "post", "release"}, of : Periods, target : 0..Top,
           previous : 0..Top]

HubTyped ==
    /\ now \in Periods /\ month \in Periods
    /\ use \in [Periods -> 0..Top] /\ alerted \in [Periods -> 0..Top]
    /\ web \in [Webs -> Cycles]
    /\ posted \in [Periods -> [1..Top -> 0..2]]
    /\ \A w \in Webs : web[w].at # "idle" => web[w].target \in 1..use[web[w].of]

\* Process `w` read that use reached `t` of period `p`, and claimed nothing yet.
Reads(w, p, t) == web[w].at \in {"read", "claim"} /\ web[w].of = p /\ web[w].target = t

\* It claimed the threshold.
Claims(w, p, t) == web[w].at \in {"post", "release"} /\ web[w].of = p /\ web[w].target = t

\* A posted threshold was posted once and nobody claims it; whoever may still claim it finds the
\* memory at it or above, and gives no higher claim back to below it.
Remembered(p, t) ==
    /\ t <= use[p] /\ posted[p][t] = 1
    /\ use[p] = t => alerted[p] >= t
    /\ \A w \in Webs : ~Claims(w, p, t)
    /\ \A w \in Webs : Reads(w, p, t) => alerted[p] >= t
    /\ \A w, v \in Webs :
         (/\ Reads(w, p, t)
          /\ web[v].at \in {"claim", "post", "release"} /\ web[v].of = p /\ web[v].target > t)
            => web[v].previous >= t

\* A claimed threshold is claimed by one, and the other's claim of it will be refused.
Excluded(p, t) ==
    \A w, v \in Webs :
        (w # v /\ Claims(w, p, t)) => (~Claims(v, p, t) /\ (Reads(v, p, t) => alerted[p] >= t))

\* The memory holds the claim of the highest threshold use has reached.
HighestHeld ==
    \A w \in Webs : (web[w].at \in {"post", "release"} /\ web[w].target = use[web[w].of])
                       => alerted[web[w].of] >= web[w].target

\* Of the months after the row's nothing is posted or claimed.
LaterMonthsOpen ==
    part = "minutes" => \A p \in Periods : p > month =>
        /\ \A t \in 1..Top : posted[p][t] = 0
        /\ \A w \in Webs : web[w].of = p => web[w].at \in {"idle", "read"}

HubInv ==
    /\ \A p \in Periods, t \in 1..Top : posted[p][t] # 0 => Remembered(p, t)
    /\ \A p \in Periods, t \in 1..Top : Excluded(p, t)
    /\ HighestHeld
    /\ LaterMonthsOpen

\* A cycle moved on, and one that saw the memory at `b`.
At(c, a) == [c EXCEPT !.at = a]
Claiming(c, b) == [c EXCEPT !.at = "claim", !.previous = b]

LEMMA CycleFields ==
    /\ Idle \in Cycles /\ Idle.at = "idle"
    /\ \A c \in Cycles : /\ c.at \in {"idle", "read", "claim", "post", "release"}
                         /\ c.of \in Periods /\ c.target \in 0..Top /\ c.previous \in 0..Top
    /\ \A c \in Cycles, a \in {"idle", "read", "claim", "post", "release"} :
         /\ At(c, a) \in Cycles /\ At(c, a).at = a /\ At(c, a).of = c.of
         /\ At(c, a).target = c.target /\ At(c, a).previous = c.previous
    /\ \A c \in Cycles, b \in 0..Top :
         /\ Claiming(c, b) \in Cycles /\ Claiming(c, b).at = "claim" /\ Claiming(c, b).of = c.of
         /\ Claiming(c, b).target = c.target /\ Claiming(c, b).previous = b
  <1>1. 1 \in Periods /\ 0 \in 0..Top
    BY HubAssumption DEF Periods
  <1>2. Idle \in Cycles /\ Idle.at = "idle"
    BY <1>1 DEF Idle, Cycles
  <1>3. ASSUME NEW c \in Cycles
        PROVE  /\ c.at \in {"idle", "read", "claim", "post", "release"}
               /\ c.of \in Periods /\ c.target \in 0..Top /\ c.previous \in 0..Top
    BY <1>3 DEF Cycles
  <1>4. ASSUME NEW c \in Cycles, NEW a \in {"idle", "read", "claim", "post", "release"}
        PROVE  /\ At(c, a) \in Cycles /\ At(c, a).at = a /\ At(c, a).of = c.of
               /\ At(c, a).target = c.target /\ At(c, a).previous = c.previous
    BY <1>4 DEF Cycles, At
  <1>5. ASSUME NEW c \in Cycles, NEW b \in 0..Top
        PROVE  /\ Claiming(c, b) \in Cycles /\ Claiming(c, b).at = "claim" /\ Claiming(c, b).of = c.of
               /\ Claiming(c, b).target = c.target /\ Claiming(c, b).previous = b
    BY <1>5 DEF Cycles, Claiming
  <1> QED BY <1>2, <1>3, <1>4, <1>5

\* Process `w` moves to `c`, and the other stays.
Moves(w, c) == c \in Cycles /\ web' = [web EXCEPT ![w] = c]

LEMMA Moved == ASSUME HubTyped, NEW w \in Webs, NEW c, Moves(w, c)
               PROVE  /\ web' \in [Webs -> Cycles] /\ web'[w] = c
                      /\ \A v \in Webs : v # w => web'[v] = web[v]
  BY DEF HubTyped, Moves

\* Use rises, or a month ends.
LEMMA HubStill ==
    ASSUME HubTyped, HubInv, UNCHANGED <<part, alerted, web, posted, month>>,
           use' \in [Periods -> 0..Top], \A p \in Periods : use[p] <= use'[p]
    PROVE  HubInv'
  <1>1. ASSUME NEW p \in Periods, NEW t \in 1..Top, posted[p][t] # 0 PROVE Remembered(p, t)'
    <2>1. Remembered(p, t)
      BY <1>1 DEF HubInv
    <2>2. use[p] \in 0..Top /\ use'[p] \in 0..Top /\ use[p] <= use'[p] /\ t \in 1..Top
      BY DEF HubTyped
    <2>3. t <= use'[p] /\ (use'[p] = t => use[p] = t)
      BY <2>1, <2>2, HubAssumption DEF Remembered
    <2> QED BY <2>1, <2>3 DEF Remembered, Reads, Claims
  <1>2. ASSUME NEW p \in Periods, NEW t \in 1..Top PROVE Excluded(p, t)'
    BY DEF HubInv, Excluded, Reads, Claims
  <1>3. HighestHeld'
    <2> SUFFICES ASSUME NEW w \in Webs, web[w].at \in {"post", "release"}, web[w].target = use'[web[w].of]
                 PROVE  alerted[web[w].of] >= web[w].target
      BY DEF HighestHeld
    <2>1. web[w].of \in Periods /\ web[w].target \in 1..use[web[w].of]
      BY CycleFields DEF HubTyped
    <2>2. use[web[w].of] \in 0..Top /\ use'[web[w].of] \in 0..Top /\ use[web[w].of] <= use'[web[w].of]
      BY <2>1 DEF HubTyped
    <2>3. web[w].target = use[web[w].of]
      BY <2>1, <2>2, HubAssumption
    <2> QED BY <2>3 DEF HubInv, HighestHeld
  <1>4. LaterMonthsOpen'
    BY DEF HubInv, LaterMonthsOpen
  <1> QED BY <1>1, <1>2, <1>3, <1>4 DEF HubInv

\* A cycle is over and nothing else happened, or Slack refused its post.
LEMMA DropKeeps ==
    ASSUME HubTyped, HubInv, NEW w \in Webs, NEW c, Moves(w, c),
           UNCHANGED <<part, use, alerted, posted, month>>,
           \/ c.at = "idle"
           \/ web[w].at = "post" /\ c = At(web[w], "release")
    PROVE  HubInv'
  <1>1. ASSUME NEW v \in Webs
        PROVE  \/ web'[v] = web[v]
               \/ web'[v].at = "idle"
               \/ /\ web[v].at = "post" /\ web'[v].at = "release" /\ web'[v].of = web[v].of
                  /\ web'[v].target = web[v].target /\ web'[v].previous = web[v].previous
    <2>1. web[v] \in Cycles
      BY DEF HubTyped
    <2>2. v # w => web'[v] = web[v]
      BY Moved
    <2>3. web'[w] = c
      BY Moved
    <2>4. CASE v = w /\ web[w].at = "post" /\ c = At(web[w], "release")
      BY <2>1, <2>3, <2>4, CycleFields
    <2> QED BY <2>2, <2>3, <2>4
  <1>2. ASSUME NEW p \in Periods, NEW t \in 1..Top, posted[p][t] # 0 PROVE Remembered(p, t)'
    <2>1. Remembered(p, t)
      BY <1>2 DEF HubInv
    <2> QED BY <1>1, <2>1 DEF Remembered, Reads, Claims
  <1>3. ASSUME NEW p \in Periods, NEW t \in 1..Top PROVE Excluded(p, t)'
    <2>1. Excluded(p, t)
      BY DEF HubInv
    <2> QED BY <1>1, <2>1 DEF Excluded, Reads, Claims
  <1>4. HighestHeld'
    BY <1>1 DEF HubInv, HighestHeld
  <1>5. LaterMonthsOpen'
    BY <1>1 DEF HubInv, LaterMonthsOpen
  <1> QED BY <1>2, <1>3, <1>4, <1>5 DEF HubInv

\* What stands in a cycle after one of them moved: of the other nothing changed.
LEMMA MovedFields ==
    ASSUME HubTyped, NEW w \in Webs, NEW c, Moves(w, c)
    PROVE  \A v \in Webs :
             /\ web[v] \in Cycles /\ web'[v] \in Cycles
             /\ web[v].at \in {"idle", "read", "claim", "post", "release"}
             /\ web[v].of \in Periods /\ web[v].target \in 0..Top /\ web[v].previous \in 0..Top
             /\ use[web[v].of] \in 0..Top /\ alerted[web[v].of] \in 0..Top
             /\ web[v].at # "idle" => web[v].target \in 1..use[web[v].of]
             /\ web'[v] = IF v = w THEN c ELSE web[v]
  <1>1. \A v \in Webs : web[v] \in Cycles /\ web'[v] \in Cycles /\ web'[v] = IF v = w THEN c ELSE web[v]
    BY Moved DEF HubTyped
  <1>2. ASSUME NEW v \in Webs
        PROVE  /\ web[v].at \in {"idle", "read", "claim", "post", "release"}
               /\ web[v].of \in Periods /\ web[v].target \in 0..Top /\ web[v].previous \in 0..Top
    BY <1>1, CycleFields
  <1> QED BY <1>1, <1>2 DEF HubTyped

\* A reading finds the memory at whatever was posted or is claimed of what use reached.
LEMMA PollKeeps ==
    ASSUME HubTyped, HubInv, NEW w \in Webs, NEW c, Moves(w, c),
           UNCHANGED <<part, use, alerted, posted, month>>,
           c.at = "read", c.target = use[c.of]
    PROVE  HubInv'
  <1>1. /\ \A v \in Webs : web'[v] = IF v = w THEN c ELSE web[v]
        /\ \A v \in Webs : web[v].at # "idle" => web[v].target \in 1..use[web[v].of]
    BY MovedFields
  <1>2. ASSUME NEW p \in Periods, NEW t \in 1..Top, posted[p][t] # 0 PROVE Remembered(p, t)'
    <2>1. Remembered(p, t)
      BY <1>2 DEF HubInv
    <2>2. \A v \in Webs : ~Claims(v, p, t)' /\ (Reads(v, p, t)' => alerted[p] >= t)
      BY <1>1, <2>1 DEF Remembered, Reads, Claims
    <2>3. ASSUME NEW u \in Webs, NEW v \in Webs, Reads(u, p, t)',
                 web'[v].at \in {"claim", "post", "release"}, web'[v].of = p, web'[v].target > t
          PROVE  web'[v].previous >= t
      <3>1. v # w /\ web'[v] = web[v]
        BY <1>1, <2>3
      <3>2. CASE u = w
        <4>1. use[p] = t /\ web[v].target \in 1..use[p] /\ use[p] \in 0..Top
          BY <1>1, <2>3, <3>1, <3>2 DEF Reads, HubTyped
        <4> QED BY <2>3, <3>1, <4>1, HubAssumption
      <3>3. CASE u # w
        BY <1>1, <2>1, <2>3, <3>1, <3>3 DEF Remembered, Reads
      <3> QED BY <3>2, <3>3
    <2> QED BY <2>1, <2>2, <2>3 DEF Remembered
  <1>3. ASSUME NEW p \in Periods, NEW t \in 1..Top PROVE Excluded(p, t)'
    <2>1. Excluded(p, t) /\ HighestHeld
      BY DEF HubInv
    <2> SUFFICES ASSUME NEW u \in Webs, NEW v \in Webs, u # v, Claims(u, p, t)'
                 PROVE  ~Claims(v, p, t)' /\ (Reads(v, p, t)' => alerted[p] >= t)
      BY DEF Excluded
    <2>2. u # w /\ Claims(u, p, t)
      BY <1>1 DEF Claims
    <2>3. CASE v = w
      BY <1>1, <2>1, <2>2, <2>3 DEF Claims, Reads, HighestHeld
    <2>4. CASE v # w
      BY <1>1, <2>1, <2>2, <2>4 DEF Claims, Reads, Excluded
    <2> QED BY <2>3, <2>4
  <1>4. HighestHeld'
    BY <1>1 DEF HubInv, HighestHeld
  <1>5. LaterMonthsOpen'
    BY <1>1 DEF HubInv, LaterMonthsOpen
  <1> QED BY <1>2, <1>3, <1>4, <1>5 DEF HubInv

\* The look at a reading of the row's month, or of a window: it remembers what it saw.
LEMMA LookKeeps ==
    ASSUME HubTyped, HubInv, NEW w \in Webs, NEW c, Moves(w, c), web[w].at = "read",
           UNCHANGED <<part, use, alerted, posted, month>>,
           \/ c.at = "idle"
           \/ /\ c = Claiming(web[w], alerted[web[w].of]) /\ Row(web[w].of)
    PROVE  HubInv'
  <1>1. CASE c.at = "idle"
    BY <1>1, DropKeeps
  <1>2. CASE c = Claiming(web[w], alerted[web[w].of]) /\ Row(web[w].of)
    <2>1. /\ \A v \in Webs : web'[v] = IF v = w THEN c ELSE web[v]
          /\ c.at = "claim" /\ c.of = web[w].of /\ c.target = web[w].target
          /\ c.previous = alerted[web[w].of]
      BY <1>2, MovedFields, CycleFields
    <2>2. ASSUME NEW p \in Periods, NEW t \in 1..Top
          PROVE  \A v \in Webs : /\ Reads(v, p, t)' <=> Reads(v, p, t)
                                 /\ Claims(v, p, t)' <=> Claims(v, p, t)
      BY <2>1 DEF Reads, Claims
    <2>3. ASSUME NEW p \in Periods, NEW t \in 1..Top, posted[p][t] # 0 PROVE Remembered(p, t)'
      <3>1. Remembered(p, t)
        BY <2>3 DEF HubInv
      <3>2. ASSUME NEW u \in Webs, NEW v \in Webs, Reads(u, p, t)',
                   web'[v].at \in {"claim", "post", "release"}, web'[v].of = p, web'[v].target > t
            PROVE  web'[v].previous >= t
        <4>1. Reads(u, p, t) /\ alerted[p] >= t
          BY <2>2, <3>1, <3>2 DEF Remembered
        <4>2. CASE v = w
          BY <2>1, <3>2, <4>1, <4>2
        <4>3. CASE v # w
          BY <2>1, <3>1, <3>2, <4>1, <4>3 DEF Remembered
        <4> QED BY <4>2, <4>3
      <3> QED BY <2>2, <3>1, <3>2 DEF Remembered
    <2>4. ASSUME NEW p \in Periods, NEW t \in 1..Top PROVE Excluded(p, t)'
      <3>1. Excluded(p, t)
        BY DEF HubInv
      <3> QED BY <2>2, <3>1 DEF Excluded
    <2>5. HighestHeld'
      BY <2>1 DEF HubInv, HighestHeld
    <2>6. LaterMonthsOpen'
      <3> SUFFICES ASSUME part = "minutes", NEW p \in Periods, p > month
                   PROVE  /\ \A t \in 1..Top : posted[p][t] = 0
                          /\ \A v \in Webs : web'[v].of = p => web'[v].at \in {"idle", "read"}
        BY DEF LaterMonthsOpen
      <3>1. /\ \A t \in 1..Top : posted[p][t] = 0
            /\ \A v \in Webs : web[v].of = p => web[v].at \in {"idle", "read"}
        BY DEF HubInv, LaterMonthsOpen
      <3>2. web[w].of # p
        BY <1>2, HubAssumption DEF Row, HubTyped, Periods
      <3> QED BY <2>1, <3>1, <3>2
    <2> QED BY <2>3, <2>4, <2>5, <2>6 DEF HubInv
  <1> QED BY <1>1, <1>2

\* The first look at a month: the memory starts again, and nothing was posted of it.
LEMMA NewMonthKeeps ==
    ASSUME HubTyped, HubInv, NEW w \in Webs, NEW c, Moves(w, c), web[w].at = "read",
           UNCHANGED <<part, use, posted>>, part = "minutes", web[w].of > month, month' = web[w].of,
           alerted' = [alerted EXCEPT ![web[w].of] = 0],
           \/ c.at = "idle"
           \/ c = Claiming(web[w], 0)
    PROVE  HubInv'
  <1> DEFINE m == web[w].of
  <1>1. /\ \A v \in Webs : web'[v] = IF v = w THEN c ELSE web[v]
        /\ m \in Periods
        /\ c.at \in {"idle", "claim"}
        /\ c.at = "claim" => (c.of = m /\ c.target = web[w].target)
    <2>1. 0 \in 0..Top
      BY HubAssumption
    <2> QED BY <2>1, MovedFields, CycleFields
  <1>2. \A p \in Periods \ {m} : alerted'[p] = alerted[p]
    BY DEF HubTyped
  <1>3. /\ \A t \in 1..Top : posted[m][t] = 0
        /\ \A v \in Webs : web[v].of = m => web[v].at \in {"idle", "read"}
    BY <1>1 DEF HubInv, LaterMonthsOpen
  <1> HIDE DEF m
  <1>4. ASSUME NEW p \in Periods \ {m}, NEW t \in 1..Top, NEW v \in Webs
        PROVE  /\ Reads(v, p, t)' => Reads(v, p, t)
               /\ Claims(v, p, t)' => Claims(v, p, t)
               /\ web'[v].of = p => (web'[v] = web[v] \/ web'[v].at = "idle")
    BY <1>1 DEF Reads, Claims
  <1>5. ASSUME NEW p \in Periods, NEW t \in 1..Top, posted[p][t] # 0 PROVE Remembered(p, t)'
    <2>1. Remembered(p, t) /\ p # m
      BY <1>3, <1>5 DEF HubInv
    <2> QED BY <1>2, <1>4, <2>1 DEF Remembered
  <1>6. ASSUME NEW p \in Periods, NEW t \in 1..Top PROVE Excluded(p, t)'
    <2>1. Excluded(p, t)
      BY DEF HubInv
    <2>2. CASE p = m
      BY <1>1, <1>3, <2>2 DEF Excluded, Claims
    <2>3. CASE p # m
      BY <1>2, <1>4, <2>1, <2>3 DEF Excluded
    <2> QED BY <2>2, <2>3
  <1>7. HighestHeld'
    <2> SUFFICES ASSUME NEW v \in Webs, web'[v].at \in {"post", "release"},
                        web'[v].target = use[web'[v].of]
                 PROVE  alerted'[web'[v].of] >= web'[v].target
      BY DEF HighestHeld
    <2>1. web'[v] = web[v] /\ web[v].of \in Periods \ {m}
      BY <1>1, <1>3, MovedFields
    <2> QED BY <1>2, <2>1 DEF HubInv, HighestHeld
  <1>8. LaterMonthsOpen'
    <2> SUFFICES ASSUME NEW p \in Periods, p > m
                 PROVE  /\ \A t \in 1..Top : posted[p][t] = 0
                        /\ \A v \in Webs : web'[v].of = p => web'[v].at \in {"idle", "read"}
      BY DEF LaterMonthsOpen, m
    <2>1. p > month /\ p # m
      BY <1>1, HubAssumption DEF HubTyped, Periods, m
    <2>2. /\ \A t \in 1..Top : posted[p][t] = 0
          /\ \A v \in Webs : web[v].of = p => web[v].at \in {"idle", "read"}
      BY <2>1 DEF HubInv, LaterMonthsOpen
    <2> QED BY <1>1, <2>1, <2>2
  <1> QED BY <1>5, <1>6, <1>7, <1>8 DEF HubInv

\* A claim is taken where it raises the memory: it is of nothing posted and of nothing claimed.
LEMMA TakeKeeps ==
    ASSUME HubTyped, HubInv, NEW w \in Webs, NEW c, Moves(w, c), web[w].at = "claim", Raises(w),
           UNCHANGED <<part, use, posted, month>>,
           alerted' = [alerted EXCEPT ![web[w].of] = web[w].target],
           c.at = "idle" \/ c = At(web[w], "post")
    PROVE  HubInv'
  <1> DEFINE m == web[w].of
             n == web[w].target
  <1>1. /\ \A v \in Webs : web'[v] = IF v = w THEN c ELSE web[v]
        /\ m \in Periods /\ n \in 1..Top /\ n <= use[m]
        /\ c.at \in {"idle", "post"}
        /\ c.at = "post" => (c.of = m /\ c.target = n /\ c.previous = web[w].previous)
    <2>1. n \in 1..use[m] /\ use[m] \in 0..Top /\ m \in Periods
      BY MovedFields
    <2>2. n \in 1..Top /\ n <= use[m]
      BY <2>1, HubAssumption
    <2>3. At(web[w], "post").at = "post" /\ At(web[w], "post").of = m /\ At(web[w], "post").target = n
          /\ At(web[w], "post").previous = web[w].previous
      BY MovedFields, CycleFields
    <2>4. \A v \in Webs : web'[v] = IF v = w THEN c ELSE web[v]
      BY MovedFields
    <2> HIDE DEF m, n
    <2> QED BY <2>1, <2>2, <2>3, <2>4
  <1>2. /\ \A p \in Periods \ {m} : alerted'[p] = alerted[p]
        /\ alerted'[m] = n /\ alerted[m] < n /\ Row(m)
        /\ \A p \in Periods : alerted[p] \in 0..Top /\ alerted'[p] \in 0..Top
    BY <1>1 DEF HubTyped, Raises
  <1>3. \A p \in Periods, t \in 1..Top : alerted[p] >= t => alerted'[p] >= t
    BY <1>1, <1>2, HubAssumption
  <1>4. Reads(w, m, n)
    BY DEF Reads
  <1> HIDE DEF m, n
  <1>5. ASSUME NEW p \in Periods, NEW t \in 1..Top, NEW v \in Webs
        PROVE  /\ Reads(v, p, t)' => (Reads(v, p, t) /\ v # w)
               /\ Claims(v, p, t)' => (Claims(v, p, t) \/ (v = w /\ p = m /\ t = n))
    BY <1>1 DEF Reads, Claims
  <1>6. ASSUME NEW p \in Periods, NEW t \in 1..Top, posted[p][t] # 0 PROVE Remembered(p, t)'
    <2>1. Remembered(p, t)
      BY <1>6 DEF HubInv
    <2>2. p # m \/ t # n
      BY <1>2, <1>4, <2>1 DEF Remembered
    <2>3. ASSUME NEW u \in Webs, NEW v \in Webs, Reads(u, p, t)',
                 web'[v].at \in {"claim", "post", "release"}, web'[v].of = p, web'[v].target > t
          PROVE  web'[v].previous >= t
      <3>1. /\ web[v].at \in {"claim", "post", "release"} /\ web[v].of = p /\ web[v].target > t
            /\ web'[v].previous = web[v].previous
        BY <1>1, <2>3 DEF m, n
      <3> QED BY <1>5, <2>1, <2>3, <3>1 DEF Remembered
    <2>4. use[p] = t => alerted'[p] >= t
      BY <1>3, <2>1 DEF Remembered
    <2>5. \A v \in Webs : ~Claims(v, p, t)' /\ (Reads(v, p, t)' => alerted'[p] >= t)
      BY <1>3, <1>5, <2>1, <2>2 DEF Remembered
    <2> QED BY <2>1, <2>3, <2>4, <2>5 DEF Remembered
  <1>7. ASSUME NEW p \in Periods, NEW t \in 1..Top PROVE Excluded(p, t)'
    <2>1. Excluded(p, t)
      BY DEF HubInv
    <2> SUFFICES ASSUME NEW u \in Webs, NEW v \in Webs, u # v, Claims(u, p, t)'
                 PROVE  ~Claims(v, p, t)' /\ (Reads(v, p, t)' => alerted'[p] >= t)
      BY DEF Excluded
    <2>2. Excluded(p, t) /\ (Claims(v, p, t)' => (Claims(v, p, t) \/ (v = w /\ p = m /\ t = n)))
          /\ (Claims(u, p, t) \/ (u = w /\ p = m /\ t = n))
          /\ (alerted[p] >= t => alerted'[p] >= t)
      BY <1>3, <1>5, <2>1
    <2>3. CASE Claims(u, p, t)
      <3>1. v = w /\ p = m /\ t = n => alerted[p] >= t
        BY <1>4, <2>2, <2>3 DEF Excluded
      <3>2. ~Claims(v, p, t)'
        BY <1>2, <2>2, <2>3, <3>1, HubAssumption DEF Excluded
      <3> QED BY <1>5, <2>2, <2>3, <3>2 DEF Excluded
    <2>4. CASE u = w /\ p = m /\ t = n
      <3>1. ~Claims(v, p, t)
        <4>1. Claims(v, p, t) => alerted[p] >= t
          BY <1>4, <2>2, <2>4 DEF Excluded
        <4> QED BY <1>2, <2>4, <4>1, HubAssumption
      <3>2. alerted'[p] >= t
        BY <1>1, <1>2, <2>4, HubAssumption
      <3> QED BY <2>2, <2>4, <3>1, <3>2
    <2> QED BY <2>2, <2>3, <2>4
  <1>8. HighestHeld'
    <2> SUFFICES ASSUME NEW v \in Webs, web'[v].at \in {"post", "release"},
                        web'[v].target = use[web'[v].of]
                 PROVE  alerted'[web'[v].of] >= web'[v].target
      BY DEF HighestHeld
    <2>1. CASE v = w
      BY <1>1, <1>2, <2>1, HubAssumption
    <2>2. CASE v # w
      <3>1. /\ web'[v] = web[v] /\ web[v].of \in Periods /\ web[v].target \in 1..use[web[v].of]
            /\ use[web[v].of] \in 0..Top
        BY <1>1, <2>2, MovedFields
      <3>2. web[v].target \in 1..Top
        BY <3>1, HubAssumption
      <3> QED BY <1>3, <3>1, <3>2 DEF HubInv, HighestHeld
    <2> QED BY <2>1, <2>2
  <1>9. LaterMonthsOpen'
    <2> SUFFICES ASSUME part = "minutes", NEW p \in Periods, p > month
                 PROVE  /\ \A t \in 1..Top : posted[p][t] = 0
                        /\ \A v \in Webs : web'[v].of = p => web'[v].at \in {"idle", "read"}
      BY DEF LaterMonthsOpen
    <2>1. /\ \A t \in 1..Top : posted[p][t] = 0
          /\ \A v \in Webs : web[v].of = p => web[v].at \in {"idle", "read"}
      BY DEF HubInv, LaterMonthsOpen
    <2>2. m # p
      BY <1>2, HubAssumption DEF Row, HubTyped, Periods
    <2> QED BY <1>1, <2>1, <2>2
  <1> QED BY <1>6, <1>7, <1>8, <1>9 DEF HubInv

\* A post that is delivered: only its process held the claim, and the memory keeps it from the other.
LEMMA PostKeeps ==
    ASSUME HubTyped, HubInv, NEW w \in Webs, NEW c, Moves(w, c), web[w].at = "post", c.at = "idle",
           UNCHANGED <<part, use, alerted, month>>, TwoWebs, posted' = More(posted, w)
    PROVE  HubInv'
  <1> DEFINE m == web[w].of
             n == web[w].target
  <1>1. /\ \A v \in Webs : web'[v] = IF v = w THEN c ELSE web[v]
        /\ m \in Periods /\ n \in 1..Top /\ n <= use[m] /\ use[m] \in 0..Top
    <2>1. n \in 1..use[m] /\ use[m] \in 0..Top /\ m \in Periods
      BY MovedFields
    <2>2. n \in 1..Top /\ n <= use[m]
      BY <2>1, HubAssumption
    <2> QED BY <2>1, <2>2, MovedFields
  <1>2. Claims(w, m, n)
    BY DEF Claims
  <1>3. posted[m][n] = 0
    BY <1>1, <1>2 DEF HubInv, Remembered
  <1>4. \A p \in Periods, t \in 1..Top : posted'[p][t] = IF p = m /\ t = n THEN 1 ELSE posted[p][t]
    <2>1. posted' = [posted EXCEPT ![m] = [posted[m] EXCEPT ![n] = 1]]
      BY <1>1, <1>3 DEF HubTyped, More
    <2>2. posted \in [Periods -> [1..Top -> 0..2]]
      BY DEF HubTyped
    <2> HIDE DEF m, n
    <2>3. \A p \in Periods : posted'[p] = IF p = m THEN [posted[m] EXCEPT ![n] = 1] ELSE posted[p]
      BY <1>1, <2>1, <2>2
    <2>4. \A t \in 1..Top : [posted[m] EXCEPT ![n] = 1][t] = IF t = n THEN 1 ELSE posted[m][t]
      BY <1>1, <2>2
    <2> QED BY <2>3, <2>4
  <1>10. HighestHeld /\ (n = use[m] => alerted[m] >= n)
    BY DEF HubInv, HighestHeld
  <1> HIDE DEF m, n
  <1>5. ASSUME NEW p \in Periods, NEW t \in 1..Top, NEW v \in Webs
        PROVE  /\ Reads(v, p, t)' => (Reads(v, p, t) /\ v # w)
               /\ Claims(v, p, t)' => (Claims(v, p, t) /\ v # w)
    BY <1>1 DEF Reads, Claims
  <1>6. ASSUME NEW p \in Periods, NEW t \in 1..Top, posted'[p][t] # 0 PROVE Remembered(p, t)'
    <2>1. CASE p = m /\ t = n
      <3>1. \A v \in Webs : ~Claims(v, p, t)' /\ (Reads(v, p, t)' => alerted[p] >= t)
        BY <1>1, <1>2, <1>5, <2>1 DEF HubInv, Excluded
      <3>2. ASSUME NEW u \in Webs, NEW v \in Webs, Reads(u, p, t)',
                   web'[v].at \in {"claim", "post", "release"}, web'[v].of = p, web'[v].target > t
            PROVE  FALSE
        <4>1. u # w /\ v # w
          BY <1>1, <1>5, <3>2
        <4>2. u = v
          BY <4>1 DEF TwoWebs
        <4> QED BY <1>1, <2>1, <3>2, <4>2, HubAssumption DEF Reads
      <3> QED BY <1>1, <1>4, <1>10, <2>1, <3>1, <3>2 DEF Remembered
    <2>2. CASE ~(p = m /\ t = n)
      <3>1. Remembered(p, t)
        BY <1>4, <1>6, <2>2 DEF HubInv
      <3>2. \A v \in Webs : web'[v].at \in {"claim", "post", "release"} => web'[v] = web[v]
        BY <1>1
      <3>3. \A v \in Webs : /\ Reads(v, p, t)' => Reads(v, p, t)
                            /\ Claims(v, p, t)' => Claims(v, p, t)
        BY <1>5
      <3> QED BY <1>4, <2>2, <3>1, <3>2, <3>3 DEF Remembered
    <2> QED BY <2>1, <2>2
  <1>7. ASSUME NEW p \in Periods, NEW t \in 1..Top PROVE Excluded(p, t)'
    <2>1. Excluded(p, t)
      BY DEF HubInv
    <2>2. \A v \in Webs : /\ Reads(v, p, t)' => Reads(v, p, t)
                          /\ Claims(v, p, t)' => Claims(v, p, t)
      BY <1>5
    <2> QED BY <2>1, <2>2 DEF Excluded
  <1>8. HighestHeld'
    BY <1>1, <1>10 DEF HighestHeld
  <1>9. LaterMonthsOpen'
    <2> SUFFICES ASSUME part = "minutes", NEW p \in Periods, p > month
                 PROVE  /\ \A t \in 1..Top : posted'[p][t] = 0
                        /\ \A v \in Webs : web'[v].of = p => web'[v].at \in {"idle", "read"}
      BY DEF LaterMonthsOpen
    <2>1. /\ \A t \in 1..Top : posted[p][t] = 0
          /\ \A v \in Webs : web[v].of = p => web[v].at \in {"idle", "read"}
      BY DEF HubInv, LaterMonthsOpen
    <2>2. m # p
      BY <1>2, <2>1 DEF Claims
    <2> QED BY <1>1, <1>4, <2>1, <2>2
  <1> QED BY <1>6, <1>7, <1>8, <1>9 DEF HubInv

\* A claim given back: the memory stood at it, so whatever was posted below it stays remembered.
LEMMA GiveKeeps ==
    ASSUME HubTyped, HubInv, NEW w \in Webs, NEW c, Moves(w, c), web[w].at = "release", c.at = "idle",
           UNCHANGED <<part, use, posted, month>>, TwoWebs, alerted' = Restored(w)
    PROVE  HubInv'
  <1> DEFINE m == web[w].of
             n == web[w].target
  <1>1. /\ \A v \in Webs : web'[v] = IF v = w THEN c ELSE web[v]
        /\ m \in Periods /\ n \in 1..Top /\ n <= use[m] /\ web[w].previous \in 0..Top
    <2>1. n \in 1..use[m] /\ use[m] \in 0..Top /\ m \in Periods
      BY MovedFields
    <2>2. n \in 1..Top /\ n <= use[m]
      BY <2>1, HubAssumption
    <2> QED BY <2>1, <2>2, MovedFields
  <1>2. Claims(w, m, n)
    BY DEF Claims
  <1>3. CASE alerted' = alerted
    BY <1>3, DropKeeps
  <1>4. CASE alerted[m] = n /\ alerted' = [alerted EXCEPT ![m] = web[w].previous]
    <2>1. /\ \A p \in Periods \ {m} : alerted'[p] = alerted[p]
          /\ alerted'[m] = web[w].previous /\ alerted[m] = n
      BY <1>1, <1>4 DEF HubTyped
    <2>2. ASSUME NEW p \in Periods, NEW t \in 1..Top, NEW v \in Webs
          PROVE  /\ Reads(v, p, t)' => (Reads(v, p, t) /\ v # w)
                 /\ Claims(v, p, t)' => (Claims(v, p, t) /\ v # w)
      BY <1>1 DEF Reads, Claims
    <2>3. ASSUME NEW p \in Periods, NEW t \in 1..Top, posted[p][t] # 0 PROVE Remembered(p, t)'
      <3>1. Remembered(p, t)
        BY <2>3 DEF HubInv
      <3>2. \A v \in Webs : web'[v].at \in {"claim", "post", "release"} => web'[v] = web[v]
        BY <1>1
      <3>3. \A v \in Webs : /\ Reads(v, p, t)' => Reads(v, p, t)
                            /\ Claims(v, p, t)' => Claims(v, p, t)
        BY <2>2
      <3>4. p = m => n # t
        BY <1>2, <3>1 DEF Remembered
      <3>5. use[p] = t => alerted'[p] >= t
        <4>1. CASE p # m
          BY <2>1, <3>1, <4>1 DEF Remembered
        <4>2. CASE p = m /\ use[p] = t
          <5>1. n >= t
            BY <2>1, <3>1, <4>2 DEF Remembered
          <5> QED BY <1>1, <3>4, <4>2, <5>1, HubAssumption
        <4> QED BY <4>1, <4>2
      <3>6. ASSUME NEW v \in Webs, Reads(v, p, t)' PROVE alerted'[p] >= t
        <4>1. Reads(v, p, t) /\ alerted[p] >= t
          BY <2>2, <3>1, <3>6 DEF Remembered
        <4>2. CASE p = m
          <5>1. n > t
            BY <1>1, <2>1, <3>4, <4>1, <4>2, HubAssumption
          <5> QED BY <1>2, <2>1, <3>1, <4>1, <4>2, <5>1 DEF Remembered, m, n
        <4>3. CASE p # m
          BY <2>1, <4>1, <4>3
        <4> QED BY <4>2, <4>3
      <3> QED BY <3>1, <3>2, <3>3, <3>5, <3>6 DEF Remembered
    <2>4. ASSUME NEW p \in Periods, NEW t \in 1..Top PROVE Excluded(p, t)'
      <3> SUFFICES ASSUME NEW u \in Webs, NEW v \in Webs, u # v, Claims(u, p, t)'
                   PROVE  ~Claims(v, p, t)' /\ ~Reads(v, p, t)'
        BY DEF Excluded
      <3>1. v = w
        BY <2>2 DEF TwoWebs
      <3> QED BY <2>2, <3>1
    <2>5. HighestHeld'
      <3> SUFFICES ASSUME NEW v \in Webs, web'[v].at \in {"post", "release"},
                          web'[v].target = use[web'[v].of]
                   PROVE  alerted'[web'[v].of] >= web'[v].target
        BY DEF HighestHeld
      <3>1. v # w /\ web'[v] = web[v] /\ web[v].of \in Periods /\ alerted[web[v].of] >= web[v].target
            /\ web[v].target \in 1..use[web[v].of] /\ use[web[v].of] \in 0..Top
        BY <1>1, MovedFields DEF HubInv, HighestHeld
      <3>2. web[v].of # m
        <4> SUFFICES ASSUME web[v].of = m PROVE FALSE
          OBVIOUS
        <4>1. n = web[v].target
          BY <1>1, <2>1, <3>1, HubAssumption
        <4>2. Claims(v, m, n)
          BY <3>1, <4>1 DEF Claims
        <4> QED BY <1>1, <1>2, <3>1, <4>2 DEF HubInv, Excluded
      <3> QED BY <2>1, <3>1, <3>2
    <2>6. LaterMonthsOpen'
      BY <1>1 DEF HubInv, LaterMonthsOpen
    <2> QED BY <2>3, <2>4, <2>5, <2>6 DEF HubInv
  <1> QED BY <1>3, <1>4 DEF Restored

\* The types, by what a step may write.
LEMMA HubTypes ==
    ASSUME HubTyped, now' \in Periods, month' \in Periods,
           use' \in [Periods -> 0..Top], \A p \in Periods : use[p] <= use'[p],
           alerted' \in [Periods -> 0..Top], posted' \in [Periods -> [1..Top -> 0..2]],
           \/ UNCHANGED web
           \/ \E w \in Webs, c \in Cycles :
                /\ web' = [web EXCEPT ![w] = c]
                /\ \/ c.at = "idle"
                   \/ c.target \in 1..use'[c.of]
                   \/ web[w].at # "idle" /\ c.of = web[w].of /\ c.target = web[w].target
    PROVE  HubTyped'
  <1>1. ASSUME NEW v \in Webs, web[v].at # "idle"
        PROVE  web[v].of \in Periods /\ web[v].target \in 1..use'[web[v].of]
    <2>1. web[v].of \in Periods /\ web[v].target \in 1..use[web[v].of]
      BY <1>1, CycleFields DEF HubTyped
    <2>2. use[web[v].of] \in 0..Top /\ use'[web[v].of] \in 0..Top /\ use[web[v].of] <= use'[web[v].of]
      BY <2>1 DEF HubTyped
    <2> QED BY <2>1, <2>2, HubAssumption
  <1>2. CASE UNCHANGED web
    BY <1>1, <1>2 DEF HubTyped
  <1>3. ASSUME NEW w \in Webs, NEW c \in Cycles, web' = [web EXCEPT ![w] = c],
               \/ c.at = "idle"
               \/ c.target \in 1..use'[c.of]
               \/ web[w].at # "idle" /\ c.of = web[w].of /\ c.target = web[w].target
        PROVE  HubTyped'
    <2>1. web' \in [Webs -> Cycles] /\ \A v \in Webs : web'[v] = IF v = w THEN c ELSE web[v]
      BY <1>3 DEF HubTyped
    <2>2. ASSUME NEW v \in Webs, web'[v].at # "idle" PROVE web'[v].target \in 1..use'[web'[v].of]
      BY <1>1, <1>3, <2>1, <2>2
    <2> QED BY <2>1, <2>2 DEF HubTyped
  <1> QED BY <1>2, <1>3

\* What each step of an alert's cycle does to the memory, to what was posted and to the cycle.
LEMMA PollStep == ASSUME HubTyped, HubInv, NEW w \in Webs, Poll(w) PROVE HubTyped' /\ HubInv'
  <1>1. PICK p \in Periods : /\ use[p] > 0 /\ p \in ReadingsOf
                             /\ web' = [web EXCEPT ![w] =
                                          [Idle EXCEPT !.at = "read", !.of = p, !.target = use[p]]]
    BY HubAssumption DEF Poll, ReadingsOf, HubTyped
  <1> DEFINE c == [Idle EXCEPT !.at = "read", !.of = p, !.target = use[p]]
  <1>2. use[p] \in 1..Top
    BY <1>1, HubAssumption DEF HubTyped
  <1>3. c \in Cycles /\ c.at = "read" /\ c.of = p /\ c.target = use[p]
    <2>1. ASSUME NEW i \in Cycles, NEW u \in 0..Top
          PROVE  LET r == [i EXCEPT !.at = "read", !.of = p, !.target = u]
                 IN  r \in Cycles /\ r.at = "read" /\ r.of = p /\ r.target = u
      BY <2>1 DEF Cycles
    <2>2. use[p] \in 0..Top /\ Idle \in Cycles
      BY <1>2, CycleFields, HubAssumption
    <2> QED BY <2>1, <2>2
  <1>4. web' = [web EXCEPT ![w] = c]
    BY <1>1
  <1>5. UNCHANGED <<part, now, use, alerted, posted, month>>
    BY DEF Poll, world, memory, sent
  <1> HIDE DEF c
  <1>6. HubInv'
    BY <1>3, <1>4, <1>5, PollKeeps DEF Moves
  <1>7. c.target \in 1..use'[c.of] /\ \A q \in Periods : use[q] <= use'[q]
    BY <1>2, <1>3, <1>5, HubAssumption DEF HubTyped
  <1>8. HubTyped'
    BY <1>3, <1>4, <1>5, <1>7, HubTypes DEF HubTyped
  <1> QED BY <1>6, <1>8

LEMMA LookStep ==
    ASSUME HubTyped, HubInv, NEW w \in Webs, NEW c, web[w].at = "read", Record(web[w].of),
           web' = [web EXCEPT ![w] = c], UNCHANGED <<part, now, use, posted>>,
           \/ c = Idle
           \/ /\ c = Claiming(web[w], Before(web[w].of))
              /\ part = "minutes" => Writes(web[w].of)
    PROVE  HubTyped' /\ HubInv'
  <1> DEFINE m == web[w].of
  <1>1. m \in Periods /\ web[w] \in Cycles /\ month \in Periods /\ alerted[m] \in 0..Top
    BY CycleFields DEF HubTyped
  <1>2. /\ month' = IF Writes(m) THEN m ELSE month
        /\ alerted' = [alerted EXCEPT ![m] = Before(m)]
    BY DEF Record
  <1>3. Before(m) \in 0..Top
    BY <1>1, HubAssumption DEF Before
  <1>4. c \in Cycles /\ (c.at = "idle" \/ (c.of = m /\ c.target = web[w].target))
    BY <1>1, <1>3, CycleFields
  <1>5. HubTyped'
    <2>1. month' \in Periods /\ alerted' \in [Periods -> 0..Top]
      BY <1>1, <1>2, <1>3 DEF HubTyped
    <2>2. \A p \in Periods : use[p] <= use'[p]
      BY HubAssumption DEF HubTyped
    <2> QED BY <1>4, <2>1, <2>2, HubTypes DEF HubTyped
  <1>6. CASE Writes(m) /\ m # month
    <2>1. m > month /\ Before(m) = 0 /\ month' = m /\ part = "minutes"
      BY <1>1, <1>2, <1>6, HubAssumption DEF NotOlder, Periods, Writes, Before
    <2>2. c.at = "idle" \/ c = Claiming(web[w], 0)
      BY <2>1, CycleFields
    <2>3. alerted' = [alerted EXCEPT ![m] = 0] /\ Moves(w, c)
      BY <1>2, <1>4, <2>1 DEF Moves
    <2> QED BY <1>5, <2>1, <2>2, <2>3, NewMonthKeeps
  <1>7. CASE ~(Writes(m) /\ m # month)
    <2>1. Before(m) = alerted[m] /\ month' = month
      BY <1>2, <1>7 DEF Before
    <2>2. alerted' = alerted
      BY <1>1, <1>2, <2>1 DEF HubTyped
    <2>3. c.at = "idle" \/ (c = Claiming(web[w], alerted[m]) /\ Row(m))
      BY <1>7, <2>1, CycleFields DEF Row
    <2>4. Moves(w, c)
      BY <1>4 DEF Moves
    <2> QED BY <1>5, <2>1, <2>2, <2>3, <2>4, LookKeeps
  <1> QED BY <1>6, <1>7

LEMMA ClaimStep ==
    ASSUME HubTyped, HubInv, NEW w \in Webs, web[w].at = "claim", Raises(w),
           alerted' = [alerted EXCEPT ![web[w].of] = web[w].target],
           Step(w, "post") \/ Over(w), UNCHANGED <<part, now, use, posted, month>>
    PROVE  HubTyped' /\ HubInv'
  <1>1. PICK c \in {At(web[w], "post"), Idle} : web' = [web EXCEPT ![w] = c]
    BY DEF Step, Over, At
  <1>2. web[w] \in Cycles /\ web[w].target \in 0..Top
    BY CycleFields DEF HubTyped
  <1>3. c \in Cycles /\ (c.at = "idle" \/ (c.of = web[w].of /\ c.target = web[w].target))
    BY <1>2, CycleFields
  <1>4. HubInv'
    BY <1>1, <1>3, TakeKeeps, CycleFields DEF Moves
  <1>5. alerted' \in [Periods -> 0..Top]
    BY <1>2 DEF HubTyped
  <1>6. \A p \in Periods : use[p] <= use'[p]
    BY HubAssumption DEF HubTyped
  <1> QED BY <1>1, <1>3, <1>4, <1>5, <1>6, HubTypes DEF HubTyped

LEMMA PostStep ==
    ASSUME HubTyped, HubInv, TwoWebs, NEW w \in Webs, web[w].at = "post", Over(w),
           posted' = More(posted, w), UNCHANGED <<part, now, use, alerted, month>>
    PROVE  HubTyped' /\ HubInv'
  <1>1. web' = [web EXCEPT ![w] = Idle] /\ Moves(w, Idle) /\ Idle.at = "idle"
    BY CycleFields DEF Over, Moves
  <1>2. HubInv'
    BY <1>1, PostKeeps
  <1>3. posted' \in [Periods -> [1..Top -> 0..2]]
    <2> DEFINE m == web[w].of
               n == web[w].target
               k == IF posted[m][n] = 2 THEN 2 ELSE posted[m][n] + 1
    <2>1. m \in Periods /\ n \in 1..Top
      BY <1>1, MovedFields, HubAssumption
    <2>2. posted' = [posted EXCEPT ![m] = [posted[m] EXCEPT ![n] = k]]
      BY <2>1 DEF HubTyped, More
    <2>3. posted \in [Periods -> [1..Top -> 0..2]] /\ posted[m] \in [1..Top -> 0..2] /\ posted[m][n] \in 0..2
      BY <2>1 DEF HubTyped
    <2>4. k \in 0..2
      BY <2>3
    <2> HIDE DEF k, m, n
    <2>5. [posted[m] EXCEPT ![n] = k] \in [1..Top -> 0..2]
      BY <2>3, <2>4
    <2> QED BY <2>2, <2>3, <2>5
  <1>4. \A p \in Periods : use[p] <= use'[p]
    BY HubAssumption DEF HubTyped
  <1>5. Idle \in Cycles
    BY CycleFields
  <1> QED BY <1>1, <1>2, <1>3, <1>4, <1>5, HubTypes DEF HubTyped

LEMMA GiveStep ==
    ASSUME HubTyped, HubInv, TwoWebs, NEW w \in Webs, web[w].at = "release", Over(w),
           alerted' = Restored(w), UNCHANGED <<part, now, use, posted, month>>
    PROVE  HubTyped' /\ HubInv'
  <1>1. web' = [web EXCEPT ![w] = Idle] /\ Moves(w, Idle) /\ Idle.at = "idle"
    BY CycleFields DEF Over, Moves
  <1>2. HubInv'
    BY <1>1, GiveKeeps
  <1>3. web[w].previous \in 0..Top
    BY CycleFields DEF HubTyped
  <1>4. alerted' \in [Periods -> 0..Top]
    BY <1>3 DEF HubTyped, Restored
  <1>5. \A p \in Periods : use[p] <= use'[p]
    BY HubAssumption DEF HubTyped
  <1>6. Idle \in Cycles
    BY CycleFields
  <1> QED BY <1>1, <1>2, <1>4, <1>5, <1>6, HubTypes DEF HubTyped

\* A statement that is carried out though the cycle is over.
LEMMA CarriedStep ==
    ASSUME HubTyped, HubInv, TwoWebs, NEW w \in Webs, Carried(w), Over(w),
           UNCHANGED <<part, now, use, posted>>
    PROVE  HubTyped' /\ HubInv'
  <1>1. CASE web[w].at = "read" /\ Record(web[w].of)
    BY <1>1, LookStep DEF Over
  <1>2. CASE web[w].at # "read"
    BY <1>2, ClaimStep, GiveStep DEF Carried
  <1> QED BY <1>1, <1>2 DEF Carried

LEMMA DropStep ==
    ASSUME HubTyped, HubInv, NEW w \in Webs, web[w].at # "idle",
           Over(w) \/ (web[w].at = "post" /\ Step(w, "release")),
           UNCHANGED <<part, now, use, alerted, posted, month>>
    PROVE  HubTyped' /\ HubInv'
  <1>1. PICK c : /\ web' = [web EXCEPT ![w] = c]
                 /\ c = Idle \/ (web[w].at = "post" /\ c = At(web[w], "release"))
    BY DEF Over, Step, At
  <1>2. web[w] \in Cycles
    BY DEF HubTyped
  <1>3. c \in Cycles /\ (c.at = "idle" \/ (c.of = web[w].of /\ c.target = web[w].target))
    BY <1>1, <1>2, CycleFields
  <1>4. HubInv'
    BY <1>1, <1>3, DropKeeps, CycleFields DEF Moves
  <1>5. \A p \in Periods : use[p] <= use'[p]
    BY HubAssumption DEF HubTyped
  <1> QED BY <1>1, <1>3, <1>4, <1>5, HubTypes DEF HubTyped

LEMMA WorldStep ==
    ASSUME HubTyped, HubInv, UseRises \/ PeriodEnds \/ UNCHANGED <<part, world, alerts>>
    PROVE  HubTyped' /\ HubInv'
  <1>1. UNCHANGED <<part, alerted, web, posted, month>>
    BY DEF UseRises, PeriodEnds, alerts, sent, memory
  <1>2. /\ use' \in [Periods -> 0..Top] /\ now' \in Periods
        /\ \A p \in Periods : use[p] <= use'[p]
    <2>1. CASE UseRises
      <3>1. PICK t \in use[now] + 1..Top : use' = [use EXCEPT ![now] = t]
        BY <2>1 DEF UseRises
      <3>2. use[now] \in 0..Top /\ now' = now
        BY <2>1 DEF UseRises, HubTyped
      <3> QED BY <3>1, <3>2, HubAssumption DEF HubTyped
    <2>2. CASE PeriodEnds
      BY <2>2, HubAssumption DEF PeriodEnds, HubTyped, Periods
    <2>3. CASE UNCHANGED <<part, world, alerts>>
      BY <2>3, HubAssumption DEF world, HubTyped
    <2> QED BY <2>1, <2>2, <2>3
  <1> QED BY <1>1, <1>2, HubStill, HubTypes DEF HubTyped

\* Two web processes post no threshold of a period again that Slack answered for, or whose claim
\* outlived its post, whatever their cycles, Slack, the store and restarts do: CLAIM_ALERT and
\* CLAIM_CLAUDE_ALERT, with what their release gives back.
THEOREM AlertsNotPostedAgain == (TwoWebs /\ HubSpec) => []NotPostedAgain
  <1>1. HubInit => (HubTyped /\ HubInv)
    <2> SUFFICES ASSUME HubInit PROVE HubTyped /\ HubInv
      OBVIOUS
    <2>1. 1 \in Periods /\ 0 \in 0..Top
      BY HubAssumption DEF Periods
    <2>2. HubTyped /\ \A w \in Webs : web[w].at = "idle"
      BY <2>1, CycleFields DEF HubInit, HubTyped
    <2>3. \A p \in Periods, t \in 1..Top : posted[p][t] = 0
      BY DEF HubInit
    <2> QED BY <2>2, <2>3 DEF HubInv, Excluded, Claims, HighestHeld, LaterMonthsOpen
  <1>2. (TwoWebs /\ HubTyped /\ HubInv /\ [HubNext]_hubVars) => (HubTyped' /\ HubInv')
    <2> SUFFICES ASSUME TwoWebs, HubTyped, HubInv, [HubNext]_hubVars PROVE HubTyped' /\ HubInv'
      OBVIOUS
    <2>1. CASE UseRises \/ PeriodEnds \/ UNCHANGED <<part, world, alerts>>
      BY <2>1, WorldStep
    <2>2. CASE StoreGoes \/ StoreComes \/ Notify \/ Listen \/ Hear \/ TickEnds \/ Admissible \/ TakeRefresh
                 \/ IntervalOver \/ UNCHANGED hubVars
      BY <2>1, <2>2 DEF StoreGoes, StoreComes, Notify, Listen, Hear, TickEnds, Admissible, TakeRefresh,
                        IntervalOver, hubVars
    <2>3. ASSUME NEW w \in Webs, Cycle(w) PROVE HubTyped' /\ HubInv'
      <3>1. CASE Poll(w)
        BY <3>1, PollStep
      <3>2. CASE Look(w)
        <4> DEFINE p == web[w].of
                   due == (part = "minutes" => Writes(p) /\ p = now) /\ web[w].target > Before(p)
                   c == IF due THEN Claiming(web[w], Before(p)) ELSE Idle
        <4>1. /\ web[w].at = "read" /\ Record(p) /\ web' = [web EXCEPT ![w] = c]
              /\ UNCHANGED <<part, now, use, posted>>
          BY <3>2 DEF Look, Claiming, world, sent
        <4> QED BY <4>1, LookStep
      <3>3. CASE Claim(w)
        <4>1. CASE Raises(w)
          BY <3>3, <4>1, ClaimStep DEF Claim, world, sent
        <4>2. CASE ~Raises(w)
          BY <3>3, <4>2, DropStep DEF Claim, world, sent
        <4> QED BY <4>1, <4>2
      <3>4. CASE Post(w)
        BY <3>4, PostStep DEF Post, world, memory
      <3>5. CASE PostFails(w)
        BY <3>5, DropStep DEF PostFails, world, memory
      <3>6. CASE Release(w)
        BY <3>6, GiveStep DEF Release, world, sent
      <3>7. CASE StoreFails(w)
        <4>1. web[w].at # "idle" /\ Over(w) /\ UNCHANGED <<part, now, use, posted>>
          BY <3>7 DEF StoreFails, world, sent
        <4>2. CASE Carried(w)
          BY <4>1, <4>2, CarriedStep
        <4>3. CASE UNCHANGED memory
          BY <4>1, <4>3, DropStep DEF memory
        <4> QED BY <3>7, <4>2, <4>3 DEF StoreFails
      <3> QED BY <2>3, <3>1, <3>2, <3>3, <3>4, <3>5, <3>6, <3>7 DEF Cycle
    <2>4. ASSUME NEW w \in Webs, WebRestarts(w) PROVE HubTyped' /\ HubInv'
      <3>1. web[w].at # "idle" /\ Over(w) /\ UNCHANGED <<part, now, use>>
        BY <2>4 DEF WebRestarts, world
      <3>2. CASE UNCHANGED <<memory, posted>>
        BY <3>1, <3>2, DropStep DEF memory
      <3>3. CASE Carried(w) /\ UNCHANGED posted
        BY <3>1, <3>3, CarriedStep
      <3>4. CASE web[w].at = "post" /\ posted' = More(posted, w) /\ UNCHANGED memory
        BY <3>1, <3>4, PostStep DEF memory
      <3> QED BY <2>4, <3>2, <3>3, <3>4 DEF WebRestarts
    <2> QED BY <2>1, <2>2, <2>3, <2>4 DEF HubNext
  <1>3. HubTyped /\ HubInv => NotPostedAgain
    <2> SUFFICES ASSUME HubTyped, HubInv, NEW p \in Periods, NEW t \in 1..Top, posted[p][t] > 0
                 PROVE  /\ posted[p][t] = 1
                        /\ \A w \in Webs : web[w].at = "post" => <<web[w].of, web[w].target>> # <<p, t>>
      BY DEF NotPostedAgain
    <2>1. Remembered(p, t)
      BY DEF HubInv, HubTyped
    <2> QED BY <2>1 DEF Remembered, Claims
  <1>4. TwoWebs => TwoWebs'
    BY DEF TwoWebs
  <1> QED BY <1>1, <1>2, <1>3, <1>4, PTL DEF HubSpec
=============================================================================
