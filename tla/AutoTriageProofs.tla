--------------------------- MODULE AutoTriageProofs ---------------------------
(***************************************************************************)
(* Auto-triage skips no issue and takes up none that its stored watermark  *)
(* has passed, for any number of issues and any settle time that covers    *)
(* the listing's lag and the read's duration.                              *)
(***************************************************************************)
EXTENDS AutoTriage, SequenceTheorems, TLAPS

\* Issues were opened in the order of their numbers, none after now.
InOrder == /\ \A i \in Issues : opened[i] <= now
           /\ \A i, j \in Issues : i < j /\ opened[j] > 0 => opened[i] > 0 /\ opened[i] <= opened[j]

\* A record skips nothing and cannot come to: what may still be opened is
\* opened after its watermark, unless it has passed nothing since its start.
Faithful(r) ==
    /\ r.from = r.watermark \/ r.watermark < now
    /\ \A i \in Issues : opened[i] > r.from /\ opened[i] <= r.watermark => i \in decided

\* The records on their way to the store.
Pending == {backlog[n] : n \in 1..Len(backlog)}

RecordsFaithful == \A r \in Pending \cup {record, stored} : Faithful(r)

\* Issue i is one the scan in hand has to decide.
Due(i) == opened[i] > record.watermark /\ opened[i] <= asked - Lag

\* The answer under way lists every issue that is due.
AnswerComplete ==
    pc = "answer" => /\ asked <= now /\ now <= asked + ReadTime
                     /\ \A i \in found : opened[i] > record.watermark
                     /\ \A i \in Issues : Due(i) => i \in found

\* While the scan decides, what was opened no later than an issue left to
\* decide, or than `watermark`, is decided or left to decide, and what was
\* opened no later than `behind` is decided.
DecidingInOrder ==
    pc = "decide" =>
      /\ asked <= now
      /\ behind <= watermark /\ record.watermark <= behind
      /\ watermark = record.watermark \/ watermark <= asked - Lag
      /\ \A j \in work, i \in Issues : opened[i] > record.watermark /\ opened[i] <= opened[j]
                                       => i \in decided \cup work
      /\ \A i \in Issues : opened[i] > record.watermark /\ opened[i] <= watermark
                             => i \in decided \cup work
      /\ \A i \in Issues : opened[i] > record.watermark /\ opened[i] <= behind
                             => i \in decided
      /\ \A i \in work : /\ watermark <= opened[i] /\ behind < opened[i]
                         /\ opened[i] <= asked - Lag

\* The store's watermark never runs ahead of the one a scan starts from, and
\* only a record that is on is scanned.
StoredBehind ==
    /\ pc # "idle" => record.auto
    /\ stored.watermark <= now /\ record.watermark <= now
    /\ \A r \in Pending : r.watermark <= record.watermark
    /\ record.auto => stored.watermark <= record.watermark

\* Nothing is left to decide but while the scan decides.
AtRest == pc # "decide" => work = {}

AutoTriageInv ==
    /\ AutoTriageTypeOK /\ AtRest /\ InOrder /\ RecordsFaithful
    /\ AnswerComplete /\ DecidingInOrder /\ StoredBehind
-----------------------------------------------------------------------------
\* _record_auto_triage puts one record behind those on their way.
LEMMA Publishing == ASSUME RecordTypeOK, NEW r \in Records, Record(r)
                    PROVE  RecordTypeOK' /\ Pending' \subseteq Pending \cup {r}
<1>1. /\ backlog' \in Seq(Records) /\ Len(backlog') = Len(backlog) + 1
      /\ \A n \in 1..Len(backlog) : backlog'[n] = backlog[n]
      /\ backlog'[Len(backlog) + 1] = r
  BY AppendProperties DEF RecordTypeOK, Record
<1>2. RecordTypeOK'
  BY <1>1 DEF RecordTypeOK, Record
<1>3. Len(backlog) \in Nat
  BY LenProperties DEF RecordTypeOK
<1>4. \A n \in 1..Len(backlog') : n \in 1..Len(backlog) \/ n = Len(backlog) + 1
  BY <1>1, <1>3
<1>5. Pending' \subseteq Pending \cup {r}
  BY <1>1, <1>4 DEF Pending
<1> QED
  BY <1>2, <1>5

\* What the sink takes off the queue is the record that waited longest.
LEMMA Taking == ASSUME RecordTypeOK, backlog # <<>>, backlog' = Tail(backlog)
                PROVE  /\ Head(backlog) \in Pending \cap Records
                       /\ backlog' \in Seq(Records)
                       /\ Pending' \subseteq Pending
<1>1. /\ backlog' \in Seq(Records) /\ Len(backlog') = Len(backlog) - 1
      /\ \A n \in 1..Len(backlog') : backlog'[n] = backlog[n + 1]
      /\ Head(backlog) \in Records
  BY HeadTailProperties DEF RecordTypeOK
<1>2. Len(backlog) \in Nat \ {0}
  BY EmptySeq DEF RecordTypeOK
<1>3. Head(backlog) = backlog[1]
  BY DEF RecordTypeOK
<1>4. Head(backlog) \in Pending
  BY <1>2, <1>3 DEF Pending
<1>5. \A n \in 1..Len(backlog') : n + 1 \in 1..Len(backlog)
  BY <1>1, <1>2
<1>6. Pending' \subseteq Pending
  BY <1>1, <1>5 DEF Pending
<1> QED
  BY <1>1, <1>4, <1>6

\* What the invariant says of the types of the numbers a step compares.
LEMMA Numbers ==
    ASSUME AutoTriageInv
    PROVE  /\ now \in Nat /\ asked \in Nat /\ watermark \in Nat /\ behind \in Nat
           /\ \A i \in Issues : opened[i] \in Nat
           /\ record \in Records /\ stored \in Records
           /\ \A r \in Pending : r \in Records
           /\ \A r \in Records : r.watermark \in Nat /\ r.from \in Nat
           /\ work \subseteq Issues
<1> USE AutoTriageAssumption
    DEF AutoTriageAssumption, AutoTriageInv, AutoTriageTypeOK, BoardTypeOK, RecordTypeOK, ScanTypeOK, Times
<1>1. \A r \in Pending : r \in Records
  <2>1. Len(backlog) \in Nat /\ \A n \in 1..Len(backlog) : backlog[n] \in Records
    BY ElementOfSeq, LenProperties
  <2> QED
    BY <2>1 DEF Pending
<1>2. \A r \in Records : r.watermark \in Nat /\ r.from \in Nat
  BY DEF Records
<1> QED
  BY <1>1, <1>2

\* The issue a scan decides next is the oldest it has left, and where a refused
\* label would leave the watermark, everything is decided.
LEMMA OldestFirst ==
    ASSUME AutoTriageInv, pc = "decide", NEW i \in Issues, First(i)
    PROVE  /\ \A j \in work : opened[i] <= opened[j]
           /\ Behind(i) \in Nat /\ record.watermark <= Behind(i) /\ Behind(i) < opened[i]
           /\ Behind(i) = record.watermark \/ Behind(i) <= asked - Lag
           /\ \A k \in Issues : opened[k] > record.watermark /\ opened[k] <= Behind(i)
                               => k \in decided
<1> USE AutoTriageAssumption
    DEF AutoTriageAssumption, AutoTriageInv, AutoTriageTypeOK, BoardTypeOK, RecordTypeOK, ScanTypeOK,
        Records, Times, Issues
<1>1. \A j \in work : i <= j /\ j \in Issues /\ opened[j] > 0
  BY DEF First
<1>2. \A j \in work : opened[i] <= opened[j]
  BY <1>1 DEF InOrder
<1>3. Behind(i) \in Nat /\ record.watermark <= Behind(i) /\ Behind(i) < opened[i]
  BY DEF Behind, First, DecidingInOrder
<1>4. Behind(i) = record.watermark \/ Behind(i) <= asked - Lag
  BY DEF Behind, First, DecidingInOrder
<1>5. ASSUME NEW k \in Issues, opened[k] > record.watermark, opened[k] <= Behind(i)
      PROVE  k \in decided
  <2>1. CASE opened[i] > watermark
    <3>1. k \in decided \cup work
      BY <1>5, <2>1 DEF Behind, DecidingInOrder
    <3>2. k \notin work
      BY <1>2, <1>3, <1>5
    <3> QED
      BY <3>1, <3>2
  <2>2. CASE opened[i] <= watermark
    BY <1>5, <2>2 DEF Behind, DecidingInOrder
  <2> QED
    BY <2>1, <2>2
<1> QED
  BY <1>2, <1>3, <1>4, <1>5

\* A decided issue leaves the rest of the scan in order.
LEMMA PassKeeps ==
    ASSUME AutoTriageInv, pc = "decide", NEW i \in Issues, First(i), Pass(i),
           UNCHANGED <<now, opened, record, pc, asked>>
    PROVE  DecidingInOrder'
<1>0. /\ \A j \in work : opened[i] <= opened[j]
      /\ Behind(i) \in Nat /\ record.watermark <= Behind(i) /\ Behind(i) < opened[i]
  BY OldestFirst
<1> USE AutoTriageAssumption
    DEF AutoTriageAssumption, AutoTriageInv, AutoTriageTypeOK, BoardTypeOK, RecordTypeOK, ScanTypeOK,
        Records, Times, Issues
<1>1. behind' <= watermark' /\ record.watermark <= behind'
  <2>1. behind' = Behind(i) /\ watermark' = opened[i]
    BY DEF Pass
  <2>2. opened[i] \in Nat /\ Behind(i) \in Nat /\ record.watermark <= Behind(i) /\ Behind(i) < opened[i]
    BY <1>0
  <2> QED
    BY <2>1, <2>2
<1>2. watermark' <= asked - Lag
  BY DEF Pass, First, DecidingInOrder
<1>3. ASSUME NEW j \in work', NEW k \in Issues, opened[k] > record.watermark, opened[k] <= opened[j]
      PROVE  k \in decided' \cup work'
  BY <1>3 DEF Pass, DecidingInOrder
<1>4. ASSUME NEW k \in Issues, opened[k] > record.watermark, opened[k] <= watermark'
      PROVE  k \in decided' \cup work'
  BY <1>4 DEF Pass, First, DecidingInOrder
<1>5. ASSUME NEW k \in Issues, opened[k] > record.watermark, opened[k] <= behind'
      PROVE  k \in decided'
  BY <1>5, OldestFirst DEF Pass
<1>6. ASSUME NEW j \in work'
      PROVE  watermark' <= opened[j] /\ behind' < opened[j] /\ opened[j] <= asked - Lag
  <2>1. j \in work /\ behind' = Behind(i) /\ watermark' = opened[i]
    BY <1>6 DEF Pass
  <2>2. /\ opened[i] \in Nat /\ opened[j] \in Nat /\ Behind(i) \in Nat
        /\ opened[i] <= opened[j] /\ Behind(i) < opened[i]
    BY <1>0, <2>1
  <2>3. opened[j] <= asked - Lag
    BY <2>1 DEF DecidingInOrder
  <2> QED
    BY <2>1, <2>2, <2>3
<1> QED
  BY <1>1, <1>2, <1>3, <1>4, <1>5, <1>6 DEF DecidingInOrder

-----------------------------------------------------------------------------
\* Every step keeps the times within the clock and the board's sets within the
\* issues.
LEMMA BoardTypes == AutoTriageInv /\ [Next]_vars => BoardTypeOK'
<1> SUFFICES ASSUME AutoTriageInv, [Next]_vars PROVE BoardTypeOK'
  OBVIOUS
<1> USE AutoTriageAssumption
    DEF AutoTriageAssumption, AutoTriageInv, AutoTriageTypeOK, BoardTypeOK, Issues, Times, memory, board, store, scan, bounds
<1>1. CASE SettleSetting
  BY <1>1 DEF SettleSetting, Record
<1>2. CASE Scan
  BY <1>2 DEF Scan
<1>3. CASE ReadFails
  BY <1>3 DEF ReadFails, EndScan
<1>4. CASE Read
  BY <1>4 DEF Read
<1>5. CASE Answer
  BY <1>5 DEF Answer
<1>6. ASSUME NEW i \in Issues, PassOver(i) PROVE BoardTypeOK'
  BY <1>6 DEF PassOver, Pass, First, ScanTypeOK
<1>7. ASSUME NEW i \in Issues, Label(i) PROVE BoardTypeOK'
  BY <1>7 DEF Label, Pass, First, ScanTypeOK
<1>8. ASSUME NEW i \in Issues, LabelFails(i) PROVE BoardTypeOK'
  BY <1>8 DEF LabelFails, First, ScanTypeOK
<1>9. CASE ScanDone
  BY <1>9 DEF ScanDone, Record, EndScan
<1>10. CASE Write
  BY <1>10 DEF Write
<1>11. CASE Lose
  BY <1>11 DEF Lose
<1>12. CASE Restart
  BY <1>12 DEF Restart, EndScan
<1>13. CASE Toggle
  <2>1. setting' \in BOOLEAN
    BY <1>13, Zenon DEF Toggle
  <2>2. toggles' \in 0..MaxToggles
    BY <1>13 DEF Toggle
  <2> QED
    BY <1>13, <2>1, <2>2 DEF Toggle
<1>14. ASSUME NEW i \in Issues, Open(i) PROVE BoardTypeOK'
  BY <1>14 DEF Open
<1>15. ASSUME NEW i \in Issues, Tag(i) PROVE BoardTypeOK'
  BY <1>15 DEF Tag
<1>16. ASSUME NEW i \in Issues, Untag(i) PROVE BoardTypeOK'
  BY <1>16 DEF Untag
<1>17. CASE Second
  BY <1>17 DEF Second
<1>18. CASE UNCHANGED vars
  BY <1>18 DEF vars
<1> QED
  BY <1>1, <1>2, <1>3, <1>4, <1>5, <1>6, <1>7, <1>8, <1>9, <1>10, <1>11, <1>12, <1>13, <1>14, <1>15, <1>16, <1>17, <1>18
  DEF Next, Task, Human, Decide

\* Records are published whole and read back whole.
LEMMA RecordTypes == AutoTriageInv /\ [Next]_vars => RecordTypeOK'
<1> SUFFICES ASSUME AutoTriageInv, [Next]_vars PROVE RecordTypeOK'
  OBVIOUS
<1> USE AutoTriageAssumption
    DEF AutoTriageAssumption, AutoTriageInv, AutoTriageTypeOK, RecordTypeOK, Records, Issues, Times, memory, board, store, scan, bounds
<1>1. CASE SettleSetting
  <2>1. PICK r \in Records : Record(r)
    <3>1. SwitchedOn \in Records
      BY DEF SwitchedOn, BoardTypeOK
    <3>2. [record EXCEPT !.auto = FALSE] \in Records
      OBVIOUS
    <3> QED
      BY <1>1, <3>1, <3>2 DEF SettleSetting
  <2> QED
    BY <2>1, Publishing DEF RecordTypeOK
<1>2. CASE Scan
  BY <1>2 DEF Scan
<1>3. CASE ReadFails
  BY <1>3 DEF ReadFails, EndScan
<1>4. CASE Read
  BY <1>4 DEF Read
<1>5. CASE Answer
  BY <1>5 DEF Answer
<1>6. ASSUME NEW i \in Issues, PassOver(i) PROVE RecordTypeOK'
  BY <1>6 DEF PassOver
<1>7. ASSUME NEW i \in Issues, Label(i) PROVE RecordTypeOK'
  BY <1>7 DEF Label
<1>8. ASSUME NEW i \in Issues, LabelFails(i) PROVE RecordTypeOK'
  BY <1>8 DEF LabelFails
<1>9. CASE ScanDone
  <2>1. [record EXCEPT !.watermark = watermark] \in Records
    BY DEF ScanTypeOK
  <2>2. UNCHANGED <<memory, store>> \/ Record([record EXCEPT !.watermark = watermark])
    BY <1>9 DEF ScanDone
  <2>3. CASE UNCHANGED <<memory, store>>
    BY <2>3
  <2>4. CASE Record([record EXCEPT !.watermark = watermark])
    BY <2>1, <2>4, Publishing DEF RecordTypeOK
  <2> QED
    BY <2>2, <2>3, <2>4
<1>10. CASE Write
  <2>1. Head(backlog) \in Records /\ backlog' \in Seq(Records)
    BY <1>10, Taking DEF Write, RecordTypeOK
  <2> QED
    BY <1>10, <2>1 DEF Write
<1>11. CASE Lose
  BY <1>11 DEF Lose
<1>12. CASE Restart
  <2>1. NoRecord \in Records
    BY DEF NoRecord
  <2>2. record' \in Records /\ backlog' = <<>> /\ autoLabelled' = {} /\ stored' = stored
    BY <1>12, <2>1 DEF Restart
  <2> QED
    BY <2>2
<1>13. CASE Toggle
  BY <1>13 DEF Toggle
<1>14. ASSUME NEW i \in Issues, Open(i) PROVE RecordTypeOK'
  BY <1>14 DEF Open
<1>15. ASSUME NEW i \in Issues, Tag(i) PROVE RecordTypeOK'
  BY <1>15 DEF Tag
<1>16. ASSUME NEW i \in Issues, Untag(i) PROVE RecordTypeOK'
  BY <1>16 DEF Untag
<1>17. CASE Second
  BY <1>17 DEF Second
<1>18. CASE UNCHANGED vars
  BY <1>18 DEF vars
<1> QED
  BY <1>1, <1>2, <1>3, <1>4, <1>5, <1>6, <1>7, <1>8, <1>9, <1>10, <1>11, <1>12, <1>13, <1>14, <1>15, <1>16, <1>17, <1>18
  DEF Next, Task, Human, Decide

\* A scan decides issues of its answer, later ones than `behind`.
LEMMA ScanTypes == AutoTriageInv /\ [Next]_vars => ScanTypeOK'
<1> SUFFICES ASSUME AutoTriageInv, [Next]_vars PROVE ScanTypeOK'
  OBVIOUS
<1> USE AutoTriageAssumption
    DEF AutoTriageAssumption, AutoTriageInv, AutoTriageTypeOK, ScanTypeOK, Issues, Times, memory, board, store, scan, bounds
<1>1. CASE SettleSetting
  BY <1>1 DEF SettleSetting, Record
<1>2. CASE Scan
  BY <1>2 DEF Scan
<1>3. CASE ReadFails
  BY <1>3 DEF ReadFails, EndScan
<1>4. CASE Read
  <2>1. found' \subseteq Issues /\ foundTagged' \subseteq Issues
    BY <1>4 DEF Read, Listed
  <2>2. pc' = "answer" /\ asked' \in Times /\ UNCHANGED <<watermark, behind, work, opened>>
    BY <1>4 DEF Read, BoardTypeOK
  <2>3. work = {}
    BY <1>4 DEF Read, AtRest
  <2> QED
    BY <2>1, <2>2, <2>3
<1>5. CASE Answer
  BY <1>5 DEF Answer, AnswerComplete, RecordTypeOK, Records
<1>6. ASSUME NEW i \in Issues, PassOver(i) PROVE ScanTypeOK'
  BY <1>6, SMTT(60) DEF PassOver, Pass, Behind, First, DecidingInOrder, InOrder, BoardTypeOK
<1>7. ASSUME NEW i \in Issues, Label(i) PROVE ScanTypeOK'
  BY <1>7, SMTT(60) DEF Label, Pass, Behind, First, DecidingInOrder, InOrder, BoardTypeOK
<1>8. ASSUME NEW i \in Issues, LabelFails(i) PROVE ScanTypeOK'
  BY <1>8 DEF LabelFails, Behind, BoardTypeOK
<1>9. CASE ScanDone
  BY <1>9 DEF ScanDone, Record, EndScan
<1>10. CASE Write
  BY <1>10 DEF Write
<1>11. CASE Lose
  BY <1>11 DEF Lose
<1>12. CASE Restart
  BY <1>12 DEF Restart, EndScan
<1>13. CASE Toggle
  BY <1>13 DEF Toggle
<1>14. ASSUME NEW i \in Issues, Open(i) PROVE ScanTypeOK'
  BY <1>14 DEF Open, AtRest, BoardTypeOK
<1>15. ASSUME NEW i \in Issues, Tag(i) PROVE ScanTypeOK'
  BY <1>15 DEF Tag
<1>16. ASSUME NEW i \in Issues, Untag(i) PROVE ScanTypeOK'
  BY <1>16 DEF Untag
<1>17. CASE Second
  BY <1>17 DEF Second
<1>18. CASE UNCHANGED vars
  BY <1>18 DEF vars
<1> QED
  BY <1>1, <1>2, <1>3, <1>4, <1>5, <1>6, <1>7, <1>8, <1>9, <1>10, <1>11, <1>12, <1>13, <1>14, <1>15, <1>16, <1>17, <1>18
  DEF Next, Task, Human, Decide

\* Issues are opened one after the other as time passes.
LEMMA OrderKept == AutoTriageInv /\ [Next]_vars => InOrder'
<1> SUFFICES ASSUME AutoTriageInv, [Next]_vars PROVE InOrder'
  OBVIOUS
<1> USE AutoTriageAssumption
    DEF AutoTriageAssumption, AutoTriageInv, AutoTriageTypeOK, InOrder, BoardTypeOK, Issues, Times, memory, board, store, scan, bounds
<1>1. CASE SettleSetting
  BY <1>1 DEF SettleSetting, Record
<1>2. CASE Scan
  BY <1>2 DEF Scan
<1>3. CASE ReadFails
  BY <1>3 DEF ReadFails
<1>4. CASE Read
  BY <1>4 DEF Read
<1>5. CASE Answer
  BY <1>5 DEF Answer
<1>6. ASSUME NEW i \in Issues, PassOver(i) PROVE InOrder'
  BY <1>6 DEF PassOver
<1>7. ASSUME NEW i \in Issues, Label(i) PROVE InOrder'
  BY <1>7 DEF Label
<1>8. ASSUME NEW i \in Issues, LabelFails(i) PROVE InOrder'
  BY <1>8 DEF LabelFails
<1>9. CASE ScanDone
  BY <1>9 DEF ScanDone
<1>10. CASE Write
  BY <1>10 DEF Write
<1>11. CASE Lose
  BY <1>11 DEF Lose
<1>12. CASE Restart
  BY <1>12 DEF Restart
<1>13. CASE Toggle
  BY <1>13 DEF Toggle
<1>14. ASSUME NEW i \in Issues, Open(i) PROVE InOrder'
  BY <1>14 DEF Open
<1>15. ASSUME NEW i \in Issues, Tag(i) PROVE InOrder'
  BY <1>15 DEF Tag
<1>16. ASSUME NEW i \in Issues, Untag(i) PROVE InOrder'
  BY <1>16 DEF Untag
<1>17. CASE Second
  BY <1>17 DEF Second
<1>18. CASE UNCHANGED vars
  BY <1>18 DEF vars
<1> QED
  BY <1>1, <1>2, <1>3, <1>4, <1>5, <1>6, <1>7, <1>8, <1>9, <1>10, <1>11, <1>12, <1>13, <1>14, <1>15, <1>16, <1>17, <1>18
  DEF Next, Task, Human, Decide

\* GitHub's answer misses nothing older than the listing's lag, whatever is
\* opened before it arrives.
LEMMA AnswersKept == AutoTriageInv /\ [Next]_vars => AnswerComplete'
<1> SUFFICES ASSUME AutoTriageInv, [Next]_vars PROVE AnswerComplete'
  OBVIOUS
<1> USE AutoTriageAssumption
    DEF AutoTriageAssumption, AutoTriageInv, AutoTriageTypeOK, AnswerComplete, Due, BoardTypeOK, ScanTypeOK, RecordTypeOK, Records, Issues, Times, memory, board, store, scan, bounds
<1>1. CASE SettleSetting
  BY <1>1 DEF SettleSetting, Record
<1>2. CASE Scan
  BY <1>2 DEF Scan
<1>3. CASE ReadFails
  BY <1>3 DEF ReadFails, EndScan
<1>4. CASE Read
  BY <1>4 DEF Read, Listed, InOrder
<1>5. CASE Answer
  BY <1>5 DEF Answer
<1>6. ASSUME NEW i \in Issues, PassOver(i) PROVE AnswerComplete'
  BY <1>6 DEF PassOver
<1>7. ASSUME NEW i \in Issues, Label(i) PROVE AnswerComplete'
  BY <1>7 DEF Label
<1>8. ASSUME NEW i \in Issues, LabelFails(i) PROVE AnswerComplete'
  BY <1>8 DEF LabelFails
<1>9. CASE ScanDone
  BY <1>9 DEF ScanDone, Record, EndScan
<1>10. CASE Write
  BY <1>10 DEF Write
<1>11. CASE Lose
  BY <1>11 DEF Lose
<1>12. CASE Restart
  BY <1>12 DEF Restart, EndScan
<1>13. CASE Toggle
  BY <1>13 DEF Toggle
<1>14. ASSUME NEW i \in Issues, Open(i) PROVE AnswerComplete'
  BY <1>14 DEF Open, InOrder
<1>15. ASSUME NEW i \in Issues, Tag(i) PROVE AnswerComplete'
  BY <1>15 DEF Tag
<1>16. ASSUME NEW i \in Issues, Untag(i) PROVE AnswerComplete'
  BY <1>16 DEF Untag
<1>17. CASE Second
  BY <1>17 DEF Second
<1>18. CASE UNCHANGED vars
  BY <1>18 DEF vars
<1> QED
  BY <1>1, <1>2, <1>3, <1>4, <1>5, <1>6, <1>7, <1>8, <1>9, <1>10, <1>11, <1>12, <1>13, <1>14, <1>15, <1>16, <1>17, <1>18
  DEF Next, Task, Human, Decide

\* A record published with the clock, no older than the last, keeps the store
\* behind.
LEMMA PublishedBehind ==
    ASSUME AutoTriageInv, NEW r \in Records, Record(r), pc' = "idle", now' = now,
           record.watermark <= r.watermark, r.watermark <= now,
           r.auto => stored.watermark <= r.watermark
    PROVE  StoredBehind'
<1>1. RecordTypeOK
  BY DEF AutoTriageInv, AutoTriageTypeOK
<1>2. Pending' \subseteq Pending \cup {r} /\ record' = r /\ stored' = stored
  BY <1>1, Publishing DEF Record
<1>3. StoredBehind
  BY DEF AutoTriageInv
<1>4. ASSUME NEW q \in Pending' PROVE q.watermark <= r.watermark
  BY <1>2, <1>3, Numbers DEF StoredBehind
<1> QED
  BY <1>2, <1>3, <1>4 DEF StoredBehind

\* Switching on and off keeps the store behind.
LEMMA SettledBehind == ASSUME AutoTriageInv, SettleSetting PROVE StoredBehind'
<1> DEFINE Off == [record EXCEPT !.auto = FALSE]
<1>1. StoredBehind
  BY DEF AutoTriageInv
<1>2. pc' = "idle" /\ now' = now /\ (Record(SwitchedOn) \/ Record(Off))
  BY DEF SettleSetting, scan
<1>3. /\ SwitchedOn \in Records /\ SwitchedOn.watermark = now
      /\ Off \in Records /\ Off.watermark = record.watermark /\ Off.auto = FALSE
  BY DEF SwitchedOn, AutoTriageInv, AutoTriageTypeOK, BoardTypeOK, RecordTypeOK, Records
<1>4. /\ record.watermark <= now /\ stored.watermark <= now
      /\ now \in Nat /\ record.watermark \in Nat
  BY <1>1, Numbers DEF StoredBehind
<1>5. CASE Record(SwitchedOn)
  BY <1>2, <1>3, <1>4, <1>5, PublishedBehind
<1>6. CASE Record(Off)
  <2>1. record.watermark <= Off.watermark /\ Off.watermark <= now
    BY <1>3, <1>4
  <2>2. Off.auto => stored.watermark <= Off.watermark
    BY <1>3
  <2> HIDE DEF Off
  <2> QED
    BY <1>2, <1>3, <1>6, <2>1, <2>2, PublishedBehind
<1> QED
  BY <1>2, <1>5, <1>6

\* So does the end of a scan, whose watermark is past the last.
LEMMA ScannedBehind == ASSUME AutoTriageInv, ScanDone PROVE StoredBehind'
<1> DEFINE End == [record EXCEPT !.watermark = watermark]
<1>1. StoredBehind /\ DecidingInOrder
  BY DEF AutoTriageInv
<1>2. pc = "decide" /\ pc' = "idle" /\ now' = now /\ (UNCHANGED <<memory, store>> \/ Record(End))
  BY DEF ScanDone, EndScan
<1>3. End \in Records /\ End.watermark = watermark
  BY DEF AutoTriageInv, AutoTriageTypeOK, RecordTypeOK, ScanTypeOK, Records
<1>4. CASE UNCHANGED <<memory, store>>
  BY <1>1, <1>2, <1>4 DEF StoredBehind, Pending, memory, store
<1>5. CASE Record(End)
  <2>1. /\ record.watermark <= behind /\ behind <= watermark /\ asked <= now
        /\ watermark = record.watermark \/ watermark <= asked - Lag
        /\ record.watermark <= now /\ stored.watermark <= record.watermark
    BY <1>1, <1>2 DEF StoredBehind, DecidingInOrder
  <2>2. record.watermark <= watermark /\ watermark <= now /\ stored.watermark <= watermark
    BY <2>1, Numbers, AutoTriageAssumption DEF AutoTriageAssumption
  <2>3. record.watermark <= End.watermark /\ End.watermark <= now /\ stored.watermark <= End.watermark
    BY <1>3, <2>2
  <2> HIDE DEF End
  <2> QED
    BY <1>2, <1>3, <1>5, <2>3, PublishedBehind
<1> QED
  BY <1>2, <1>4, <1>5

\* The store takes a record no newer than the worker's.
LEMMA WrittenBehind == ASSUME AutoTriageInv, Write PROVE StoredBehind'
<1>1. StoredBehind /\ RecordTypeOK
  BY DEF AutoTriageInv, AutoTriageTypeOK
<1>2. stored' \in Pending /\ Pending' \subseteq Pending
  BY <1>1, Taking DEF Write
<1>3. UNCHANGED <<now, record, pc>>
  BY DEF Write, memory, scan
<1>4. stored'.watermark <= record.watermark /\ record.watermark <= now
  BY <1>1, <1>2 DEF StoredBehind
<1>5. stored'.watermark <= now
  BY <1>2, <1>4, Numbers
<1> QED
  BY <1>1, <1>2, <1>3, <1>4, <1>5 DEF StoredBehind

\* What the store holds is never ahead of the record a scan starts from.
LEMMA StoredKept == AutoTriageInv /\ [Next]_vars => StoredBehind'
<1> SUFFICES ASSUME AutoTriageInv, [Next]_vars PROVE StoredBehind'
  OBVIOUS
<1> USE AutoTriageAssumption
    DEF AutoTriageAssumption, AutoTriageInv, AutoTriageTypeOK, StoredBehind, BoardTypeOK, ScanTypeOK, RecordTypeOK, Records, Issues, Times, memory, board, store, scan, bounds
<1>1. CASE SettleSetting
  BY <1>1, SettledBehind
<1>2. CASE Scan
  BY <1>2 DEF Pending, Scan
<1>3. CASE ReadFails
  BY <1>3 DEF Pending, ReadFails, EndScan
<1>4. CASE Read
  BY <1>4 DEF Pending, Read
<1>5. CASE Answer
  BY <1>5 DEF Pending, Answer
<1>6. ASSUME NEW i \in Issues, PassOver(i) PROVE StoredBehind'
  BY <1>6 DEF Pending, PassOver
<1>7. ASSUME NEW i \in Issues, Label(i) PROVE StoredBehind'
  BY <1>7 DEF Pending, Label
<1>8. ASSUME NEW i \in Issues, LabelFails(i) PROVE StoredBehind'
  BY <1>8 DEF Pending, LabelFails
<1>9. CASE ScanDone
  BY <1>9, ScannedBehind
<1>10. CASE Write
  BY <1>10, WrittenBehind
<1>11. CASE Lose
  <2>1. Pending' \subseteq Pending
    BY <1>11, Taking DEF Lose
  <2> QED
    BY <1>11, <2>1 DEF Lose
<1>12. CASE Restart
  BY <1>12 DEF Pending, Restart, EndScan, NoRecord
<1>13. CASE Toggle
  BY <1>13 DEF Pending, Toggle
<1>14. ASSUME NEW i \in Issues, Open(i) PROVE StoredBehind'
  BY <1>14 DEF Pending, Open
<1>15. ASSUME NEW i \in Issues, Tag(i) PROVE StoredBehind'
  BY <1>15 DEF Pending, Tag
<1>16. ASSUME NEW i \in Issues, Untag(i) PROVE StoredBehind'
  BY <1>16 DEF Pending, Untag
<1>17. CASE Second
  BY <1>17 DEF Pending, Second
<1>18. CASE UNCHANGED vars
  BY <1>18 DEF Pending, vars
<1> QED
  BY <1>1, <1>2, <1>3, <1>4, <1>5, <1>6, <1>7, <1>8, <1>9, <1>10, <1>11, <1>12, <1>13, <1>14, <1>15, <1>16, <1>17, <1>18
  DEF Next, Task, Human, Decide

\* What the answer lists and is settled is all that the scan has to decide.
LEMMA AnsweredInOrder == ASSUME AutoTriageInv, Answer PROVE DecidingInOrder'
<1>1. /\ pc = "answer" /\ work' = {k \in found : Settled(k)}
      /\ watermark' = record.watermark /\ behind' = record.watermark
      /\ UNCHANGED <<now, opened, record, asked, decided>>
  BY DEF Answer, board, memory
<1>2. /\ asked <= now /\ now <= asked + ReadTime
      /\ \A k \in found : opened[k] > record.watermark
      /\ \A k \in Issues : Due(k) => k \in found
  BY <1>1 DEF AutoTriageInv, AnswerComplete
<1>3. /\ now \in Nat /\ asked \in Nat /\ record.watermark \in Nat
      /\ \A k \in Issues : opened[k] \in Nat
      /\ Settle \in Nat /\ Lag \in Nat /\ ReadTime \in Nat /\ Lag + ReadTime <= Settle
      /\ found \subseteq Issues
  BY Numbers, AutoTriageAssumption DEF AutoTriageAssumption, AutoTriageInv, AutoTriageTypeOK, ScanTypeOK
<1>4. \A k \in work' : /\ k \in found /\ k \in Issues
                       /\ opened[k] <= now - Settle /\ opened[k] <= asked - Lag
  BY <1>1, <1>2, <1>3 DEF Settled
<1>5. ASSUME NEW j \in work', NEW k \in Issues, opened[k] > record.watermark, opened[k] <= opened[j]
      PROVE  k \in work'
  <2>1. opened[k] <= now - Settle /\ opened[k] <= asked - Lag
    BY <1>3, <1>4, <1>5
  <2>2. k \in found
    BY <1>2, <1>5, <2>1 DEF Due
  <2> QED
    BY <1>1, <2>1, <2>2 DEF Settled
<1>6. ~ \E k \in Issues : opened[k] > record.watermark /\ opened[k] <= record.watermark
  BY <1>3
<1>7. \A k \in work' : record.watermark <= opened[k] /\ record.watermark < opened[k]
  BY <1>2, <1>3, <1>4
<1> QED
  BY <1>1, <1>2, <1>3, <1>4, <1>5, <1>6, <1>7 DEF DecidingInOrder

\* An issue opened now is later than everything a scan in hand decides.
LEMMA OpenedLater == ASSUME AutoTriageInv, NEW i \in Issues, Open(i) PROVE DecidingInOrder'
<1> SUFFICES ASSUME pc = "decide" PROVE DecidingInOrder'
  BY DEF Open, DecidingInOrder, scan
<1>1. /\ opened \in [Issues -> Nat] /\ opened[i] = 0 /\ opened' = [opened EXCEPT ![i] = now]
  BY Numbers DEF Open, AutoTriageInv, AutoTriageTypeOK, BoardTypeOK
<1>2. \A k \in Issues : opened'[k] = IF k = i THEN now ELSE opened[k]
  BY <1>1
<1>3. UNCHANGED <<now, record, pc, asked, work, watermark, behind, decided>>
  BY DEF Open, memory, scan
<1>4. DecidingInOrder /\ record.watermark <= now
  BY DEF AutoTriageInv, StoredBehind
<1>5. /\ now \in Nat /\ asked \in Nat /\ watermark \in Nat /\ behind \in Nat /\ record.watermark \in Nat
      /\ \A k \in Issues : opened[k] \in Nat
      /\ work \subseteq Issues /\ Lag \in Nat \ {0}
  BY Numbers, AutoTriageAssumption DEF AutoTriageAssumption
<1>6. now > asked - Lag /\ (now <= watermark => now <= record.watermark)
  BY <1>4, <1>5 DEF DecidingInOrder
<1>7. \A j \in work : j # i /\ opened'[j] = opened[j] /\ opened[j] < now
  <2>1. i \notin work
    BY <1>1, <1>4, <1>5 DEF DecidingInOrder
  <2> QED
    BY <1>2, <1>4, <1>5, <1>6, <2>1 DEF DecidingInOrder
<1>8. ASSUME NEW j \in work, NEW k \in Issues, opened'[k] > record.watermark, opened'[k] <= opened'[j]
      PROVE  k \in decided \cup work
  <2>1. k # i
    BY <1>2, <1>5, <1>7, <1>8
  <2> QED
    BY <1>2, <1>4, <1>7, <1>8, <2>1 DEF DecidingInOrder
<1>9. ASSUME NEW k \in Issues, opened'[k] > record.watermark, opened'[k] <= watermark
      PROVE  k \in decided \cup work
  <2>1. k # i
    BY <1>2, <1>5, <1>6, <1>9
  <2> QED
    BY <1>2, <1>4, <1>9, <2>1 DEF DecidingInOrder
<1>10. ASSUME NEW k \in Issues, opened'[k] > record.watermark, opened'[k] <= behind
       PROVE  k \in decided
  <2>1. behind <= watermark
    BY <1>4 DEF DecidingInOrder
  <2>2. k # i
    BY <1>2, <1>5, <1>6, <1>10, <2>1
  <2> QED
    BY <1>2, <1>4, <1>10, <2>2 DEF DecidingInOrder
<1>11. \A j \in work : /\ watermark <= opened'[j] /\ behind < opened'[j]
                       /\ opened'[j] <= asked - Lag
  BY <1>4, <1>7 DEF DecidingInOrder
<1> QED
  BY <1>3, <1>4, <1>8, <1>9, <1>10, <1>11 DEF DecidingInOrder

\* The scan decides oldest first, and its two watermarks follow.
LEMMA DecidingKept == AutoTriageInv /\ [Next]_vars => DecidingInOrder'
<1> SUFFICES ASSUME AutoTriageInv, [Next]_vars PROVE DecidingInOrder'
  OBVIOUS
<1> USE AutoTriageAssumption
    DEF AutoTriageAssumption, AutoTriageInv, AutoTriageTypeOK, DecidingInOrder, BoardTypeOK, ScanTypeOK, RecordTypeOK, Records, Issues, Times, memory, board, store, scan, bounds
<1>1. CASE SettleSetting
  BY <1>1 DEF SettleSetting, Record
<1>2. CASE Scan
  BY <1>2 DEF Scan
<1>3. CASE ReadFails
  BY <1>3 DEF ReadFails, EndScan
<1>4. CASE Read
  BY <1>4 DEF Read
<1>5. CASE Answer
  BY <1>5, AnsweredInOrder
<1>6. ASSUME NEW i \in Issues, PassOver(i) PROVE DecidingInOrder'
  BY <1>6, PassKeeps DEF PassOver
<1>7. ASSUME NEW i \in Issues, Label(i) PROVE DecidingInOrder'
  BY <1>7, PassKeeps DEF Label
<1>8. ASSUME NEW i \in Issues, LabelFails(i) PROVE DecidingInOrder'
  <2>1. /\ record.watermark <= Behind(i)
        /\ Behind(i) = record.watermark \/ Behind(i) <= asked - Lag
        /\ \A k \in Issues : opened[k] > record.watermark /\ opened[k] <= Behind(i)
                            => k \in decided
    BY <1>8, OldestFirst DEF LabelFails
  <2>2. work' = {} /\ watermark' = Behind(i)
        /\ UNCHANGED <<now, opened, record, pc, asked, behind, decided>>
    BY <1>8 DEF LabelFails
  <2>3. behind <= Behind(i) /\ record.watermark <= behind /\ asked <= now
    BY <1>8 DEF LabelFails, Behind
  <2>4. \A k \in Issues : opened[k] > record.watermark /\ opened[k] <= behind => k \in decided
    BY <1>8 DEF LabelFails
  <2> QED
    BY <2>1, <2>2, <2>3, <2>4
<1>9. CASE ScanDone
  BY <1>9 DEF ScanDone, EndScan
<1>10. CASE Write
  BY <1>10 DEF Write
<1>11. CASE Lose
  BY <1>11 DEF Lose
<1>12. CASE Restart
  BY <1>12 DEF Restart, EndScan
<1>13. CASE Toggle
  BY <1>13 DEF Toggle
<1>14. ASSUME NEW i \in Issues, Open(i) PROVE DecidingInOrder'
  BY <1>14, OpenedLater
<1>15. ASSUME NEW i \in Issues, Tag(i) PROVE DecidingInOrder'
  BY <1>15 DEF Tag
<1>16. ASSUME NEW i \in Issues, Untag(i) PROVE DecidingInOrder'
  BY <1>16 DEF Untag
<1>17. CASE Second
  BY <1>17 DEF Second
<1>18. CASE UNCHANGED vars
  BY <1>18 DEF vars
<1> QED
  BY <1>1, <1>2, <1>3, <1>4, <1>5, <1>6, <1>7, <1>8, <1>9, <1>10, <1>11, <1>12, <1>13, <1>14, <1>15, <1>16, <1>17, <1>18
  DEF Next, Task, Human, Decide

\* A record that skips nothing never comes to skip an issue.
LEMMA FaithfulStays ==
    ASSUME AutoTriageInv, [Next]_vars, NEW r \in Records, Faithful(r)
    PROVE  Faithful(r)'
<1> USE AutoTriageAssumption
    DEF AutoTriageAssumption, AutoTriageInv, AutoTriageTypeOK, BoardTypeOK, Records, Times, Issues
<1>1. now \in Nat /\ now' \in {now, now + 1}
  BY DEF Next, Task, Human, Decide, SettleSetting, Scan, ReadFails, Read, Answer, PassOver,
     Label, LabelFails, ScanDone, Write, Lose, Restart, Toggle, Open, Tag, Untag, Second, vars
<1>2. decided \subseteq decided'
  BY DEF Next, Task, Human, Decide, SettleSetting, Scan, ReadFails, Read, Answer, PassOver,
     Label, LabelFails, ScanDone, Write, Lose, Restart, Toggle, Open, Tag, Untag, Second, vars, Pass
<1>3. opened' = opened \/ \E i \in Issues : opened' = [opened EXCEPT ![i] = now]
  BY DEF Next, Task, Human, Decide, SettleSetting, Scan, ReadFails, Read, Answer, PassOver,
     Label, LabelFails, ScanDone, Write, Lose, Restart, Toggle, Open, Tag, Untag, Second, vars, board
<1>4. r.from = r.watermark \/ r.watermark < now'
  BY <1>1 DEF Faithful
<1>5. ASSUME NEW i \in Issues, opened'[i] > r.from, opened'[i] <= r.watermark
      PROVE  i \in decided'
  BY <1>2, <1>3, <1>5 DEF Faithful
<1> QED
  BY <1>4, <1>5 DEF Faithful

\* A record published at the end of a scan skips nothing, and none comes to as
\* issues are opened.
LEMMA RecordsKept == AutoTriageInv /\ [Next]_vars => RecordsFaithful'
<1> SUFFICES ASSUME AutoTriageInv, [Next]_vars PROVE RecordsFaithful'
  OBVIOUS
<1> USE AutoTriageAssumption
    DEF AutoTriageAssumption, AutoTriageInv, AutoTriageTypeOK
<1> DEFINE Known == Pending \cup {record, stored}
           End   == [record EXCEPT !.watermark = watermark]
           Off   == [record EXCEPT !.auto = FALSE]
<1>1. \A r \in Known : r \in Records
  BY LenProperties DEF RecordTypeOK, Pending
<1>2. \A r \in Known : Faithful(r)'
  BY <1>1, FaithfulStays DEF RecordsFaithful
<1>3. CASE SettleSetting
  <2>1. PICK r \in Records : Record(r) /\ Faithful(r)
    <3>1. SwitchedOn \in Records /\ Faithful(SwitchedOn)
      BY DEF SwitchedOn, Faithful, BoardTypeOK, Records, Times
    <3>2. Off \in Records /\ Off.from = record.from /\ Off.watermark = record.watermark
      BY DEF RecordTypeOK, Records
    <3>3. Faithful(Off)
      BY <3>2 DEF RecordsFaithful, Faithful
    <3> QED
      BY <1>3, <3>1, <3>2, <3>3 DEF SettleSetting
  <2>2. Faithful(r)'
    BY <2>1, FaithfulStays
  <2>3. Pending' \subseteq Known \cup {r} /\ record' = r /\ stored' = stored
    BY <2>1, Publishing DEF Record
  <2> QED
    BY <1>2, <2>2, <2>3 DEF RecordsFaithful
<1>4. CASE ScanDone
  <2>1. End \in Records /\ End.from = record.from /\ End.watermark = watermark
    BY DEF RecordTypeOK, ScanTypeOK, Records
  <2>2. record.watermark <= watermark /\ (watermark = record.watermark \/ watermark < now)
    <3>1. /\ record.watermark <= behind /\ behind <= watermark /\ asked <= now
          /\ watermark = record.watermark \/ watermark <= asked - Lag
      BY <1>4 DEF ScanDone, DecidingInOrder
    <3> QED
      BY <3>1, Numbers, AutoTriageAssumption DEF AutoTriageAssumption
  <2>3. \A i \in Issues : opened[i] > record.watermark /\ opened[i] <= watermark => i \in decided
    BY <1>4 DEF ScanDone, DecidingInOrder
  <2>4. /\ record.from = record.watermark \/ record.watermark < now
        /\ \A i \in Issues : opened[i] > record.from /\ opened[i] <= record.watermark
                              => i \in decided
    BY DEF RecordsFaithful, Faithful
  <2>5. Faithful(End)
    <3>1. End.from = End.watermark \/ End.watermark < now
      BY <2>1, <2>2, <2>4, Numbers
    <3>2. ASSUME NEW i \in Issues, opened[i] > record.from, opened[i] <= watermark
          PROVE  i \in decided
      BY <2>2, <2>3, <2>4, <3>2, Numbers
    <3> QED
      BY <2>1, <3>1, <3>2 DEF Faithful
  <2>6. PICK r \in Records : r = End
    BY <2>1
  <2>7. Faithful(r)'
    BY <2>5, <2>6, FaithfulStays
  <2>8. UNCHANGED <<memory, store>> \/ Record(r)
    BY <1>4, <2>6 DEF ScanDone
  <2>9. Pending' \subseteq Known \cup {r} /\ record' \in {record, r} /\ stored' = stored
    BY <2>8, Publishing DEF Record, Pending, memory, store
  <2> QED
    BY <1>2, <2>7, <2>9 DEF RecordsFaithful
<1>5. CASE Restart
  <2>1. NoRecord \in Records /\ Faithful(NoRecord)
    BY DEF NoRecord, Records, Times, Faithful, BoardTypeOK
  <2>2. Faithful(NoRecord)'
    BY <2>1, FaithfulStays
  <2>3. Pending' = {} /\ record' \in {stored, NoRecord} /\ stored' = stored
    BY <1>5 DEF Restart, Pending
  <2> QED
    BY <1>2, <2>2, <2>3 DEF RecordsFaithful
<1>6. CASE Write \/ Lose
  <2>1. Pending' \subseteq Pending /\ record' = record /\ stored' \in Pending \cup {stored}
    BY <1>6, Taking DEF Write, Lose, memory
  <2> QED
    BY <1>2, <2>1 DEF RecordsFaithful
<1>7. CASE UNCHANGED <<record, store>>
  BY <1>2, <1>7 DEF RecordsFaithful, Pending, store
<1>8. SettleSetting \/ ScanDone \/ Restart \/ Write \/ Lose \/ UNCHANGED <<record, store>>
  BY DEF Next, Task, Human, Decide, Scan, ReadFails, Read, Answer, PassOver, Label, LabelFails,
         Toggle, Open, Tag, Untag, Second, vars, memory
<1> QED
  BY <1>3, <1>4, <1>5, <1>6, <1>7, <1>8

\* Only an answer gives the scan something to decide.
LEMMA RestKept == AutoTriageInv /\ [Next]_vars => AtRest'
<1> SUFFICES ASSUME AutoTriageInv, [Next]_vars PROVE AtRest'
  OBVIOUS
<1> USE DEF AutoTriageInv, AtRest
<1>1. CASE ReadFails \/ ScanDone \/ Restart
  BY <1>1 DEF ReadFails, ScanDone, Restart, EndScan
<1>2. CASE Answer
  BY <1>2 DEF Answer
<1>3. ASSUME NEW i \in Issues, PassOver(i) \/ Label(i) \/ LabelFails(i) PROVE AtRest'
  BY <1>3 DEF PassOver, Label, LabelFails
<1>4. CASE Scan \/ Read
  BY <1>4 DEF Scan, Read
<1>5. CASE UNCHANGED scan
  BY <1>5 DEF scan
<1>6. \/ ReadFails \/ ScanDone \/ Restart \/ Answer \/ Decide \/ Scan \/ Read
      \/ UNCHANGED scan
  BY DEF Next, Task, Human, SettleSetting, Write, Lose, Toggle, Open, Tag, Untag, Second, vars
<1> QED
  BY <1>1, <1>2, <1>3, <1>4, <1>5, <1>6 DEF Decide

\* The invariant holds throughout.
THEOREM AutoTriageInvariance == Spec => []AutoTriageInv
<1>1. Init => AutoTriageInv
  BY AutoTriageAssumption
  DEF AutoTriageAssumption, Init, AutoTriageInv, AutoTriageTypeOK, BoardTypeOK, RecordTypeOK,
      ScanTypeOK, AtRest, InOrder, Pending, RecordsFaithful, Faithful, AnswerComplete,
      DecidingInOrder, StoredBehind, NoRecord, Records, Times, Issues
<1>2. AutoTriageInv /\ [Next]_vars => AutoTriageInv'
  BY BoardTypes, RecordTypes, ScanTypes, RestKept, OrderKept, RecordsKept, AnswersKept, DecidingKept, StoredKept
  DEF AutoTriageInv, AutoTriageTypeOK
<1> QED
  BY <1>1, <1>2, PTL DEF Spec

\* No issue is skipped, whatever the watermark is read back from.
THEOREM NoneIsSkipped == Spec => []NoneSkipped
<1>1. AutoTriageInv => NoneSkipped
  BY DEF AutoTriageInv, RecordsFaithful, Faithful, NoneSkipped
<1> QED
  BY <1>1, AutoTriageInvariance, PTL

\* What the stored watermark has passed is labelled by no process.
THEOREM StoredIsFinal == Spec => FinalOnceStored
<1>1. AutoTriageInv /\ [Next]_vars
        => [\A i \in Issues : labels'[i] > labels[i] => opened[i] > stored.watermark]_vars
  <2> SUFFICES ASSUME AutoTriageInv, Next, NEW k \in Issues, labels'[k] > labels[k]
               PROVE opened[k] > stored.watermark
    BY DEF FinalOnceStored
  <2> USE AutoTriageAssumption DEF AutoTriageAssumption, AutoTriageInv, AutoTriageTypeOK, BoardTypeOK,
                 ScanTypeOK, RecordTypeOK
  <2>1. CASE Label(k)
    BY <2>1 DEF Label, First, DecidingInOrder, StoredBehind, Times, Records
  <2>2. CASE Restart
    BY <2>2 DEF Restart
  <2>3. ASSUME NEW i \in Issues, Label(i), i # k PROVE FALSE
    BY <2>3 DEF Label
  <2>4. UNCHANGED labels \/ Restart \/ \E i \in Issues : Label(i)
    BY DEF Next, Task, Human, Decide, SettleSetting, Scan, ReadFails, Read, Answer, PassOver,
           LabelFails, ScanDone, Write, Lose, Toggle, Open, Tag, Untag, Second
  <2> QED
    BY <2>1, <2>2, <2>3, <2>4
<1> QED
  BY <1>1, AutoTriageInvariance, PTL DEF Spec, FinalOnceStored
-----------------------------------------------------------------------------
\* What this process has labelled it has labelled once, and remembers.
Remembered == \A i \in Issues : labels[i] \in {0, 1} /\ (labels[i] = 1 => i \in autoLabelled)

\* Every step keeps it: the one that labels is refused for what is remembered,
\* and only a restart forgets.
LEMMA RememberedKept == AutoTriageInv /\ Remembered /\ [Next]_vars => Remembered'
<1> SUFFICES ASSUME AutoTriageInv, Remembered, [Next]_vars PROVE Remembered'
  OBVIOUS
<1>1. labels \in [Issues -> 0..2]
  BY DEF AutoTriageInv, AutoTriageTypeOK, ScanTypeOK, BoardTypeOK, RecordTypeOK
<1>2. CASE Restart
  BY <1>2 DEF Restart, Remembered
<1>3. ASSUME NEW i \in Issues, Label(i) PROVE Remembered'
  <2>1. labels[i] = 0
    BY <1>3 DEF Remembered, Label, Skip
  <2>2. /\ labels' = [labels EXCEPT ![i] = 1]
        /\ autoLabelled' = autoLabelled \cup {i}
    BY <1>3, <2>1 DEF Label
  <2> QED
    BY <1>1, <2>2 DEF Remembered
<1>4. CASE UNCHANGED labels /\ autoLabelled \subseteq autoLabelled'
  BY <1>4 DEF Remembered
<1>5. \/ UNCHANGED labels /\ autoLabelled \subseteq autoLabelled'
      \/ Restart
      \/ \E i \in Issues : Label(i)
  BY DEF Next, Task, Human, Decide, SettleSetting, Scan, ReadFails, Read, Answer, PassOver,
         LabelFails, ScanDone, Write, Lose, Toggle, Open, Tag, Untag, Second, vars, memory, Record
<1> QED
  BY <1>2, <1>3, <1>4, <1>5

\* One process labels an issue once, whatever a refused write left behind.
THEOREM LabelsOnce == Spec => []LabelledOnce
<1>1. Init => Remembered
  BY DEF Init, Remembered
<1>2. Remembered => LabelledOnce
  BY DEF Remembered, LabelledOnce
<1> QED
  BY <1>1, <1>2, RememberedKept, AutoTriageInvariance, PTL DEF Spec
=============================================================================
