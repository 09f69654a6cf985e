---------------------------- MODULE ApprovalProofs ----------------------------
(***************************************************************************)
(* No session starts on a text that was never approved, for histories of   *)
(* any length, over any number of seconds, with any number of faults.      *)
(***************************************************************************)
EXTENDS Approval, TLAPS

Entries == [what : {"todo", "triage_todo"} \cup Fields, by : Labellers \cup Editors,
            at : Nat, text : [Fields -> Nat]]

TypeOK ==
    /\ log \in Seq(Entries) /\ Len(log) >= 1
    /\ now \in Nat /\ kind \in Kinds
    /\ asker = [at |-> asker.at, snap |-> asker.snap, timeline |-> asker.timeline]

\* Stamps follow the order of the history and are never of the future.
Stamped ==
    /\ \A k \in 1..Len(log) : log[k].at <= now
    /\ \A j, k \in 1..Len(log) : j <= k => log[j].at <= log[k].at

\* The text after a record is, field by field, that of the last edit up to it.
Texts ==
    /\ \A k \in 1..Len(log), f \in Fields :
          /\ log[k].text[f] <= k
          /\ log[k].text[f] # 0 => log[log[k].text[f]].what = f
    /\ \A j, k \in 1..Len(log), f \in Fields : j <= k => log[j].text[f] <= log[k].text[f]
    /\ \A e, k \in 1..Len(log), f \in Fields :
          e <= k /\ log[e].what = f => e <= log[k].text[f]

\* What an asker holds was read from the history, the snapshot first.
Reads ==
    /\ asker.at # "away" => /\ asker.snap.read \in 1..Len(log)
                            /\ asker.snap.text = log[asker.snap.read].text
    /\ asker.at = "reading" => asker.timeline \in asker.snap.read..Len(log)

\* Why a text may be worked: a label that is of it, or came after it was read.
Labelled(text) ==
    \E i \in Approvals(Len(log)) :
        OfLabel(text, i) \/ \E p \in 1..Len(log) : p < i /\ log[p].text = text
Authored(text, standing) ==
    /\ kind = "triage" /\ standing
    /\ \A f \in Fields : text[f] = 0 \/ log[text[f]].by = author
Grounds(text, standing) ==
    /\ \E p \in 1..Len(log) : log[p].text = text
    /\ Labelled(text) \/ Authored(text, standing)

\* Every verdict in force, remembered or acted on, has its grounds.
Verdicts ==
    /\ remembered.approved => Grounds(remembered.key.text, remembered.key.member)
    /\ asker.at = "granted" => Grounds(asker.snap.text, asker.snap.member)

IInv == TypeOK /\ Stamped /\ Texts /\ Reads /\ Verdicts
-----------------------------------------------------------------------------
\* At first there is one label, and nothing has been read.
LEMMA InvInit == Init => IInv
  <1> SUFFICES ASSUME Init PROVE IInv
    OBVIOUS
  <1>1. PICK by \in Labellers : log = <<Record(Wanted, by, [f \in Fields |-> 0])>>
    BY DEF Init
  <1>2. Record(Wanted, by, [f \in Fields |-> 0]) \in Entries
    BY DEF Init, Record, Entries, Wanted
  <1>3. log \in Seq(Entries) /\ Len(log) = 1 /\ log[1] = Record(Wanted, by, [f \in Fields |-> 0])
    BY <1>1, <1>2
  <1>4. log[1].at = 0 /\ log[1].what = Wanted /\ \A f \in Fields : log[1].text[f] = 0
    BY <1>3 DEF Record, Init
  <1>5. Wanted \notin Fields
    BY DEF Wanted, Fields
  <1>6. TypeOK
    BY <1>3 DEF Init, TypeOK, Away
  <1>7. Stamped
    BY <1>3, <1>4 DEF Init, Stamped
  <1>8. Texts
    BY <1>3, <1>4, <1>5 DEF Texts
  <1>9. Reads /\ Verdicts
    BY DEF Init, Reads, Verdicts, Away, Forgotten
  <1> QED
    BY <1>6, <1>7, <1>8, <1>9 DEF IInv

\* The text of a later record, as far as an earlier one's label approved it.
LEMMA LaterText ==
    ASSUME TypeOK, Stamped, Texts, NEW r \in 1..Len(log), NEW f \in Fields,
           log[r].text[f] # 0
    PROVE  /\ log[r].text[f] \in 1..r /\ log[r].text[f] \in 1..Len(log)
           /\ log[log[r].text[f]].what = f
  <1>1. log[r] \in Entries
    BY DEF TypeOK
  <1>2. log[r].text[f] \in Nat
    BY <1>1 DEF Entries
  <1> QED
    BY <1>2 DEF Texts, TypeOK

\* assess and assess_authorship, on evidence read after the snapshot, answer
\* for the snapshot's text, however far the history has gone on.
LEMMA ApprovedHasGrounds ==
    ASSUME IInv, asker.at = "reading", Approved(asker, Len(log))
    PROVE  Grounds(asker.snap.text, asker.snap.member)
  <1> DEFINE r == asker.snap.read
             n == asker.timeline
             text == asker.snap.text
  <1>1. r \in 1..Len(log) /\ text = log[r].text /\ n \in r..Len(log)
    BY DEF IInv, Reads
  <1>2. Len(log) \in Nat /\ TypeOK /\ Stamped /\ Texts
    BY DEF IInv, TypeOK
  <1>3. ASSUME NEW f \in Fields, text[f] # 0
        PROVE  text[f] \in Edits(n, Len(log))
    <2>1. text[f] \in 1..r /\ text[f] \in 1..Len(log) /\ log[text[f]].what = f
      BY <1>1, <1>2, <1>3, LaterText
    <2>2. text[f] \in 1..n
      BY <1>1, <1>2, <2>1
    <2> QED
      BY <2>1, <2>2 DEF Edits, Fields
  <1>4. ASSUME Assess(n, Len(log)) PROVE Labelled(text)
    <2>1. PICK i \in Approvals(n) :
            \A e \in Edits(n, Len(log)) : Before(e, i) \/ log[e].by = log[i].by
      BY <1>4 DEF Assess
    <2>2. i \in 1..n /\ i \in 1..Len(log) /\ i \in Approvals(Len(log))
      BY <1>1, <1>2, <2>1 DEF Approvals, Named
    <2>3. CASE i > r
      BY <1>1, <2>2, <2>3 DEF Labelled
    <2>4. CASE i <= r
      <3>1. SUFFICES ASSUME NEW f \in Fields, text[f] # log[i].text[f]
                     PROVE  text[f] > i /\ log[text[f]].by = log[i].by
        BY <2>2 DEF Labelled, OfLabel
      <3>2. log[r] \in Entries /\ log[i] \in Entries
        BY <1>1, <1>2, <2>2 DEF TypeOK
      <3>3. text[f] \in Nat /\ log[i].text[f] \in Nat
        BY <1>1, <3>2 DEF Entries
      <3>4. log[i].text[f] <= text[f]
        BY <1>1, <1>2, <2>2, <2>4 DEF Texts
      <3>5. text[f] # 0
        BY <3>1, <3>3, <3>4
      <3>6. text[f] \in Edits(n, Len(log)) /\ text[f] \in 1..Len(log) /\ log[text[f]].what = f
        BY <1>1, <1>2, <1>3, <3>5, LaterText
      <3>7. text[f] > i
        <4>1. ~(text[f] <= i)
          BY <1>2, <2>2, <3>1, <3>3, <3>4, <3>6 DEF Texts
        <4> QED
          BY <2>2, <3>3, <4>1
      <3>8. log[text[f]] \in Entries
        BY <1>2, <3>6 DEF TypeOK
      <3>9. log[i].at <= log[text[f]].at /\ log[i].at \in Nat /\ log[text[f]].at \in Nat
        <4>1. log[i].at \in Nat /\ log[text[f]].at \in Nat
          BY <3>2, <3>8 DEF Entries
        <4>2. i <= text[f]
          BY <2>2, <3>3, <3>7
        <4> HIDE DEF text, r, n
        <4>3. log[i].at <= log[text[f]].at
          BY <1>2, <2>2, <3>6, <4>2 DEF Stamped
        <4> QED
          BY <4>1, <4>3
      <3>10. ~Before(text[f], i)
        BY <3>9 DEF Before
      <3> QED
        BY <2>1, <3>6, <3>7, <3>10
    <2> QED
      BY <1>1, <2>2, <2>3, <2>4
  <1>5. ASSUME AssessAuthorship(asker.snap, n, Len(log)), kind = "triage"
        PROVE  Authored(text, asker.snap.member)
    BY <1>3, <1>5 DEF AssessAuthorship, Authored
  <1>6. Labelled(text) \/ Authored(text, asker.snap.member)
    <2>1. CASE kind = "work"
      BY <1>4, <2>1 DEF Approved
    <2>2. CASE kind # "work"
      <3>1. kind = "triage"
        BY <1>2, <2>2 DEF TypeOK, Kinds
      <3> QED
        BY <1>4, <1>5, <2>2, <3>1 DEF Approved, AssessTriage
    <2> QED
      BY <2>1, <2>2
  <1> QED
    BY <1>1, <1>6 DEF Grounds

\* A record more takes nothing from what was: the history is only added to.
LEMMA HappensKeeps ==
    ASSUME IInv, NEW what, NEW by, NEW text, Happens(what, by, text),
           Record(what, by, text) \in Entries,
           \/ what \notin Fields /\ text = Text
           \/ what \in Fields /\ text = [Text EXCEPT ![what] = Len(log) + 1]
    PROVE  IInv'
  <1> DEFINE n == Len(log)
             rec == Record(what, by, text)
  <1>1. /\ log' = Append(log, rec) /\ now' = now
        /\ UNCHANGED <<kind, author, admin, remembered, asker>>
    BY DEF Happens
  <1>2. TypeOK /\ Stamped /\ Texts /\ Reads /\ Verdicts
    BY DEF IInv
  <1>3. n \in Nat /\ n >= 1 /\ now \in Nat /\ log \in Seq(Entries)
    BY <1>2 DEF TypeOK
  <1>4. /\ log' \in Seq(Entries) /\ Len(log') = n + 1 /\ log'[n + 1] = rec
        /\ \A k \in 1..n : log'[k] = log[k]
    BY <1>1, <1>3
  <1>5. rec.at = now /\ rec.what = what /\ rec.text = text
    BY DEF Record
  <1>6. log[n] \in Entries /\ n \in 1..n
    BY <1>3
  <1>7. Text = log[n].text /\ Text \in [Fields -> Nat]
    BY <1>6 DEF Text, Entries
  <1>8. \A f \in Fields : text[f] = IF f = what THEN n + 1 ELSE log[n].text[f]
    BY <1>7
  <1>9. 1..Len(log') = 1..n \cup {n + 1}
    BY <1>3, <1>4
  <1> HIDE DEF n, rec
  <1>10. TypeOK'
    BY <1>1, <1>2, <1>3, <1>4 DEF TypeOK
  <1>11. Stamped'
    <2>1. \A k \in 1..n : log[k].at <= now /\ log[k] \in Entries
      BY <1>2, <1>3 DEF Stamped, n
    <2>2. \A k \in 1..Len(log') : log'[k].at <= now'
      BY <1>1, <1>3, <1>4, <1>5, <1>9, <2>1
    <2>3. ASSUME NEW j \in 1..Len(log'), NEW k \in 1..Len(log'), j <= k
          PROVE  log'[j].at <= log'[k].at
      <3>1. CASE k \in 1..n
        BY <1>2, <1>3, <1>4, <1>9, <2>3, <3>1 DEF Stamped, n
      <3>2. CASE k = n + 1
        BY <1>1, <1>4, <1>5, <2>2, <3>2
      <3> QED
        BY <1>9, <2>3, <3>1, <3>2
    <2> QED
      BY <2>2, <2>3 DEF Stamped
  <1>12. Texts'
    <2>1. \A k \in 1..n, f \in Fields : log[k].text[f] \in Nat /\ log[k].text[f] <= k
      <3>1. \A k \in 1..n : log[k] \in Entries
        BY <1>3 DEF n
      <3> QED
        BY <1>2, <3>1 DEF Texts, Entries, n
    <2>2. \A j, k \in 1..n, f \in Fields : j <= k => log[j].text[f] <= log[k].text[f]
      BY <1>2 DEF Texts, n
    <2>3. ASSUME NEW k \in 1..Len(log'), NEW f \in Fields
          PROVE  /\ log'[k].text[f] <= k
                 /\ log'[k].text[f] # 0 => log'[log'[k].text[f]].what = f
      <3>1. CASE k \in 1..n
        <4>1. log'[k].text[f] = log[k].text[f] /\ log[k].text[f] <= k /\ log[k].text[f] \in Nat
          BY <1>4, <2>1, <3>1
        <4>2. log[k].text[f] # 0 => log[k].text[f] \in 1..n /\ log[log[k].text[f]].what = f
          BY <1>2, <1>3, <3>1, <4>1 DEF Texts, n
        <4> QED
          BY <1>4, <4>1, <4>2
      <3>2. CASE k = n + 1 /\ f = what
        BY <1>3, <1>4, <1>5, <1>8, <3>2
      <3>3. CASE k = n + 1 /\ f # what
        <4>1. log'[k].text[f] = log[n].text[f] /\ log[n].text[f] <= n /\ log[n].text[f] \in Nat
          BY <1>4, <1>5, <1>6, <1>8, <2>1, <3>3 DEF n
        <4>2. log[n].text[f] # 0 => log[n].text[f] \in 1..n /\ log[log[n].text[f]].what = f
          BY <1>2, <1>3, <1>6, <4>1 DEF Texts, n
        <4> QED
          BY <1>3, <1>4, <3>3, <4>1, <4>2
      <3> QED
        BY <1>9, <3>1, <3>2, <3>3
    <2>4. ASSUME NEW j \in 1..Len(log'), NEW k \in 1..Len(log'), NEW f \in Fields, j <= k
          PROVE  log'[j].text[f] <= log'[k].text[f]
      <3>1. CASE k \in 1..n
        BY <1>3, <1>4, <1>9, <2>2, <2>4, <3>1
      <3>2. CASE j = n + 1
        <4>1. k = n + 1
          BY <1>3, <1>9, <2>4, <3>2
        <4>2. text[f] \in Nat
          BY <1>3, <1>6, <1>8, <2>1 DEF n
        <4> QED
          BY <1>4, <1>5, <3>2, <4>1, <4>2
      <3>3. CASE j \in 1..n /\ k = n + 1
        <4>1. log[j].text[f] <= log[n].text[f] /\ log[n].text[f] \in Nat /\ log[n].text[f] <= n
              /\ log[j].text[f] \in Nat
          BY <1>3, <1>6, <2>1, <2>2, <3>3 DEF n
        <4>2. log'[j].text[f] = log[j].text[f] /\ log'[k].text[f] = text[f]
          BY <1>4, <1>5, <3>3
        <4> QED
          BY <1>3, <1>8, <4>1, <4>2
      <3> QED
        BY <1>9, <3>1, <3>2, <3>3
    <2>5. ASSUME NEW e \in 1..Len(log'), NEW k \in 1..Len(log'), NEW f \in Fields,
                 e <= k, log'[e].what = f
          PROVE  e <= log'[k].text[f]
      <3>1. CASE k \in 1..n
        <4>1. e \in 1..n
          BY <1>3, <1>9, <2>5, <3>1
        <4> QED
          BY <1>2, <1>4, <2>5, <3>1, <4>1 DEF Texts, n
      <3>2. CASE e = n + 1
        <4>1. k = n + 1 /\ what = f
          BY <1>3, <1>4, <1>5, <1>9, <2>5, <3>2
        <4> QED
          BY <1>3, <1>4, <1>5, <1>8, <3>2, <4>1
      <3>3. CASE e \in 1..n /\ k = n + 1
        <4>1. e <= log[n].text[f] /\ log[n].text[f] \in Nat
          BY <1>2, <1>3, <1>4, <1>6, <2>1, <2>5, <3>3 DEF Texts, n
        <4>2. log'[k].text[f] = text[f]
          BY <1>4, <1>5, <3>3
        <4> QED
          BY <1>3, <1>8, <3>3, <4>1, <4>2
      <3> QED
        BY <1>9, <3>1, <3>2, <3>3
    <2> QED
      BY <2>3, <2>4, <2>5 DEF Texts
  <1>13. Reads'
    BY <1>1, <1>2, <1>3, <1>4 DEF Reads, n
  <1>14. ASSUME NEW t, NEW standing, Grounds(t, standing) PROVE Grounds(t, standing)'
    <2>1. PICK p \in 1..n : log[p].text = t
      BY <1>14 DEF Grounds, n
    <2>2. \A f \in Fields : t[f] \in 0..n
      <3>1. log[p] \in Entries
        BY <1>3, <2>1 DEF n
      <3> QED
        BY <1>2, <1>3, <2>1, <3>1 DEF Texts, Entries, n
    <2>3. \A i \in Approvals(n) : i \in 1..n /\ i \in Approvals(Len(log))'
      BY <1>1, <1>3, <1>4 DEF Approvals, Named, Wanted
    <2>4. \A i \in 1..n : OfLabel(t, i) => OfLabel(t, i)'
      <3>1. SUFFICES ASSUME NEW i \in 1..n, OfLabel(t, i), NEW f \in Fields
                     PROVE  t[f] = log'[i].text[f] \/ (t[f] > i /\ log'[t[f]].by = log'[i].by)
        BY DEF OfLabel
      <3>2. CASE t[f] = log[i].text[f]
        BY <1>4, <3>2
      <3>3. CASE t[f] > i /\ log[t[f]].by = log[i].by
        BY <1>3, <1>4, <2>2, <3>3
      <3> QED
        BY <3>1, <3>2, <3>3 DEF OfLabel
    <2>5. Labelled(t) => Labelled(t)'
      <3>1. SUFFICES ASSUME NEW i \in Approvals(n),
                            OfLabel(t, i) \/ \E q \in 1..n : q < i /\ log[q].text = t
                     PROVE  Labelled(t)'
        BY DEF Labelled, n
      <3>2. OfLabel(t, i)' \/ \E q \in 1..Len(log') : q < i /\ log'[q].text = t
        BY <1>4, <1>9, <2>3, <2>4, <3>1
      <3> QED
        BY <2>3, <3>2 DEF Labelled
    <2>6. Authored(t, standing) => Authored(t, standing)'
      BY <1>1, <1>3, <1>4, <2>2 DEF Authored
    <2> QED
      BY <1>4, <1>9, <1>14, <2>1, <2>5, <2>6 DEF Grounds
  <1>15. Verdicts'
    BY <1>1, <1>2, <1>14 DEF Verdicts
  <1> QED
    BY <1>10, <1>11, <1>12, <1>13, <1>15 DEF IInv

\* While nothing is added to the history and the clock does not go back, what
\* has its grounds keeps them.
LEMMA QuietKeeps ==
    ASSUME IInv, UNCHANGED <<log, kind, author, admin>>, now' \in Nat, now <= now'
    PROVE  /\ log' \in Seq(Entries) /\ Len(log') >= 1 /\ kind' \in Kinds
           /\ Stamped' /\ Texts'
           /\ \A t, standing : Grounds(t, standing) => Grounds(t, standing)'
  <1>1. TypeOK /\ Stamped /\ Texts
    BY DEF IInv
  <1>2. Texts'
    BY <1>1 DEF Texts
  <1>3. Stamped'
    <2>1. \A k \in 1..Len(log) : log[k].at \in Nat
      <3>1. \A k \in 1..Len(log) : log[k] \in Entries
        BY <1>1 DEF TypeOK
      <3> QED
        BY <3>1 DEF Entries
    <2> QED
      BY <1>1, <2>1 DEF Stamped, TypeOK
  <1>4. ASSUME NEW t, NEW standing, Grounds(t, standing) PROVE Grounds(t, standing)'
    <2>1. Approvals(Len(log))' = Approvals(Len(log))
      BY DEF Approvals, Named, Wanted
    <2> QED
      BY <1>4, <2>1 DEF Grounds, Labelled, Authored, OfLabel
  <1> QED
    BY <1>1, <1>2, <1>3, <1>4 DEF TypeOK

\* A step that leaves the asker and what it remembers alone.
LEMMA BystandersKeep ==
    ASSUME IInv, UNCHANGED <<log, kind, author, admin, remembered, asker>>,
           now' \in Nat, now <= now'
    PROVE  IInv'
  BY QuietKeeps DEF IInv, TypeOK, Reads, Verdicts

\* The asker gives up, and remembers nothing new.
LEMMA GoingAwayKeeps ==
    ASSUME IInv, UNCHANGED <<log, kind, author, admin>>, now' = now,
           At("away"), remembered' \in {remembered, Forgotten}
    PROVE  IInv'
  <1>1. now' \in Nat /\ now <= now'
    BY DEF IInv, TypeOK
  <1>2. asker' = Away
    BY DEF At
  <1>3. TypeOK' /\ Reads'
    BY <1>1, <1>2, QuietKeeps DEF TypeOK, Reads, Away
  <1>4. Verdicts'
    BY <1>1, <1>2, QuietKeeps DEF IInv, Verdicts, Away, Forgotten
  <1> QED
    BY <1>1, <1>3, <1>4, QuietKeeps DEF IInv

\* The asker has its answer, and remembers what has its grounds.
LEMMA AnsweringKeeps ==
    ASSUME IInv, UNCHANGED <<issue, now, running, faults>>, NEW yes \in BOOLEAN,
           asker.at # "away", At(Answer(yes)),
           yes => Grounds(asker.snap.text, asker.snap.member),
           remembered' = remembered \/ remembered' = [key |-> Key(asker), approved |-> yes]
    PROVE  IInv'
  <1>1. now' \in Nat /\ now <= now' /\ UNCHANGED <<log, kind, author, admin>>
    BY DEF IInv, TypeOK, issue
  <1>2. /\ asker' = [asker EXCEPT !.at = Answer(yes)]
        /\ Answer(yes) \in {"granted", "refused"} /\ (Answer(yes) = "granted" => yes)
    BY DEF At, Answer
  <1>3. asker' = [at |-> Answer(yes), snap |-> asker.snap, timeline |-> asker.timeline]
    BY <1>2 DEF IInv, TypeOK
  <1>4. TypeOK' /\ Reads'
    BY <1>1, <1>2, <1>3, QuietKeeps DEF IInv, TypeOK, Reads
  <1>5. (asker.at = "granted" => Grounds(asker.snap.text, asker.snap.member))'
    <2>1. (asker.snap)' = asker.snap /\ (asker.at)' = Answer(yes)
      BY <1>3
    <2> QED
      BY <1>1, <1>2, <2>1, QuietKeeps
  <1>6. (remembered.approved => Grounds(remembered.key.text, remembered.key.member))'
    <2>1. CASE remembered' = remembered
      BY <1>1, <2>1, QuietKeeps DEF IInv, Verdicts
    <2>2. CASE remembered' = [key |-> Key(asker), approved |-> yes]
      <3>1. /\ (remembered.approved)' = yes
            /\ (remembered.key.text)' = asker.snap.text
            /\ (remembered.key.member)' = asker.snap.member
        BY <2>2 DEF Key
      <3> QED
        BY <1>1, <3>1, QuietKeeps
    <2> QED
      BY <2>1, <2>2
  <1> QED
    BY <1>1, <1>4, <1>5, <1>6, QuietKeeps DEF IInv, Verdicts

\* A poll: the text is that of the last record.
LEMMA AskKeeps == IInv /\ Ask => IInv'
  <1> SUFFICES ASSUME IInv, Ask PROVE IInv'
    OBVIOUS
  <1>1. /\ UNCHANGED <<log, kind, author, admin, remembered>> /\ now' \in Nat /\ now <= now'
        /\ asker' = [at |-> "polled", snap |-> Snapshot, timeline |-> 0]
    BY DEF Ask, IInv, TypeOK, issue
  <1>2. Snapshot.read = Len(log) /\ Snapshot.text = log[Len(log)].text
    BY DEF Snapshot, Text
  <1>3. TypeOK' /\ Reads'
    BY <1>1, <1>2, QuietKeeps DEF IInv, TypeOK, Reads
  <1>4. Verdicts'
    BY <1>1, QuietKeeps DEF IInv, Verdicts
  <1> QED
    BY <1>1, <1>3, <1>4, QuietKeeps DEF IInv

\* The first read of the evidence is of a history no shorter than was polled.
LEMMA ReadTimelineKeeps == IInv /\ ReadTimeline => IInv'
  <1> SUFFICES ASSUME IInv, ReadTimeline PROVE IInv'
    OBVIOUS
  <1>1. /\ UNCHANGED <<log, kind, author, admin, remembered>> /\ now' \in Nat /\ now <= now'
        /\ asker.at = "polled"
        /\ asker' = [at |-> "reading", snap |-> asker.snap, timeline |-> Len(log)]
    <2>1. asker = [at |-> asker.at, snap |-> asker.snap, timeline |-> asker.timeline]
      BY DEF IInv, TypeOK
    <2>2. asker' = [asker EXCEPT !.at = "reading", !.timeline = Len(log)]
      BY DEF ReadTimeline
    <2>3. asker' = [at |-> "reading", snap |-> asker.snap, timeline |-> Len(log)]
      BY <2>1, <2>2
    <2>4. UNCHANGED <<log, kind, author, admin, remembered>> /\ now' = now /\ asker.at = "polled"
      BY DEF ReadTimeline, issue
    <2>5. now \in Nat
      BY DEF IInv, TypeOK
    <2> QED
      BY <2>3, <2>4, <2>5
  <1>2. TypeOK' /\ Reads'
    BY <1>1, QuietKeeps DEF IInv, TypeOK, Reads
  <1>3. Verdicts'
    BY <1>1, QuietKeeps DEF IInv, Verdicts
  <1> QED
    BY <1>1, <1>2, <1>3, QuietKeeps DEF IInv

\* Each step of the askers, of the people and of a restart keeps the invariant.
LEMMA InvStep == IInv /\ [Next]_vars => IInv'
  <1> SUFFICES ASSUME IInv, [Next]_vars PROVE IInv'
    OBVIOUS
  <1>0. log \in Seq(Entries) /\ Len(log) >= 1 /\ now \in Nat /\ kind \in Kinds
    BY DEF IInv, TypeOK
  <1>1. CASE Tick
    BY <1>0, <1>1, BystandersKeep DEF Tick, issue
  <1>2. CASE Leaves
    BY <1>0, <1>2, BystandersKeep DEF Leaves
  <1>3. CASE End
    BY <1>0, <1>3, BystandersKeep DEF End
  <1>4. ASSUME NEW by \in Labellers, Label(by) PROVE IInv'
    <2>1. log[Len(log)] \in Entries
      BY <1>0
    <2>2. Record(Wanted, by, Text) \in Entries /\ Wanted \notin Fields
      BY <1>0, <2>1 DEF Record, Text, Entries, Wanted, Fields
    <2> QED
      BY <1>4, <2>2, HappensKeeps DEF Label
  <1>5. ASSUME NEW f \in Fields, NEW by \in Editors, Edit(f, by) PROVE IInv'
    <2>1. log[Len(log)] \in Entries /\ Len(log) + 1 \in Nat
      BY <1>0
    <2>2. [Text EXCEPT ![f] = Len(log) + 1] \in [Fields -> Nat]
      BY <2>1 DEF Text, Entries
    <2>3. Record(f, by, [Text EXCEPT ![f] = Len(log) + 1]) \in Entries
      BY <1>0, <2>2 DEF Record, Entries
    <2> QED
      BY <1>5, <2>3, HappensKeeps DEF Edit
  <1>6. CASE Ask
    BY <1>6, AskKeeps
  <1>7. CASE ReadTimeline
    BY <1>7, ReadTimelineKeeps
  <1>8. CASE Remembers
    <2>1. remembered.key = Key(asker) /\ asker.at = "polled"
      BY <1>8 DEF Remembers, Known
    <2>2. remembered.key.text = asker.snap.text /\ remembered.key.member = asker.snap.member
      BY <2>1 DEF Key
    <2>3. remembered.approved => Grounds(asker.snap.text, asker.snap.member)
      BY <2>2 DEF IInv, Verdicts
    <2>4. UNCHANGED <<issue, now, running, faults>> /\ At(Answer(remembered.approved)) /\ remembered' = remembered
      BY <1>8 DEF Remembers
    <2>5. CASE remembered.approved
      <3>1. At(Answer(TRUE))
        BY <2>4, <2>5 DEF Answer
      <3> QED
        BY <2>1, <2>3, <2>4, <2>5, <3>1, AnsweringKeeps
    <2>6. CASE ~remembered.approved
      <3>1. At(Answer(FALSE))
        BY <2>4, <2>6 DEF Answer
      <3> QED
        BY <2>1, <2>4, <3>1, AnsweringKeeps
    <2> QED
      BY <2>5, <2>6
  <1>9. CASE ReadEdits
    <2> DEFINE yes == Approved(asker, Len(log))
    <2>1. yes => Grounds(asker.snap.text, asker.snap.member)
      BY <1>9, ApprovedHasGrounds DEF ReadEdits
    <2>2. yes \in BOOLEAN
      BY DEF Approved
    <2>3. /\ UNCHANGED <<issue, now, running, faults>> /\ asker.at # "away"
          /\ At(Answer(yes))
          /\ remembered' = remembered \/ remembered' = [key |-> Key(asker), approved |-> yes]
      BY <1>9 DEF ReadEdits
    <2> HIDE DEF yes
    <2> QED
      BY <2>1, <2>2, <2>3, AnsweringKeeps
  <1>10. CASE ReadFails \/ HandBack \/ HandBackFails \/ Refused \/ AccountBusy \/ Start \/ ClaimFails \/ Restart
    <2>1. /\ UNCHANGED <<log, kind, author, admin>> /\ now' = now
          /\ At("away") /\ remembered' \in {remembered, Forgotten}
      BY <1>10 DEF ReadFails, HandBack, HandBackFails, Refused, AccountBusy, Start, ClaimFails,
                   Restart, issue
    <2> QED
      BY <2>1, GoingAwayKeeps
  <1>11. CASE UNCHANGED vars
    BY <1>0, <1>11, BystandersKeep DEF vars
  <1> QED
    BY <1>1, <1>2, <1>3, <1>4, <1>5, <1>6, <1>7, <1>8, <1>9, <1>10, <1>11
    DEF Next, Board, Askers

\* The grounds of a verdict acted on are a label of the text, or an own one's.
LEMMA GroundsApprove == IInv => RunsApproved
  <1> SUFFICES ASSUME IInv, asker.at = "granted", ~(kind = "triage" /\ OfAuthor(asker))
               PROVE  \E i \in 1..Len(log) :
                         Approves(i) /\ (i > asker.snap.read \/ OfLabel(asker.snap.text, i))
    BY DEF RunsApproved
  <1> DEFINE r == asker.snap.read
             text == asker.snap.text
  <1>1. r \in 1..Len(log) /\ text = log[r].text /\ Len(log) \in Nat
    BY DEF IInv, Reads, TypeOK
  <1>2. Labelled(text)
    BY DEF IInv, Verdicts, Grounds, Authored, OfAuthor
  <1>3. PICK i \in Approvals(Len(log)) :
               OfLabel(text, i) \/ \E p \in 1..Len(log) : p < i /\ log[p].text = text
    BY <1>2 DEF Labelled
  <1>4. i \in 1..Len(log) /\ Approves(i)
    BY <1>1, <1>3 DEF Approvals, Named, Approves
  <1>5. ASSUME i <= r, NEW p \in 1..Len(log), p < i, log[p].text = text
        PROVE  OfLabel(text, i)
    <2>1. ASSUME NEW f \in Fields PROVE text[f] = log[i].text[f]
      <3>1. log[p] \in Entries /\ log[i] \in Entries /\ log[r] \in Entries
        BY <1>1, <1>4 DEF IInv, TypeOK
      <3>2. log[p].text[f] \in Nat /\ log[i].text[f] \in Nat
        BY <3>1 DEF Entries
      <3>3. log[p].text[f] <= log[i].text[f] /\ log[i].text[f] <= log[r].text[f]
        BY <1>1, <1>4, <1>5 DEF IInv, Texts
      <3> QED
        BY <1>1, <1>5, <3>2, <3>3
    <2> QED
      BY <2>1 DEF OfLabel
  <1> QED
    BY <1>1, <1>3, <1>4, <1>5

\* Type correctness, the order of the stamps, what the texts are and the
\* grounds of every verdict, in all states.
THEOREM Invariance == Spec => []IInv
  <1> QED
    BY InvInit, InvStep, PTL DEF Spec

\* No session, of either lane or of run-once, starts on a text that was never
\* approved (approval.py, ghcli.approval_evidence, _assess_approval), however
\* many edits, labels, seconds and faults there are.
THEOREM OnlyApprovedRuns == Spec => []RunsApproved
  <1> QED
    BY Invariance, GroundsApprove, PTL
=============================================================================
