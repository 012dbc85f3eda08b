-------------------------- MODULE ChecklistProofs ---------------------------
(***************************************************************************)
(* Proofs about the answers of a checklist: the merge of a replicated      *)
(* document and the push it runs in, for any fields, answers and numbers of*)
(* edits and lost answers; the list of overwritten answers, for any        *)
(* documents and questions, any cap on the groups shown and any number of  *)
(* conflicts; and the queue of submitted checklists, for any templates,    *)
(* answers and numbers of presses and breaks.                              *)
(***************************************************************************)
EXTENDS ReplicaMerge, ConflictNotice, SubmitQueue, NumberLemmas,
        FiniteSetTheorems

-----------------------------------------------------------------------------
(* The merge and the push.                                                 *)

-----------------------------------------------------------------------------
(* The merge as a function of three documents.                             *)

\* The merge of three documents is a document.
LEMMA MergedIsDoc ==
  ASSUME NEW a \in Docs \cup {NoDoc}, NEW f \in Docs, NEW m \in Docs
  PROVE  Merged(a, f, m) \in Docs
BY DEF Merged, Docs

\* An answer the merge does not take over is a clash, which is recorded, or one
\* the phone had not changed.
THEOREM NoSilentLoss ==
  ASSUME NEW a \in Docs \cup {NoDoc}, NEW f \in Docs, NEW m \in Docs,
         NEW k \in Questions, Merged(a, f, m)[k] # f[k]
  PROVE  k \in Clashes(a, f, m) \/ (a # NoDoc /\ f[k] = a[k])
BY DEF Merged, Uncontested, Clashes, ForkChanged, MasterChanged, Questions

\* Merged once, a document has nothing left to clash over with the same master:
\* the handler is not run for ever on one conflict.
THEOREM MergeSettles ==
  ASSUME NEW a \in Docs \cup {NoDoc}, NEW f \in Docs, NEW m \in Docs
  PROVE  /\ Clashes(m, Merged(a, f, m), m) = {}
         /\ Merged(m, Merged(a, f, m), m) = Merged(a, f, m)
<1>1. m # NoDoc
  BY MergeAssumption DEF Docs, Values
<1>2. Clashes(m, Merged(a, f, m), m) = {}
  BY <1>1 DEF Clashes, MasterChanged
<1>3. Merged(m, Merged(a, f, m), m) = Merged(a, f, m)
  BY <1>1 DEF Merged, Uncontested, ForkChanged, MasterChanged
<1> QED
  BY <1>2, <1>3

-----------------------------------------------------------------------------
(* The inductive invariant.                                                *)

\* A push carries a document, and what the replica believes the server holds does
\* not change under it.
PushAsAsked ==
  /\ fork = NoDoc => assumed = NoDoc
  /\ push # None => fork # NoDoc /\ push.assumed = assumed

\* The phone still has the answer and knows it for a change of its own.
Fresh(k) ==
  /\ fork # NoDoc /\ fork[k] = unsent[k]
  /\ assumed # NoDoc => assumed[k] # unsent[k]
  /\ push # None /\ push.stage = "taken" => push.new[k] # unsent[k]

\* The answer was discarded and its record kept; the phone took the server's in
\* its place and has not touched the field since.
Discarded(k) ==
  /\ record[k] # None /\ record[k].discarded = unsent[k]
  /\ fork # NoDoc /\ assumed # NoDoc /\ fork[k] = assumed[k]
  /\ push # None => push.new[k] = fork[k]

\* Inductive: an unsent answer is fresh or recorded.
MergeInv ==
  /\ MergeTypeOK
  /\ PushAsAsked
  /\ \A k \in Questions : unsent[k] # None => Fresh(k) \/ Discarded(k)

LEMMA InitMergeInv == MergeInit => MergeInv
<1> SUFFICES ASSUME MergeInit PROVE MergeInv
  OBVIOUS
<1>1. master \in Docs
  BY DEF MergeInit, Docs, Values
<1>2. MergeTypeOK
  BY <1>1, MergeAssumption DEF MergeInit, MergeTypeOK
<1> QED
  BY <1>2 DEF MergeInit, MergeInv, PushAsAsked

\* A document signed by who changed it is a document; its answers are untouched.
LEMMA SignedIsDoc ==
  ASSUME NEW d \in Docs, NEW who \in {Me, Office}
  PROVE  Signed(d, who) \in Docs /\ \A k \in Questions : Signed(d, who)[k] = d[k]
BY DEF Signed, Docs, Values, Questions

\* What is seen on the server is no longer unsent, and nothing else changes.
LEMMA SettledIs ==
  ASSUME NEW d, unsent \in [Questions -> Answers \cup {None}]
  PROVE  /\ Settled(d) \in [Questions -> Answers \cup {None}]
         /\ \A k \in Questions : Settled(d)[k] # None =>
              Settled(d)[k] = unsent[k] /\ unsent[k] # d[k]
BY DEF Settled

\* Every step keeps the invariant, one action at a time.
LEMMA NextMergeInv ==
  ASSUME MergeInv, [MergeNext]_mergeVars
  PROVE  MergeInv'
<1>0. MergeTypeOK /\ PushAsAsked
  BY DEF MergeInv
<1>1. ASSUME NEW k \in Questions, NEW v \in Answers, Edit(k, v)
      PROVE  MergeInv'
  <2> DEFINE old == IF fork = NoDoc THEN [x \in Fields |-> Absent] ELSE fork
             new == [old EXCEPT ![k] = v]
  <2>1. old \in Docs /\ new \in Docs /\ k \in Fields
    BY <1>0 DEF MergeTypeOK, Docs, Values, Questions
  <2>2. /\ fork' = Signed(new, Me) /\ fork' \in Docs
        /\ \A x \in Questions : fork'[x] = new[x]
    <3>1. fork' = Signed(new, Me)
      BY <1>1 DEF Edit
    <3> HIDE DEF new
    <3> QED
      BY <2>1, <3>1, SignedIsDoc
  <2>3. /\ unsent' \in [Questions -> Answers \cup {None}]
        /\ \A x \in Questions : x # k => unsent'[x] = unsent[x]
        /\ unsent'[k] # None => unsent'[k] = v /\ ~Unchanged(k, v)
    BY <1>0, <1>1 DEF Edit, MergeTypeOK
  <2>4. fork' # NoDoc /\ fork'[k] = v
    BY <2>1, <2>2, MergeAssumption DEF Docs, Values
  <2>5. MergeTypeOK'
    BY <1>0, <1>1, <2>2, <2>3, MergeAssumption DEF Edit, MergeTypeOK
  <2>6. PushAsAsked'
    BY <1>0, <1>1, <2>4 DEF Edit, PushAsAsked
  <2>7. ASSUME NEW x \in Questions, unsent'[x] # None
        PROVE  Fresh(x)' \/ Discarded(x)'
    <3>1. CASE x = k
      BY <1>1, <2>3, <2>4, <2>7, <3>1 DEF Edit, Unchanged, Fresh
    <3>2. CASE x # k
      <4>1. unsent'[x] = unsent[x] /\ (Fresh(x) \/ Discarded(x))
        BY <2>3, <2>7, <3>2 DEF MergeInv
      <4>2. fork # NoDoc /\ fork'[x] = fork[x]
        BY <4>1, <2>1, <2>2, <3>2 DEF Fresh, Discarded, Docs, Questions
      <4> QED
        BY <1>1, <2>4, <4>1, <4>2 DEF Edit, Fresh, Discarded
    <3> QED
      BY <3>1, <3>2
  <2> QED
    BY <2>5, <2>6, <2>7 DEF MergeInv
<1>2. ASSUME NEW k \in Questions, NEW v \in Answers \cup {Absent}, OfficeEdit(k, v)
      PROVE  MergeInv'
  <2>1. [master EXCEPT ![k] = v] \in Docs
    BY <1>0 DEF MergeTypeOK, Docs, Values, Questions
  <2>2. master' \in Docs
    BY <1>2, <2>1, SignedIsDoc DEF OfficeEdit
  <2>3. MergeTypeOK'
    BY <1>0, <1>2, <2>2, MergeAssumption DEF OfficeEdit, MergeTypeOK
  <2> QED
    BY <1>0, <1>2, <2>3 DEF OfficeEdit, MergeInv, PushAsAsked, Fresh, Discarded
<1>3. CASE StartPush
  <2>1. fork \in Docs
    BY <1>0, <1>3 DEF StartPush, IsEqual, MergeTypeOK, PushAsAsked
  <2>2. push' = [stage |-> "asked", new |-> fork, assumed |-> assumed, real |-> NoDoc]
    BY <1>3 DEF StartPush
  <2>3. MergeTypeOK'
    BY <1>0, <1>3, <2>1, <2>2 DEF StartPush, MergeTypeOK, Pushes
  <2>4. fork # NoDoc
    BY <2>1, MergeAssumption DEF Docs, Values
  <2> QED
    BY <1>0, <1>3, <2>2, <2>3, <2>4
       DEF StartPush, MergeInv, PushAsAsked, Fresh, Discarded
<1>4. CASE ServePush
  <2>1. push \in Pushes /\ push.stage = "asked"
    BY <1>0, <1>4 DEF ServePush, MergeTypeOK
  <2>2. CASE IsEqual(push.assumed, master)
    <3>1. /\ master' = push.new /\ unsent' = Settled(push.new)
          /\ push' = [push EXCEPT !.stage = "taken"]
          /\ UNCHANGED <<fork, assumed, record, edits, officeEdits, lost>>
      BY <1>4, <2>2 DEF ServePush
    <3>2. /\ push' \in Pushes /\ push'.stage = "taken" /\ push'.new = push.new
          /\ push'.assumed = push.assumed /\ push.new \in Docs
      BY <2>1, <3>1 DEF Pushes
    <3>3. /\ unsent' \in [Questions -> Answers \cup {None}]
          /\ \A k \in Questions : unsent'[k] # None =>
               unsent'[k] = unsent[k] /\ unsent[k] # push.new[k]
      BY <1>0, <3>1, SettledIs DEF MergeTypeOK
    <3>4. MergeTypeOK'
      BY <1>0, <3>1, <3>2, <3>3 DEF MergeTypeOK
    <3>5. push # None
      BY <1>4 DEF ServePush
    <3>6. PushAsAsked'
      BY <1>0, <3>1, <3>2, <3>5 DEF PushAsAsked
    <3>7. ASSUME NEW k \in Questions, unsent'[k] # None
          PROVE  Fresh(k)' \/ Discarded(k)'
      BY <3>1, <3>2, <3>3, <3>5, <3>7 DEF MergeInv, Fresh, Discarded
    <3> QED
      BY <3>4, <3>6, <3>7 DEF MergeInv
  <2>3. CASE ~IsEqual(push.assumed, master)
    <3>1. /\ push' = [push EXCEPT !.stage = "refused", !.real = master]
          /\ UNCHANGED <<master, unsent, fork, assumed, record, edits, officeEdits, lost>>
      BY <1>4, <2>3 DEF ServePush
    <3>2. /\ push' \in Pushes /\ push'.stage = "refused" /\ push'.new = push.new
          /\ push'.assumed = push.assumed
      BY <1>0, <2>1, <3>1 DEF Pushes, MergeTypeOK
    <3>3. MergeTypeOK'
      BY <1>0, <3>1, <3>2 DEF MergeTypeOK
    <3>4. push # None
      BY <1>4 DEF ServePush
    <3> QED
      BY <1>0, <3>1, <3>2, <3>3, <3>4 DEF MergeInv, PushAsAsked, Fresh, Discarded
  <2> QED
    BY <2>2, <2>3
<1>5. CASE LoseAnswer
  <2>1. MergeTypeOK'
    BY <1>0, <1>5, MergeAssumption DEF LoseAnswer, MergeTypeOK
  <2> QED
    BY <1>0, <1>5, <2>1 DEF LoseAnswer, MergeInv, PushAsAsked, Fresh, Discarded
<1>6. CASE PushTaken
  <2>1. push.new \in Docs
    BY <1>0, <1>6 DEF PushTaken, MergeTypeOK, Pushes
  <2>2. MergeTypeOK'
    BY <1>0, <1>6, <2>1 DEF PushTaken, MergeTypeOK
  <2>3. push.new # NoDoc
    BY <2>1, MergeAssumption DEF Docs, Values
  <2> QED
    BY <1>0, <1>6, <2>2, <2>3 DEF PushTaken, MergeInv, PushAsAsked, Fresh, Discarded
<1>7. CASE PushRefused
  <2> DEFINE a == push.assumed
             f == push.new
             m == push.real
  <2>1. /\ a \in Docs \cup {NoDoc} /\ f \in Docs /\ m \in Docs
        /\ a = assumed /\ m # NoDoc /\ push # None
    BY <1>0, <1>7, MergeAssumption
       DEF PushRefused, MergeTypeOK, Pushes, PushAsAsked, Docs, Values
  <2>2. /\ record' \in [Questions -> [discarded : Values, winner : Values] \cup {None}]
        /\ \A k \in Questions :
             record'[k] = IF k \in Clashes(a, f, m) THEN RecordOf(f, m, k) ELSE record[k]
    BY <1>0, <1>7, <2>1 DEF PushRefused, Recorded, RecordOf, MergeTypeOK, Docs, Questions
  <2>3. \A k \in Questions : RecordOf(f, m, k) # None /\ RecordOf(f, m, k).discarded = f[k]
    BY <2>1, MergeAssumption DEF RecordOf, Docs, Values, Questions
  <2>4. push' = None /\ UNCHANGED <<master, edits, officeEdits, lost>>
    BY <1>7 DEF PushRefused
  <2>5. CASE fork # f
    <3>1. UNCHANGED <<fork, assumed, unsent>>
      BY <1>7, <2>5 DEF PushRefused
    <3>2. MergeTypeOK'
      BY <1>0, <2>2, <2>4, <3>1 DEF MergeTypeOK
    <3>3. ASSUME NEW k \in Questions, unsent'[k] # None
          PROVE  Fresh(k)' \/ Discarded(k)'
      <4>1. CASE Fresh(k)
        BY <2>4, <3>1, <4>1 DEF Fresh
      <4>2. CASE Discarded(k)
        <5>1. record'[k] = record[k]
          BY <2>1, <2>2, <4>2 DEF Discarded, Clashes, ForkChanged
        <5> QED
          BY <2>4, <3>1, <4>2, <5>1 DEF Discarded
      <4> QED
        BY <3>1, <3>3, <4>1, <4>2 DEF MergeInv
    <3> QED
      BY <1>0, <2>4, <3>1, <3>2, <3>3 DEF MergeInv, PushAsAsked
  <2>6. CASE fork = f
    <3>1. fork' = Merged(a, f, m) /\ assumed' = m /\ unsent' = Settled(m)
      BY <1>7, <2>6 DEF PushRefused
    <3>2. fork' \in Docs /\ fork' # NoDoc
      BY <2>1, <3>1, MergedIsDoc, MergeAssumption DEF Docs, Values
    <3>3. /\ unsent' \in [Questions -> Answers \cup {None}]
          /\ \A k \in Questions : unsent'[k] # None =>
               unsent'[k] = unsent[k] /\ unsent[k] # m[k]
      BY <1>0, <3>1, SettledIs DEF MergeTypeOK
    <3>4. MergeTypeOK'
      BY <1>0, <2>1, <2>2, <2>4, <3>1, <3>2, <3>3 DEF MergeTypeOK
    <3>5. ASSUME NEW k \in Questions, unsent'[k] # None
          PROVE  Fresh(k)' \/ Discarded(k)'
      <4>1. /\ unsent'[k] = unsent[k] /\ unsent[k] # m[k]
            /\ Fresh(k) \/ Discarded(k)
        BY <3>3, <3>5 DEF MergeInv
      <4>2. fork'[k] = IF Uncontested(a, f, m, k) THEN f[k] ELSE m[k]
        BY <3>1 DEF Merged, Questions
      <4>3. CASE Discarded(k)
        <5>1. f[k] = a[k] /\ a # NoDoc
          BY <2>1, <2>6, <4>3 DEF Discarded
        <5>2. fork'[k] = m[k] /\ record'[k] = record[k]
          BY <2>2, <4>2, <5>1 DEF Uncontested, ForkChanged, Clashes
        <5> QED
          BY <2>1, <2>4, <3>1, <3>2, <4>1, <4>3, <5>2 DEF Discarded
      <4>4. CASE Fresh(k) /\ Uncontested(a, f, m, k)
        BY <2>4, <2>6, <3>1, <3>2, <4>1, <4>2, <4>4 DEF Fresh
      <4>5. CASE Fresh(k) /\ ~Uncontested(a, f, m, k)
        <5>1. f[k] = unsent[k] /\ f[k] # m[k] /\ (a # NoDoc => f[k] # a[k])
          BY <2>1, <2>6, <4>1, <4>5 DEF Fresh
        <5>2. k \in Clashes(a, f, m)
          BY <4>5, <5>1 DEF Clashes, Uncontested, ForkChanged, MasterChanged
        <5>3. record'[k] # None /\ record'[k].discarded = unsent[k]
          BY <2>2, <2>3, <5>1, <5>2
        <5> QED
          BY <2>1, <2>4, <3>1, <3>2, <4>1, <4>2, <4>5, <5>3 DEF Discarded
      <4> QED
        BY <4>1, <4>3, <4>4, <4>5
    <3> QED
      BY <2>1, <2>4, <3>2, <3>4, <3>5 DEF MergeInv, PushAsAsked
  <2> QED
    BY <2>5, <2>6
<1>8. CASE Pull
  <2>1. MergeTypeOK'
    BY <1>0, <1>8 DEF Pull, MergeTypeOK
  <2>2. master # NoDoc
    BY <1>0, MergeAssumption DEF MergeTypeOK, Docs, Values
  <2>3. \A k \in Questions : ~Fresh(k)
    BY <1>0, <1>8 DEF Pull, IsEqual, Fresh, PushAsAsked
  <2> QED
    BY <1>0, <1>8, <2>1, <2>2, <2>3 DEF Pull, MergeInv, PushAsAsked, Discarded
<1>9. CASE UNCHANGED mergeVars
  BY <1>9 DEF mergeVars, MergeInv, MergeTypeOK, PushAsAsked, Fresh, Discarded
<1> QED
  BY <1>1, <1>2, <1>3, <1>4, <1>5, <1>6, <1>7, <1>8, <1>9 DEF MergeNext

-----------------------------------------------------------------------------
(* The theorems.                                                           *)

LEMMA MergeInvariance == MergeSpec => []MergeInv
BY InitMergeInv, NextMergeInv, PTL DEF MergeSpec

\* Every variable of the replicated document keeps its type.
THEOREM MergeTypeCorrect == MergeSpec => []MergeTypeOK
<1>1. MergeInv => MergeTypeOK
  BY DEF MergeInv
<1> QED
  BY <1>1, MergeInvariance, PTL

\* An answer that never reached the server is in the phone's document or in the
\* record of its field.
THEOREM NothingDiscardedSilently == MergeSpec => []EditAccounted
<1>1. MergeInv => EditAccounted
  BY DEF MergeInv, EditAccounted, Fresh, Discarded
<1> QED
  BY <1>1, MergeInvariance, PTL

\* A merge never takes off the phone an answer the office did not touch.
THEOREM UncontestedKept == MergeSpec => UncontestedSurvives
<1>1. ASSUME MergeInv, [MergeNext]_mergeVars
      PROVE  [\A k \in Questions :
                (PushRefused /\ push.assumed # NoDoc /\ push.real[k] = push.assumed[k])
                  => fork'[k] = fork[k]]_mergeVars
  <2> SUFFICES ASSUME NEW k \in Questions, PushRefused, push.assumed # NoDoc,
                      push.real[k] = push.assumed[k]
               PROVE  fork'[k] = fork[k]
    OBVIOUS
  <2>1. CASE fork = push.new
    BY <2>1 DEF PushRefused, Merged, Uncontested, ForkChanged, MasterChanged, Questions
  <2>2. CASE fork # push.new
    BY <2>2 DEF PushRefused
  <2> QED
    BY <2>1, <2>2
<1> QED
  BY <1>1, MergeInvariance, PTL DEF MergeSpec, UncontestedSurvives

-----------------------------------------------------------------------------
(* The list of overwritten answers.                                        *)

Records == [n : 1..MaxClashes, kind : Kinds, status : Statuses]
Writes == [row : Rows, n : 1..MaxClashes, by : {"tap", "batch"}]
BatchRows == [row : Rows, n : 1..MaxClashes]

BatchTyped(bat) ==
  /\ bat \in [NoticeDoc -> SUBSET BatchRows]
  /\ \A d \in NoticeDoc : \A x \in bat[d] : x.row[1] = d

Restoring(recs, r) == recs[r] # Blank /\ recs[r].status = "restoring"

\* Inductive: the types, and no row waits without a write.
NoticeInv == NoticeTypeOK /\ RestoringHasWriter

LEMMA NoticeInvIs ==
  NoticeInv <=> /\ notice \in [Rows -> Records \cup {Blank}]
                /\ writing \subseteq Writes
                /\ BatchTyped(batch)
                /\ confirmFor \in NoticeDoc \cup {Blank}
                /\ clashes \in 0..MaxClashes
                /\ \A r \in Rows : Restoring(notice, r) => \E w \in writing : w.row = r
BY DEF NoticeInv, NoticeTypeOK, RestoringHasWriter, Records, Writes, BatchRows, BatchTyped,
       Restoring

LEMMA InitNotice == NoticeInit => NoticeInv
<1> SUFFICES ASSUME NoticeInit PROVE NoticeInv
  OBVIOUS
<1>1. /\ notice \in [Rows -> Records \cup {Blank}] /\ writing \subseteq Writes
      /\ BatchTyped(batch) /\ clashes \in 0..MaxClashes
      /\ confirmFor \in NoticeDoc \cup {Blank}
  BY NoticeAssumption DEF NoticeInit, BatchTyped
<1>2. \A r \in Rows : ~Restoring(notice, r)
  BY DEF NoticeInit, Restoring
<1> QED
  BY <1>1, <1>2, NoticeInvIs

-----------------------------------------------------------------------------
(* The operations a tap, a write and a batch are made of.                  *)

\* A mark changes the status of one row, if it has a record.
LEMMA MarkIs ==
  ASSUME notice \in [Rows -> Records \cup {Blank}], NEW r \in Rows, NEW status \in Statuses
  PROVE  /\ Mark(r, status) \in [Rows -> Records \cup {Blank}]
         /\ \A q \in Rows : q # r => Mark(r, status)[q] = notice[q]
         /\ notice[r] = Blank => Mark(r, status)[r] = Blank
         /\ notice[r] # Blank => Mark(r, status)[r].status = status
<1>1. CASE notice[r] = Blank
  BY <1>1 DEF Mark
<1>2. CASE notice[r] # Blank
  <2> DEFINE x == [notice[r] EXCEPT !.status = status]
  <2>1. x \in Records /\ x.status = status
    BY <1>2 DEF Records
  <2>2. Mark(r, status) = [notice EXCEPT ![r] = x]
    BY <1>2 DEF Mark
  <2> HIDE DEF x
  <2> QED
    BY <1>2, <2>1, <2>2
<1> QED
  BY <1>1, <1>2

\* A write is of the record of its row.
LEMMA WriteIs ==
  ASSUME NEW recs \in [Rows -> Records \cup {Blank}], NEW r \in Rows, recs[r] # Blank,
         NEW by \in {"tap", "batch"}
  PROVE  Write(recs, r, by) \in Writes /\ Write(recs, r, by).row = r
<1>1. recs[r].n \in 1..MaxClashes
  BY DEF Records
<1> QED
  BY <1>1 DEF Write, Writes

\* A batch that goes on starts a write for the row it begins to restore.
LEMMA ProceedIs ==
  ASSUME NEW d \in NoticeDoc, NEW recs \in [Rows -> Records \cup {Blank}],
         NEW rest \in SUBSET BatchRows, \A x \in rest : x.row[1] = d,
         NEW others \in SUBSET Writes, BatchTyped(batch),
         Proceed(d, recs, rest, others)
  PROVE  /\ notice' \in [Rows -> Records \cup {Blank}]
         /\ writing' \subseteq Writes /\ others \subseteq writing'
         /\ BatchTyped(batch')
         /\ \A r \in Rows : Restoring(notice', r) =>
              Restoring(recs, r) \/ \E w \in writing' : w.row = r
<1> DEFINE here == {x \in rest : Visible(recs, x.row)}
<1>1. CASE here = {}
  <2>1. notice' = recs /\ writing' = others /\ batch' = [batch EXCEPT ![d] = {}]
    BY <1>1 DEF Proceed
  <2> QED
    BY <2>1 DEF BatchTyped
<1>2. CASE here # {}
  <2>1. PICK x \in here :
          /\ notice' = [recs EXCEPT ![x.row].status = "restoring"]
          /\ writing' = others \cup {Write(recs, x.row, "batch")}
          /\ batch' = [batch EXCEPT ![d] = {y \in rest : y.n > x.n}]
    BY <1>2 DEF Proceed
  <2>2. x.row \in Rows /\ recs[x.row] # Blank
    BY <2>1 DEF BatchRows, Visible
  <2> DEFINE q == x.row
             z == [recs[q] EXCEPT !.status = "restoring"]
  <2>3. z \in Records
    BY <2>2 DEF Records, Statuses
  <2>4. notice' = [recs EXCEPT ![q] = z]
    BY <2>1
  <2>5. Write(recs, q, "batch") \in Writes /\ Write(recs, q, "batch").row = q
    BY <2>2, WriteIs
  <2> HIDE DEF q, z
  <2>6. q \in Rows /\ writing' = others \cup {Write(recs, q, "batch")}
    BY <2>1, <2>2 DEF q
  <2>7. notice' \in [Rows -> Records \cup {Blank}]
    BY <2>3, <2>4
  <2>8. writing' \subseteq Writes /\ others \subseteq writing'
    BY <2>5, <2>6
  <2>9. BatchTyped(batch')
    BY <2>1 DEF BatchTyped
  <2>10. ASSUME NEW r \in Rows, Restoring(notice', r)
         PROVE  Restoring(recs, r) \/ \E w \in writing' : w.row = r
    <3>1. CASE r = q
      BY <2>5, <2>6, <3>1
    <3>2. CASE r # q
      BY <2>4, <2>10, <3>2 DEF Restoring
    <3> QED
      BY <3>1, <3>2
  <2> QED
    BY <2>7, <2>8, <2>9, <2>10
<1> QED
  BY <1>1, <1>2

-----------------------------------------------------------------------------
\* Every step keeps the invariant, one action at a time.
LEMMA NextNotice ==
  ASSUME NoticeInv, [NoticeNext]_noticeVars
  PROVE  NoticeInv'
<1>0. /\ notice \in [Rows -> Records \cup {Blank}]
      /\ writing \subseteq Writes
      /\ BatchTyped(batch)
      /\ confirmFor \in NoticeDoc \cup {Blank}
      /\ clashes \in 0..MaxClashes /\ MaxClashes \in Nat
      /\ \A r \in Rows : Restoring(notice, r) => \E w \in writing : w.row = r
  BY NoticeInvIs, NoticeAssumption
<1>1. ASSUME notice' \in [Rows -> Records \cup {Blank}], writing' \subseteq Writes,
             BatchTyped(batch'), confirmFor' \in NoticeDoc \cup {Blank},
             clashes' \in 0..MaxClashes,
             \A r \in Rows : Restoring(notice', r) => \E w \in writing' : w.row = r
      PROVE  NoticeInv'
  BY <1>1 DEF NoticeInv, NoticeTypeOK, RestoringHasWriter, Records, Writes, BatchRows,
              BatchTyped, Restoring
\* a row is marked with a status that needs no write
<1>2. ASSUME NEW r \in Rows, NEW status \in Statuses \ {"restoring"},
             notice' = Mark(r, status), UNCHANGED <<writing, batch, confirmFor, clashes>>
      PROVE  NoticeInv'
  <2>1. /\ notice' \in [Rows -> Records \cup {Blank}]
        /\ \A q \in Rows : Restoring(notice', q) => Restoring(notice, q)
    BY <1>0, <1>2, MarkIs DEF Restoring
  <2> QED
    BY <1>0, <1>1, <1>2, <2>1
\* a row gets a new record, or none
<1>3. ASSUME NEW r \in Rows, NEW x \in Records \cup {Blank},
             x # Blank => x.status # "restoring",
             notice' = [notice EXCEPT ![r] = x], clashes' \in 0..MaxClashes,
             UNCHANGED <<writing, batch, confirmFor>>
      PROVE  NoticeInv'
  <2>1. notice' \in [Rows -> Records \cup {Blank}]
    BY <1>0, <1>3
  <2>2. \A q \in Rows : Restoring(notice', q) => Restoring(notice, q)
    BY <1>0, <1>3 DEF Restoring
  <2> QED
    BY <1>0, <1>1, <1>3, <2>1, <2>2
<1>4. ASSUME NEW r \in Rows, NEW k \in KindsOf[r], Clash(r, k) PROVE NoticeInv'
  <2> DEFINE x == [n |-> clashes', kind |-> k, status |-> "open"]
  <2>1. clashes' = clashes + 1 /\ clashes < MaxClashes
    BY <1>4 DEF Clash
  <2>2. k \in Kinds
    BY NoticeAssumption
  <2>3. x \in Records /\ x.status # "restoring" /\ clashes' \in 0..MaxClashes
    BY <1>0, <2>1, <2>2 DEF Records, Statuses
  <2>4. notice' = [notice EXCEPT ![r] = x] /\ UNCHANGED <<writing, batch, confirmFor>>
    BY <1>4 DEF Clash
  <2> HIDE DEF x
  <2> QED
    BY <1>3, <2>3, <2>4
<1>5. ASSUME NEW r \in Rows, Expire(r) \/ Dismiss(r) PROVE NoticeInv'
  BY <1>0, <1>3, <1>5 DEF Expire, Dismiss
<1>6. ASSUME NEW r \in Rows, Keep(r) \/ Undo(r) PROVE NoticeInv'
  BY <1>2, <1>6 DEF Keep, Undo, Statuses
<1>7. ASSUME NEW r \in Rows, Restore(r) PROVE NoticeInv'
  <2>1. /\ notice' = Mark(r, "restoring") /\ notice[r] # Blank
        /\ writing' = writing \cup {Write(notice, r, "tap")}
        /\ UNCHANGED <<batch, confirmFor, clashes>>
    BY <1>7 DEF Restore, HasPair, Visible
  <2>2. Write(notice, r, "tap") \in Writes /\ Write(notice, r, "tap").row = r
    BY <1>0, <2>1, WriteIs
  <2>3. /\ notice' \in [Rows -> Records \cup {Blank}]
        /\ \A q \in Rows : q # r => notice'[q] = notice[q]
    BY <1>0, <2>1, MarkIs DEF Statuses
  <2>4. \A q \in Rows : Restoring(notice', q) => \E w \in writing' : w.row = q
    BY <1>0, <2>1, <2>2, <2>3 DEF Restoring
  <2> QED
    BY <1>0, <1>1, <2>1, <2>2, <2>3, <2>4
<1>8. ASSUME \/ \E d \in NoticeDoc : Ask(d)
             \/ Cancel \/ UNCHANGED noticeVars
      PROVE  NoticeInv'
  BY <1>0, <1>1, <1>8 DEF Ask, Cancel, noticeVars
<1>9. ASSUME Commit PROVE NoticeInv'
  <2>1. confirmFor \in NoticeDoc /\ confirmFor' = Blank /\ clashes' = clashes
    BY <1>0, <1>9 DEF Commit
  <2>2. CASE UNCHANGED <<notice, writing, batch>>
    BY <1>0, <1>1, <2>1, <2>2
  <2>3. CASE Proceed(confirmFor, notice, BatchIds(notice, confirmFor), writing)
    <3> DEFINE rest == BatchIds(notice, confirmFor)
    <3>1. rest \in SUBSET BatchRows /\ \A x \in rest : x.row[1] = confirmFor
      <4> SUFFICES ASSUME NEW x \in rest PROVE x \in BatchRows /\ x.row[1] = confirmFor
        OBVIOUS
      <4>1. PICK r \in RowsOf(notice, confirmFor) : x = [row |-> r, n |-> notice[r].n]
        BY DEF BatchIds
      <4>2. r \in Rows /\ notice[r] # Blank /\ r[1] = confirmFor
        BY DEF RowsOf, Listed
      <4>3. notice[r].n \in 1..MaxClashes
        BY <1>0, <4>2 DEF Records
      <4> QED
        BY <4>1, <4>2, <4>3 DEF BatchRows
    <3> HIDE DEF rest
    <3>2. /\ notice' \in [Rows -> Records \cup {Blank}]
          /\ writing' \subseteq Writes /\ writing \subseteq writing'
          /\ BatchTyped(batch')
          /\ \A r \in Rows : Restoring(notice', r) =>
               Restoring(notice, r) \/ \E w \in writing' : w.row = r
      BY <1>0, <2>1, <2>3, <3>1, ProceedIs DEF rest
    <3> QED
      BY <1>0, <1>1, <2>1, <3>2
  <2> QED
    BY <1>9, <2>2, <2>3 DEF Commit
<1>10. ASSUME NEW w \in writing, NEW done \in BOOLEAN, RestoreEnds(w, done)
       PROVE  NoticeInv'
  <2> DEFINE recs == Outcome(w, done)
             status == IF done THEN "restored" ELSE "failed"
             others == writing \ {w}
  <2>1. /\ w.row \in Rows /\ w.row[1] \in NoticeDoc /\ others \subseteq Writes
        /\ status \in Statuses /\ status # "restoring"
        /\ recs = Mark(w.row, status) /\ UNCHANGED <<confirmFor, clashes>>
    <3>1. w.row \in Rows
      BY <1>0 DEF Writes
    <3>2. w.row[1] \in NoticeDoc
      BY <3>1, NoticeAssumption
    <3> QED
      BY <1>0, <1>10, <3>1, <3>2 DEF RestoreEnds, Outcome, Statuses
  <2> HIDE DEF recs, status
  <2>2. /\ recs \in [Rows -> Records \cup {Blank}]
        /\ \A q \in Rows : q # w.row => recs[q] = notice[q]
        /\ ~Restoring(recs, w.row)
    BY <1>0, <2>1, MarkIs DEF Restoring
  <2>3. \A r \in Rows : Restoring(recs, r) => \E v \in others : v.row = r
    BY <1>0, <2>2 DEF Restoring
  <2>4. CASE w.by = "batch"
    <3> DEFINE d == w.row[1]
               rest == batch[d]
    <3>1. Proceed(d, recs, rest, others)
      BY <1>10, <2>4 DEF RestoreEnds, recs
    <3>2. d \in NoticeDoc /\ rest \in SUBSET BatchRows /\ \A x \in rest : x.row[1] = d
      BY <1>0, <2>1 DEF BatchTyped
    <3>0. others \in SUBSET Writes
      BY <2>1
    <3> HIDE DEF others, d, rest
    <3>3. /\ notice' \in [Rows -> Records \cup {Blank}]
          /\ writing' \subseteq Writes /\ others \subseteq writing'
          /\ BatchTyped(batch')
          /\ \A r \in Rows : Restoring(notice', r) =>
               Restoring(recs, r) \/ \E v \in writing' : v.row = r
      BY <1>0, <2>2, <3>0, <3>1, <3>2, ProceedIs
    <3>4. \A r \in Rows : Restoring(notice', r) => \E v \in writing' : v.row = r
      BY <2>3, <3>3
    <3> QED
      BY <1>0, <1>1, <2>1, <3>3, <3>4
  <2>5. CASE w.by # "batch"
    <3>1. notice' = recs /\ writing' = others /\ UNCHANGED batch
      BY <1>10, <2>5 DEF RestoreEnds, recs
    <3> QED
      BY <1>0, <1>1, <2>1, <2>2, <2>3, <3>1
  <2> QED
    BY <2>4, <2>5
<1>11. ASSUME PageDies PROVE NoticeInv'
  <2>1. \A r \in Rows : ~Restoring(notice', r)
    BY <1>11 DEF PageDies, Restoring
  <2> QED
    BY <1>0, <1>1, <1>11, <2>1 DEF PageDies, BatchTyped
<1> QED
  BY <1>4, <1>5, <1>6, <1>7, <1>8, <1>9, <1>10, <1>11 DEF NoticeNext

LEMMA NoticeHolds == NoticeSpec => []NoticeInv
BY InitNotice, NextNotice, PTL DEF NoticeSpec

-----------------------------------------------------------------------------
\* The type of every variable, in every state.
THEOREM NoticeTypeCorrect == NoticeSpec => []NoticeTypeOK
<1>1. NoticeInv => NoticeTypeOK
  BY DEF NoticeInv
<1> QED
  BY <1>1, NoticeHolds, PTL

\* A row whose buttons are disabled while it is restored has a write that will end,
\* however taps, batches and new conflicts of the same question overlap.
THEOREM NoRowStuck == NoticeSpec => []RestoringHasWriter
<1>1. NoticeInv => RestoringHasWriter
  BY DEF NoticeInv
<1> QED
  BY <1>1, NoticeHolds, PTL

-----------------------------------------------------------------------------
(* The queue of submitted checklists.                                      *)

\* Ids are given press by press: what is queued has an id of its own, and the press
\* under way has the latest.
Numbered ==
  /\ \A e \in queued \cup direct : e.id <= presses
  /\ \A e, x \in queued : e.id = x.id => e = x
  /\ \A p \in posts : p.by = "press" =>
       /\ p.entry.id = presses
       /\ \A e \in queued : e.id # presses
       /\ \A e \in direct : e.id = presses => e = p.entry

\* The queue is a queue: what left it was put before what is in it, a drain works on
\* its older part, and sends the oldest of that.
Ordered ==
  /\ todo \subseteq queue /\ queue \subseteq queued
  /\ \A e \in queued \ queue, x \in queue : e.id < x.id
  /\ \A e \in todo, x \in queue \ todo : e.id < x.id
  /\ todo # {} => draining
  /\ \A p \in posts : p.by = "drain" =>
       p.entry \in todo /\ \A x \in todo : p.entry.id <= x.id

Holds(e) == [template |-> e.template, value |-> e.value] \in submissions[e.key]

\* A press with an answer got through by itself, and was never queued.
Overtaken(k) ==
  \E e \in direct : /\ e.key = k /\ e.value # Unanswered
                    /\ \A x \in queued : x.id # e.id

LastTold(e) == e \in Told(e.key) /\ \A x \in Told(e.key) : x.id <= e.id

\* What the server's answer to a request means when it reaches the page.
AnswersTrue ==
  \A p \in posts :
    /\ p.stage = "conflict" => p.entry.template \in archived
    /\ (p.by = "drain" /\ p.stage = "taken" /\ p.entry.value # Unanswered) =>
         /\ Answered(p.entry.key, p.entry.template)
         /\ LastTold(p.entry) => Holds(p.entry) \/ Overtaken(p.entry.key)

\* The last answer queued under a key waits, or is the submission's.
LastStands ==
  \A e \in queued : LastTold(e) =>
    \/ e \in queue
    \/ Holds(e)
    \/ e.template \in archived
    \/ Overtaken(e.key)

\* Inductive.
QueueInv ==
  QueueTypeOK /\ Numbered /\ Ordered /\ AnswersTrue /\ QueuedAnswerKept /\ LastStands

-----------------------------------------------------------------------------
(* What the operators of the model give.                                   *)

Posts == [entry : Entries, by : {"press", "drain"},
          stage : {"asked", "taken", "conflict", "failed"}]

LEMMA EntryFields ==
  ASSUME NEW e \in Entries
  PROVE  /\ e.id \in Numbers /\ e.id \in Nat
         /\ e.key \in Numbers /\ e.template \in Templates /\ e.value \in Responses
<1>1. e.id \in Numbers /\ e.key \in Numbers /\ e.template \in Templates /\ e.value \in Responses
  BY DEF Entries
<1> QED
  BY <1>1, QueueAssumption DEF Numbers

\* A request whose stage changes keeps the rest.
LEMMA StagedIs ==
  ASSUME posts \subseteq Posts, NEW p \in posts,
         NEW s \in {"asked", "taken", "conflict", "failed"}, NEW q \in Staged(p, s)
  PROVE  /\ q \in Posts
         /\ \/ q \in posts /\ q # p
            \/ q.entry = p.entry /\ q.by = p.by /\ q.stage = s
<1>1. CASE q \in posts \ {p}
  BY <1>1
<1>2. CASE q = [p EXCEPT !.stage = s]
  <2>1. p \in Posts
    OBVIOUS
  <2> QED
    BY <1>2, <2>1 DEF Posts
<1> QED
  BY <1>1, <1>2 DEF Staged

\* A drain asks for the oldest entry it has left.
LEMMA SendIs ==
  ASSUME NEW rest \in SUBSET Entries, NEW q \in Send(rest)
  PROVE  /\ q \in Posts /\ q.by = "drain" /\ q.stage = "asked"
         /\ q.entry \in rest /\ \A x \in rest : q.entry.id <= x.id
<1>1. PICK e \in rest : /\ q = [entry |-> e, by |-> "drain", stage |-> "asked"]
                        /\ \A x \in rest \ {e} : e.id < x.id
  BY DEF Send, PressedBefore
<1>2. q \in Posts /\ q.by = "drain" /\ q.stage = "asked" /\ q.entry = e
  BY <1>1 DEF Posts
<1>3. \A x \in rest : e.id <= x.id
  <2> TAKE x \in rest
  <2>1. e.id \in Nat /\ x.id \in Nat
    BY EntryFields
  <2>2. CASE x = e
    BY <2>1, <2>2
  <2>3. CASE x # e
    BY <1>1, <2>1, <2>3
  <2> QED
    BY <2>2, <2>3
<1> QED
  BY <1>1, <1>2, <1>3

LEMMA SendOne ==
  ASSUME NEW rest \in SUBSET Entries, NEW q \in Send(rest), NEW r \in Send(rest)
  PROVE  q = r
<1>1. PICK e \in rest : /\ q = [entry |-> e, by |-> "drain", stage |-> "asked"]
                        /\ \A x \in rest \ {e} : e.id < x.id
  BY DEF Send, PressedBefore
<1>2. PICK y \in rest : /\ r = [entry |-> y, by |-> "drain", stage |-> "asked"]
                        /\ \A x \in rest \ {y} : y.id < x.id
  BY DEF Send, PressedBefore
<1>3. e.id \in Nat /\ y.id \in Nat
  BY EntryFields
<1>4. e = y
  <2> SUFFICES ASSUME e # y PROVE FALSE
    OBVIOUS
  <2>1. e.id < y.id /\ y.id < e.id
    BY <1>1, <1>2
  <2> QED
    BY <2>1, <1>3
<1> QED
  BY <1>1, <1>2, <1>4

\* What a submission has of each question after a request: one answer, that of the
\* request if it has one, else what it had, else a draft.
LEMMA UpsertedIs ==
  ASSUME QueueTypeOK, NEW e \in Entries, ~DraftsClash(e.key)
  PROVE  /\ Upserted(e) \subseteq [template : Templates, value : Picks]
         /\ \A r, q \in Upserted(e) : r.template = q.template => r = q
         /\ e.value # Unanswered => [template |-> e.template, value |-> e.value] \in Upserted(e)
         /\ \A r \in submissions[e.key] :
              e.value = Unanswered \/ r.template # e.template => r \in Upserted(e)
<1> DEFINE A == [template : Templates, value : Picks]
           moved == submissions[e.key] \cup MovedDrafts
<1>1. e.key \in Numbers /\ e.template \in Templates /\ e.value \in Responses
  BY EntryFields
<1>2. submissions[e.key] \subseteq A
      /\ \A r, q \in submissions[e.key] : r.template = q.template => r = q
  BY <1>1 DEF QueueTypeOK
<1>3. \A t \in Templates : drafts[t] # Unanswered => drafts[t] \in Picks
  BY DEF QueueTypeOK, Responses
<1>4. \A r \in MovedDrafts :
        /\ r \in A /\ r = [template |-> r.template, value |-> drafts[r.template]]
        /\ drafts[r.template] # Unanswered
  <2> SUFFICES ASSUME NEW t \in Templates, drafts[t] # Unanswered,
                      NEW r, r = [template |-> t, value |-> drafts[t]]
               PROVE  /\ r \in A /\ r = [template |-> r.template, value |-> drafts[r.template]]
                      /\ drafts[r.template] # Unanswered
    BY DEF MovedDrafts
  <2> QED
    BY <1>3
<1>5. \A r \in MovedDrafts, q \in submissions[e.key] : r.template # q.template
  <2> SUFFICES ASSUME NEW r \in MovedDrafts, NEW q \in submissions[e.key],
                      r.template = q.template
               PROVE  FALSE
    OBVIOUS
  <2>1. r.template \in Templates /\ drafts[r.template] # Unanswered
    BY <1>4
  <2> QED
    BY <2>1 DEF DraftsClash, Answered
<1>6. moved \subseteq A /\ \A r, q \in moved : r.template = q.template => r = q
  <2>1. moved \subseteq A
    BY <1>2, <1>4
  <2>2. ASSUME NEW r \in MovedDrafts, NEW q \in MovedDrafts, r.template = q.template
        PROVE  r = q
    BY <1>4, <2>2
  <2> QED
    BY <2>1, <2>2, <1>2, <1>5
<1>7. CASE e.value = Unanswered
  <2>1. Upserted(e) = moved
    BY <1>7 DEF Upserted
  <2> HIDE DEF A, moved
  <2>2. submissions[e.key] \subseteq moved
    BY DEF moved
  <2> QED
    BY <2>1, <2>2, <1>6, <1>7 DEF A
<1>8. CASE e.value # Unanswered
  <2> DEFINE own == [template |-> e.template, value |-> e.value]
  <2>1. Upserted(e) = {r \in moved : r.template # e.template} \cup {own}
    BY <1>8 DEF Upserted, OwnAnswer
  <2>2. own \in A /\ own.template = e.template
    BY <1>1, <1>8 DEF Responses
  <2>3. submissions[e.key] \subseteq moved
    OBVIOUS
  <2> HIDE DEF own, moved, A
  <2>4. Upserted(e) \subseteq A
    BY <2>1, <2>2, <1>6
  <2>5. \A r, q \in Upserted(e) : r.template = q.template => r = q
    BY <2>1, <2>2, <1>6
  <2>6. own \in Upserted(e)
    BY <2>1
  <2>7. \A r \in submissions[e.key] : r.template # e.template => r \in Upserted(e)
    BY <2>1, <2>3
  <2> QED
    BY <2>4, <2>5, <2>6, <2>7, <1>8 DEF A, own
<1> QED
  BY <1>7, <1>8

\* The requests after one of them changes its stage.
LEMMA StagedPosts ==
  ASSUME QueueTypeOK, NEW p \in posts,
         NEW s \in {"asked", "taken", "conflict", "failed"}
  PROVE  /\ Staged(p, s) \subseteq Posts
         /\ \A q, r \in Staged(p, s) : q.by = r.by => q = r
<1>1. posts \subseteq Posts
  BY DEF QueueTypeOK, Posts
<1>2. \A q, r \in posts : q.by = r.by => q = r
  BY DEF QueueTypeOK
<1>3. [p EXCEPT !.stage = s].by = p.by
  BY <1>1 DEF Posts
<1>4. Staged(p, s) \subseteq Posts
  BY <1>1, StagedIs
<1>5. ASSUME NEW q \in Staged(p, s), NEW r \in Staged(p, s), q.by = r.by
      PROVE  q = r
  BY <1>2, <1>3, <1>5 DEF Staged
<1> QED
  BY <1>4, <1>5

\* The requests after a drain asks for the next entry.
LEMMA SentPosts ==
  ASSUME NEW Q \in SUBSET Posts, \A q, r \in Q : q.by = r.by => q = r,
         \A q \in Q : q.by # "drain",
         NEW rest \in SUBSET Entries
  PROVE  /\ Q \cup Send(rest) \subseteq Posts
         /\ \A q, r \in Q \cup Send(rest) : q.by = r.by => q = r
<1>1. \A q \in Send(rest) : q \in Posts /\ q.by = "drain"
  BY SendIs
<1>2. \A q, r \in Send(rest) : q = r
  BY SendOne
<1> QED
  BY <1>1, <1>2

-----------------------------------------------------------------------------
(* The inductive invariant, conjunct by conjunct.                          *)

\* What every conjunct but the type is about.
core == <<queue, todo, draining, posts, submissions, archived, presses, queued, direct>>

LEMMA CoreSteps ==
  ASSUME [QueueNext]_queueVars
  PROVE  \/ UNCHANGED core
         \/ \E t \in Templates : Press(t) \/ Archive(t)
         \/ \E p \in posts :
              \/ Serve(p) \/ Lose(p)
              \/ PressAnswered(p) \/ PressFails(p) \/ DrainAnswered(p) \/ DrainBreaks(p)
         \/ StartDrain \/ ReloadPage
<1>1. CASE QueueNext
  <2>1. CASE \E t \in Templates, v \in Picks : Type(t, v)
    BY <2>1 DEF Type, core
  <2>2. CASE \E t \in Templates : SaveDraft(t)
    BY <2>2 DEF SaveDraft, core
  <2>3. CASE GoOffline \/ GoOnline
    BY <2>3 DEF GoOffline, GoOnline, core
  <2> QED
    BY <1>1, <2>1, <2>2, <2>3 DEF QueueNext
<1>2. CASE UNCHANGED queueVars
  BY <1>2 DEF queueVars, core
<1> QED
  BY <1>1, <1>2

LEMMA NumberedStep ==
  ASSUME QueueTypeOK, Numbered, Ordered, [QueueNext]_queueVars
  PROVE  Numbered'
<1>0. /\ posts \subseteq Posts /\ presses \in Nat
      /\ \A p, q \in posts : p.by = q.by => p = q
      /\ queued \subseteq Entries /\ direct \subseteq Entries
  BY DEF QueueTypeOK, Posts
<1>1. CASE UNCHANGED core
  BY <1>1 DEF Numbered, core
<1>2. ASSUME NEW t \in Templates, Press(t) PROVE Numbered'
  <2>1. presses' = presses + 1 /\ queued' = queued /\ direct' = direct
    BY <1>2 DEF Press
  <2>2. \A e \in queued \cup direct : e.id <= presses /\ e.id \in Nat
    BY <1>0, EntryFields DEF Numbered
  <2>3. \A q \in posts' : q.by = "press" => q.entry.id = presses'
    <3>1. \A q \in posts : q.by # "press"
      BY <1>2 DEF Press
    <3>2. PICK k : posts' = posts \cup
         {[entry |-> [id |-> EntryId(t, presses'), key |-> k, template |-> t,
                      value |-> typed[t]],
           by |-> "press", stage |-> "asked"]}
      BY <1>2 DEF Press
    <3> QED
      BY <3>1, <3>2 DEF EntryId
  <2>4. \A e \in queued' \cup direct' : e.id <= presses' /\ e.id # presses'
    BY <2>1, <2>2, <1>0
  <2> QED
    BY <2>1, <2>3, <2>4 DEF Numbered
<1>3. ASSUME NEW t \in Templates, Archive(t) PROVE Numbered'
  BY <1>3 DEF Archive, Numbered
<1>4. ASSUME NEW p \in posts, Serve(p) PROVE Numbered'
  <2>1. presses' = presses /\ queued' = queued
    BY <1>4 DEF Serve
  <2>2. PICK s \in {"asked", "taken", "conflict", "failed"} : posts' = Staged(p, s)
    BY <1>4 DEF Serve
  <2>3. \A q \in posts' : \E r \in posts : q.entry = r.entry /\ q.by = r.by
    BY <1>0, <2>2, StagedIs
  <2>4. direct' = direct \/ (p.by = "press" /\ direct' = direct \cup {p.entry})
    BY <1>4 DEF Serve
  <2>5. CASE direct' = direct
    BY <2>1, <2>3, <2>5 DEF Numbered
  <2>6. CASE p.by = "press" /\ direct' = direct \cup {p.entry}
    <3>1. p.entry.id = presses /\ presses <= presses
      BY <1>0, <2>6 DEF Numbered
    <3>2. \A e \in queued' \cup direct' : e.id <= presses'
      BY <2>1, <2>6, <3>1 DEF Numbered
    <3>3. ASSUME NEW q \in posts', q.by = "press"
          PROVE  /\ q.entry.id = presses' /\ \A e \in queued' : e.id # presses'
                 /\ \A e \in direct' : e.id = presses' => e = q.entry
      <4>1. PICK r \in posts : q.entry = r.entry /\ q.by = r.by
        BY <2>3
      <4>2. r = p
        BY <1>0, <2>6, <3>3, <4>1
      <4> QED
        BY <2>1, <2>6, <4>1, <4>2 DEF Numbered
    <3> QED
      BY <2>1, <3>2, <3>3 DEF Numbered
  <2> QED
    BY <2>4, <2>5, <2>6
<1>5. ASSUME NEW p \in posts, Lose(p) PROVE Numbered'
  <2>1. presses' = presses /\ queued' = queued /\ direct' = direct /\ posts' = Staged(p, "failed")
    BY <1>5 DEF Lose
  <2>2. \A q \in posts' : \E r \in posts : q.entry = r.entry /\ q.by = r.by
    BY <1>0, <2>1, StagedIs
  <2> QED
    BY <2>1, <2>2 DEF Numbered
<1>6. ASSUME NEW p \in posts, PressAnswered(p) \/ DrainBreaks(p) PROVE Numbered'
  BY <1>6 DEF PressAnswered, DrainBreaks, Numbered
<1>7. ASSUME NEW p \in posts, PressFails(p) PROVE Numbered'
  <2>1. /\ presses' = presses /\ direct' = direct /\ posts' = posts \ {p} /\ p.by = "press"
        /\ queued' = queued \/ queued' = queued \cup {p.entry}
    BY <1>7 DEF PressFails
  <2>2. \A q \in posts' : q.by # "press"
    BY <1>0, <2>1
  <2>3. p.entry.id = presses /\ \A e \in queued : e.id # presses
    BY <2>1 DEF Numbered
  <2>4. \A e \in queued' \cup direct' : e.id <= presses'
    BY <1>0, <2>1, <2>3 DEF Numbered
  <2>5. \A e, x \in queued' : e.id = x.id => e = x
    BY <2>1, <2>3 DEF Numbered
  <2> QED
    BY <2>2, <2>4, <2>5 DEF Numbered
<1>8. ASSUME NEW p \in posts, DrainAnswered(p) PROVE Numbered'
  <2>1. /\ presses' = presses /\ queued' = queued /\ direct' = direct
        /\ posts' = (posts \ {p}) \cup Send(todo') /\ todo' \subseteq todo
    BY <1>8 DEF DrainAnswered
  <2>2. \A q \in posts' : q.by = "press" => q \in posts
    BY <2>1, SendIs DEF QueueTypeOK
  <2> QED
    BY <2>1, <2>2 DEF Numbered
<1>9. CASE StartDrain
  <2>1. /\ presses' = presses /\ queued' = queued /\ direct' = direct
        /\ posts' = posts \cup Send(todo') /\ todo' = queue
    BY <1>9 DEF StartDrain
  <2>2. \A q \in posts' : q.by = "press" => q \in posts
    BY <2>1, SendIs DEF QueueTypeOK
  <2> QED
    BY <2>1, <2>2 DEF Numbered
<1>10. CASE ReloadPage
  BY <1>10 DEF ReloadPage, Numbered
<1> QED
  BY <1>1, <1>2, <1>3, <1>4, <1>5, <1>6, <1>7, <1>8, <1>9, <1>10, CoreSteps

LEMMA OrderedStep ==
  ASSUME QueueTypeOK, Numbered, Ordered, [QueueNext]_queueVars
  PROVE  Ordered'
<1>0. /\ posts \subseteq Posts /\ presses \in Nat
      /\ \A p, q \in posts : p.by = q.by => p = q
      /\ queued \subseteq Entries /\ queue \subseteq Entries /\ todo \subseteq Entries
      /\ \A e \in queued : e.id \in Nat
  BY EntryFields DEF QueueTypeOK, Posts
<1>1. CASE UNCHANGED core
  BY <1>1 DEF Ordered, core
<1>2. ASSUME NEW t \in Templates, Press(t) PROVE Ordered'
  <2>1. UNCHANGED <<queue, todo, draining, queued>>
    BY <1>2 DEF Press
  <2>2. \A q \in posts' : q.by = "drain" => q \in posts
    BY <1>2 DEF Press
  <2> QED
    BY <2>1, <2>2 DEF Ordered
<1>3. ASSUME NEW t \in Templates, Archive(t) PROVE Ordered'
  BY <1>3 DEF Archive, Ordered
<1>4. ASSUME NEW p \in posts, Serve(p) \/ Lose(p) PROVE Ordered'
  <2>1. UNCHANGED <<queue, todo, draining, queued>>
    BY <1>4 DEF Serve, Lose
  <2>2. PICK s \in {"asked", "taken", "conflict", "failed"} : posts' = Staged(p, s)
    BY <1>4 DEF Serve, Lose
  <2>3. \A q \in posts' : \E r \in posts : q.entry = r.entry /\ q.by = r.by
    BY <1>0, <2>2, StagedIs
  <2> QED
    BY <2>1, <2>3 DEF Ordered
<1>5. ASSUME NEW p \in posts, PressAnswered(p) PROVE Ordered'
  BY <1>5 DEF PressAnswered, Ordered
<1>6. ASSUME NEW p \in posts, PressFails(p) PROVE Ordered'
  <2>1. /\ UNCHANGED <<todo, draining>> /\ posts' = posts \ {p} /\ p.by = "press"
        /\ \/ UNCHANGED <<queue, queued>>
           \/ queue' = Put(p.entry) /\ queued' = queued \cup {p.entry}
    BY <1>6 DEF PressFails
  <2>2. CASE UNCHANGED <<queue, queued>>
    BY <2>1, <2>2 DEF Ordered
  <2>3. CASE queue' = Put(p.entry) /\ queued' = queued \cup {p.entry}
    <3>1. queue' = queue \cup {p.entry}
      BY <2>1, <2>3 DEF Put, Numbered, Ordered
    <3>2. \A e \in queued : e.id < p.entry.id
      BY <1>0, <2>1 DEF Numbered
    <3>3. todo' \subseteq queue' /\ queue' \subseteq queued'
      BY <2>1, <2>3, <3>1 DEF Ordered
    <3>4. \A e \in queued' \ queue', x \in queue' : e.id < x.id
      BY <2>3, <3>1, <3>2 DEF Ordered
    <3>5. \A e \in todo', x \in queue' \ todo' : e.id < x.id
      BY <2>1, <3>1, <3>2 DEF Ordered
    <3> QED
      BY <2>1, <3>3, <3>4, <3>5 DEF Ordered
  <2> QED
    BY <2>1, <2>2, <2>3
<1>7. ASSUME NEW p \in posts, DrainAnswered(p) PROVE Ordered'
  <2>1. /\ queue' = {e \in queue : e.id # p.entry.id} /\ queued' = queued /\ p.by = "drain"
        /\ todo' = todo \ {p.entry} /\ draining' = (todo' # {})
        /\ posts' = (posts \ {p}) \cup Send(todo')
    BY <1>7 DEF DrainAnswered
  <2>2. /\ p.entry \in todo /\ p.entry \in queue /\ p.entry \in queued
        /\ \A x \in todo : p.entry.id <= x.id
    BY <2>1 DEF Ordered
  <2>3. queue' = queue \ {p.entry}
    BY <2>1, <2>2 DEF Numbered, Ordered
  <2>4. todo' \subseteq queue' /\ queue' \subseteq queued'
    BY <2>1, <2>3 DEF Ordered
  <2>5. ASSUME NEW e \in queued' \ queue', NEW x \in queue'
        PROVE  e.id < x.id
    <3>1. x \in queue /\ x \in queued /\ x # p.entry
      BY <2>3, <2>4, <2>1
    <3>2. CASE e \notin queue
      BY <2>1, <3>1, <3>2 DEF Ordered
    <3>3. CASE e = p.entry
      <4>1. CASE x \in todo
        <5>1. p.entry.id <= x.id /\ p.entry.id # x.id
          BY <2>2, <3>1, <4>1 DEF Numbered
        <5> QED
          BY <1>0, <2>2, <3>1, <3>3, <5>1
      <4>2. CASE x \notin todo
        BY <2>2, <3>1, <3>3, <4>2 DEF Ordered
      <4> QED
        BY <4>1, <4>2
    <3> QED
      BY <2>3, <3>2, <3>3
  <2>6. \A e \in todo', x \in queue' \ todo' : e.id < x.id
    BY <2>1, <2>3 DEF Ordered
  <2>7. \A q \in posts' : q.by = "drain" => q.entry \in todo' /\ \A x \in todo' : q.entry.id <= x.id
    <3>1. \A q \in posts \ {p} : q.by # "drain"
      BY <1>0, <2>1
    <3>2. todo' \in SUBSET Entries
      BY <1>0, <2>1
    <3> QED
      BY <2>1, <3>1, <3>2, SendIs
  <2> QED
    BY <2>1, <2>4, <2>5, <2>6, <2>7 DEF Ordered
<1>8. ASSUME NEW p \in posts, DrainBreaks(p) PROVE Ordered'
  <2>1. /\ UNCHANGED <<queue, queued>> /\ todo' = {} /\ posts' = posts \ {p} /\ p.by = "drain"
    BY <1>8 DEF DrainBreaks
  <2>2. \A q \in posts' : q.by # "drain"
    BY <1>0, <2>1
  <2> QED
    BY <2>1, <2>2 DEF Ordered
<1>9. CASE StartDrain
  <2>1. /\ UNCHANGED <<queue, queued>> /\ ~draining /\ draining' = TRUE
        /\ posts' = posts \cup Send(todo') /\ todo' = queue
    BY <1>9 DEF StartDrain, MayDrain
  <2>2. \A q \in posts : q.by # "drain"
    BY <2>1 DEF Ordered
  <2>3. \A q \in posts' : q.by = "drain" => q.entry \in todo' /\ \A x \in todo' : q.entry.id <= x.id
    BY <1>0, <2>1, <2>2, SendIs
  <2> QED
    BY <2>1, <2>3 DEF Ordered
<1>10. CASE ReloadPage
  BY <1>10 DEF ReloadPage, Ordered
<1> QED
  BY <1>1, <1>2, <1>3, <1>4, <1>5, <1>6, <1>7, <1>8, <1>9, <1>10, CoreSteps

LEMMA QueueTypeStep ==
  ASSUME QueueTypeOK, Ordered, [QueueNext]_queueVars
  PROVE  QueueTypeOK'
<1> DEFINE AnswerSet == [template : Templates, value : Picks]
<1>0. /\ posts \subseteq Posts /\ \A q, r \in posts : q.by = r.by => q = r
      /\ queue \subseteq Entries /\ queued \subseteq Entries /\ todo \subseteq Entries
      /\ presses \in 0..MaxPresses /\ breaks \in 0..MaxBreaks
      /\ Unanswered \in Responses
      /\ MaxPresses \in Nat /\ MaxBreaks \in Nat
  BY QueueAssumption DEF QueueTypeOK, Posts, Responses
<1>1. CASE UNCHANGED queueVars
  BY <1>1 DEF queueVars, QueueTypeOK
<1>2. ASSUME NEW t \in Templates, NEW v \in Picks, Type(t, v) PROVE QueueTypeOK'
  <2>1. typed' \in [Templates -> Responses]
    BY <1>2 DEF Type, QueueTypeOK, Responses
  <2> QED
    BY <1>2, <2>1 DEF Type, QueueTypeOK
<1>3. ASSUME NEW t \in Templates, SaveDraft(t) PROVE QueueTypeOK'
  <2>1. drafts' \in [Templates -> Responses]
    BY <1>3 DEF SaveDraft, QueueTypeOK
  <2> QED
    BY <1>3, <2>1 DEF SaveDraft, QueueTypeOK
<1>4. ASSUME NEW t \in Templates, Press(t) PROVE QueueTypeOK'
  <2>1. presses' \in 0..MaxPresses /\ presses' \in Numbers
    BY <1>0, <1>4 DEF Press, Numbers
  <2>2. PICK k \in IF QueuedToday(t) = {} THEN {presses'} ELSE {e.key : e \in QueuedToday(t)} :
       posts' = posts \cup
         {[entry |-> [id |-> EntryId(t, presses'), key |-> k, template |-> t,
                      value |-> typed[t]],
           by |-> "press", stage |-> "asked"]}
    BY <1>4 DEF Press
  <2>3. k \in Numbers
    <3>1. CASE QueuedToday(t) = {}
      BY <2>1, <2>2, <3>1
    <3>2. CASE QueuedToday(t) # {}
      <4>1. PICK e \in QueuedToday(t) : k = e.key
        BY <2>2, <3>2
      <4> QED
        BY <4>1, <1>0, EntryFields DEF QueuedToday
    <3> QED
      BY <3>1, <3>2
  <2>4. typed[t] \in Responses
    BY DEF QueueTypeOK
  <2>5. [id |-> EntryId(t, presses'), key |-> k, template |-> t, value |-> typed[t]] \in Entries
    BY <2>1, <2>3, <2>4 DEF Entries, EntryId
  <2>6. posts' \subseteq Posts /\ \A q, r \in posts' : q.by = r.by => q = r
    <3>1. \A p \in posts : p.by # "press"
      BY <1>4 DEF Press
    <3> QED
      BY <1>0, <2>2, <2>5, <3>1 DEF Posts
  <2> QED
    BY <1>4, <2>1, <2>6 DEF Press, QueueTypeOK, Posts
<1>5. ASSUME NEW t \in Templates, Archive(t) PROVE QueueTypeOK'
  <2>1. breaks' \in 0..MaxBreaks
    BY <1>0, <1>5 DEF Archive
  <2> QED
    BY <1>5, <2>1 DEF Archive, QueueTypeOK
<1>6. ASSUME NEW p \in posts, Serve(p) PROVE QueueTypeOK'
  <2>1. PICK s \in {"asked", "taken", "conflict", "failed"} : posts' = Staged(p, s)
    BY <1>6 DEF Serve
  <2>2. posts' \subseteq Posts /\ \A q, r \in posts' : q.by = r.by => q = r
    BY <2>1, StagedPosts
  <2>3. p.entry \in Entries /\ p.entry.key \in Numbers
    BY <1>0, EntryFields DEF Posts
  <2>4. CASE UNCHANGED <<drafts, submissions, direct>>
    BY <1>6, <2>2, <2>4 DEF Serve, QueueTypeOK, Posts
  <2>5. CASE ~ UNCHANGED <<drafts, submissions, direct>>
    <3>1. /\ ~DraftsClash(p.entry.key)
          /\ submissions' = [submissions EXCEPT ![p.entry.key] = Upserted(p.entry)]
          /\ drafts' = [t \in Templates |-> Unanswered]
          /\ direct' = direct \/ direct' = direct \cup {p.entry}
      BY <1>6, <2>5 DEF Serve
    <3>2. /\ Upserted(p.entry) \subseteq AnswerSet
          /\ \A r, q \in Upserted(p.entry) : r.template = q.template => r = q
      BY <2>3, <3>1, UpsertedIs
    <3>3. submissions \in [Numbers -> SUBSET AnswerSet]
          /\ \A k \in Numbers : \A r, q \in submissions[k] : r.template = q.template => r = q
      BY DEF QueueTypeOK
    <3> HIDE DEF AnswerSet
    <3>4. submissions' \in [Numbers -> SUBSET AnswerSet]
          /\ \A k \in Numbers : \A r, q \in submissions'[k] : r.template = q.template => r = q
      BY <2>3, <3>1, <3>2, <3>3
    <3>5. drafts' \in [Templates -> Responses] /\ direct' \subseteq Entries
      BY <1>0, <2>3, <3>1 DEF QueueTypeOK
    <3>6. UNCHANGED <<online, typed, queue, todo, draining, archived, presses, breaks, queued>>
      BY <1>6 DEF Serve
    <3> QED
      BY <2>2, <3>4, <3>5, <3>6 DEF QueueTypeOK, Posts, AnswerSet
  <2> QED
    BY <2>4, <2>5
<1>7. ASSUME NEW p \in posts, Lose(p) PROVE QueueTypeOK'
  <2>1. breaks' \in 0..MaxBreaks /\ posts' = Staged(p, "failed")
    BY <1>0, <1>7 DEF Lose
  <2>2. posts' \subseteq Posts /\ \A q, r \in posts' : q.by = r.by => q = r
    BY <2>1, StagedPosts
  <2> QED
    BY <1>7, <2>1, <2>2 DEF Lose, QueueTypeOK, Posts
<1>8. ASSUME NEW p \in posts, PressAnswered(p) PROVE QueueTypeOK'
  BY <1>8 DEF PressAnswered, QueueTypeOK
<1>9. ASSUME NEW p \in posts, PressFails(p) PROVE QueueTypeOK'
  <2>1. p.entry \in Entries
    BY <1>0 DEF Posts
  <2>2. queue' \subseteq Entries /\ queued' \subseteq Entries
    BY <1>0, <1>9, <2>1 DEF PressFails, Put
  <2>3. /\ posts' = posts \ {p}
        /\ UNCHANGED <<online, typed, todo, draining, drafts, submissions, archived,
                       presses, breaks, direct>>
    BY <1>9 DEF PressFails
  <2> QED
    BY <2>2, <2>3 DEF QueueTypeOK
<1>10. ASSUME NEW p \in posts, DrainAnswered(p) PROVE QueueTypeOK'
  <2>1. /\ queue' \subseteq Entries /\ todo' \subseteq Entries /\ draining' \in BOOLEAN
        /\ posts' = (posts \ {p}) \cup Send(todo') /\ p.by = "drain"
        /\ UNCHANGED <<online, typed, drafts, submissions, archived, presses, breaks,
                       queued, direct>>
    BY <1>0, <1>10 DEF DrainAnswered
  <2>2. \A q \in posts \ {p} : q.by # "drain"
    BY <1>0, <2>1
  <2>3. posts' \subseteq Posts /\ \A q, r \in posts' : q.by = r.by => q = r
    <3> DEFINE Q == posts \ {p}
               rest == todo'
    <3>1. /\ Q \in SUBSET Posts /\ (\A q, r \in Q : q.by = r.by => q = r)
          /\ (\A q \in Q : q.by # "drain") /\ rest \in SUBSET Entries
      BY <1>0, <2>1, <2>2
    <3> HIDE DEF Q, rest
    <3>2. /\ Q \cup Send(rest) \subseteq Posts
          /\ \A q, r \in Q \cup Send(rest) : q.by = r.by => q = r
      BY <3>1, SentPosts
    <3> QED
      BY <2>1, <3>2 DEF Q, rest
  <2> QED
    BY <2>1, <2>3 DEF QueueTypeOK, Posts
<1>11. ASSUME NEW p \in posts, DrainBreaks(p) PROVE QueueTypeOK'
  BY <1>11 DEF DrainBreaks, QueueTypeOK
<1>12. CASE StartDrain
  <2>1. /\ todo' = queue /\ draining' = TRUE /\ ~draining
        /\ posts' = posts \cup Send(todo')
        /\ UNCHANGED <<online, typed, queue, drafts, submissions, archived, presses,
                       breaks, queued, direct>>
    BY <1>12 DEF StartDrain, MayDrain
  <2>2. \A q \in posts : q.by # "drain"
    BY <2>1 DEF Ordered
  <2>3. posts' \subseteq Posts /\ \A q, r \in posts' : q.by = r.by => q = r
    <3>1. /\ posts \cup Send(queue) \subseteq Posts
          /\ \A q, r \in posts \cup Send(queue) : q.by = r.by => q = r
      BY <1>0, <2>2, SentPosts
    <3> QED
      BY <2>1, <3>1
  <2> QED
    BY <1>0, <2>1, <2>3 DEF QueueTypeOK, Posts
<1>13. CASE GoOffline
  <2>1. breaks' \in 0..MaxBreaks
    BY <1>0, <1>13 DEF GoOffline
  <2> QED
    BY <1>13, <2>1 DEF GoOffline, QueueTypeOK
<1>14. CASE GoOnline
  BY <1>14 DEF GoOnline, QueueTypeOK
<1>15. CASE ReloadPage
  <2>1. breaks' \in 0..MaxBreaks
    BY <1>0, <1>15 DEF ReloadPage
  <2>2. typed' \in [Templates -> Responses]
    BY <1>0, <1>15 DEF ReloadPage, QueueTypeOK
  <2>3. posts' = {} /\ todo' = {} /\ draining' = FALSE
        /\ UNCHANGED <<online, queue, drafts, submissions, archived, presses, queued, direct>>
    BY <1>15 DEF ReloadPage
  <2> QED
    BY <2>1, <2>2, <2>3 DEF QueueTypeOK
<1> QED
  BY <1>1, <1>2, <1>3, <1>4, <1>5, <1>6, <1>7, <1>8, <1>9, <1>10, <1>11, <1>12,
     <1>13, <1>14, <1>15 DEF QueueNext

-----------------------------------------------------------------------------
(* What a step can do to an answer the server has.                         *)

LEMMA ServeIs ==
  ASSUME QueueTypeOK, NEW p \in posts, Serve(p)
  PROVE  /\ queued' = queued /\ queue' = queue /\ archived' = archived
         /\ \A k \in Numbers, t \in Templates : Answered(k, t) => Answered(k, t)'
         /\ \/ /\ posts' = Staged(p, "conflict") /\ p.entry.template \in archived
               /\ UNCHANGED <<submissions, direct>>
            \/ posts' = Staged(p, "failed") /\ UNCHANGED <<submissions, direct>>
            \/ /\ posts' = Staged(p, "taken")
               /\ direct' = IF p.by = "press" THEN direct \cup {p.entry} ELSE direct
               /\ p.entry.value # Unanswered =>
                    Holds(p.entry)' /\ Answered(p.entry.key, p.entry.template)'
               /\ \A k \in Numbers : \A r \in submissions[k] :
                    \/ r \in submissions'[k]
                    \/ /\ p.entry.key = k /\ p.entry.value # Unanswered
                       /\ p.entry.template = r.template
<1> DEFINE e == p.entry
<1>1. e \in Entries /\ e.key \in Numbers /\ e.template \in Templates
  <2>1. e \in Entries
    BY DEF QueueTypeOK
  <2> QED
    BY <2>1, EntryFields
<1>2. queued' = queued /\ queue' = queue /\ archived' = archived
  BY DEF Serve
<1>3. CASE posts' = Staged(p, "conflict") /\ e.template \in archived
           /\ UNCHANGED <<submissions, direct>>
  BY <1>2, <1>3 DEF Answered
<1>4. CASE posts' = Staged(p, "failed") /\ UNCHANGED <<submissions, direct>>
  BY <1>2, <1>4 DEF Answered
<1>5. CASE /\ ~DraftsClash(e.key)
           /\ posts' = Staged(p, "taken")
           /\ submissions' = [submissions EXCEPT ![e.key] = Upserted(e)]
           /\ direct' = IF p.by = "press" THEN direct \cup {e} ELSE direct
  <2>1. DOMAIN submissions = Numbers
    BY DEF QueueTypeOK
  <2>2. /\ submissions'[e.key] = Upserted(e)
        /\ \A k \in Numbers : k # e.key => submissions'[k] = submissions[k]
    BY <1>1, <1>5, <2>1
  <2>3. /\ e.value # Unanswered => [template |-> e.template, value |-> e.value] \in Upserted(e)
        /\ \A r \in submissions[e.key] :
             e.value = Unanswered \/ r.template # e.template => r \in Upserted(e)
    BY <1>1, <1>5, UpsertedIs
  <2>4. e.value # Unanswered => Holds(e)' /\ Answered(e.key, e.template)'
    <3> SUFFICES ASSUME e.value # Unanswered PROVE Holds(e)' /\ Answered(e.key, e.template)'
      OBVIOUS
    <3>1. [template |-> e.template, value |-> e.value] \in submissions'[e.key]
      BY <2>2, <2>3
    <3>2. [template |-> e.template, value |-> e.value].template = e.template
      OBVIOUS
    <3> QED
      BY <3>1, <3>2 DEF Holds, Answered
  <2>5. \A k \in Numbers : \A r \in submissions[k] :
          \/ r \in submissions'[k]
          \/ e.key = k /\ e.value # Unanswered /\ e.template = r.template
    BY <2>2, <2>3
  <2>6. \A k \in Numbers, t \in Templates : Answered(k, t) => Answered(k, t)'
    <3> SUFFICES ASSUME NEW k \in Numbers, NEW t \in Templates,
                        NEW r \in submissions[k], r.template = t
                 PROVE  Answered(k, t)'
      BY DEF Answered
    <3>1. CASE r \in submissions'[k]
      BY <3>1 DEF Answered
    <3>2. CASE e.key = k /\ e.value # Unanswered /\ e.template = t
      BY <2>4, <3>2
    <3> QED
      BY <2>5, <3>1, <3>2
  <2> QED
    BY <1>2, <1>5, <2>4, <2>5, <2>6
<1> QED
  BY <1>3, <1>4, <1>5 DEF Serve

\* What comes into the queue is the press under way, later than all there was.
LEMMA QueuedIs ==
  ASSUME QueueTypeOK, Numbered, Ordered, NEW p \in posts, PressFails(p),
         NEW x \in queued', x \notin queued
  PROVE  /\ x = p.entry /\ x \in queue' /\ x.id = presses
         /\ \A e \in queued : e.id < x.id
<1>1. x = p.entry /\ queue' = Put(p.entry) /\ p.by = "press"
  BY DEF PressFails
<1>2. x.id = presses /\ \A e \in queued : e.id <= presses /\ e.id # presses
  BY <1>1 DEF Numbered
<1>3. \A e \in queued : e.id \in Nat
  BY EntryFields DEF QueueTypeOK
<1>4. presses \in Nat
  BY DEF QueueTypeOK
<1> QED
  BY <1>1, <1>2, <1>3, <1>4 DEF Put

\* A press that got through by itself stays so, unless it is queued after all.
LEMMA OvertakenStays ==
  ASSUME QueueTypeOK, Numbered, Ordered, NEW p \in posts, PressFails(p),
         NEW k, Overtaken(k), ~Overtaken(k)'
  PROVE  \E x \in queued' : x \notin queued /\ x.key = k /\ x.value # Unanswered
<1>1. PICK e \in direct : e.key = k /\ e.value # Unanswered /\ \A x \in queued : x.id # e.id
  BY DEF Overtaken
<1>2. direct' = direct /\ p.by = "press"
  BY DEF PressFails
<1>3. PICK x \in queued' : x.id = e.id
  BY <1>1, <1>2 DEF Overtaken
<1>4. x \notin queued
  BY <1>1, <1>3
<1>5. x = p.entry /\ x.id = presses
  BY <1>4, QueuedIs
<1>6. e = x
  BY <1>2, <1>3, <1>5 DEF Numbered
<1> QED
  BY <1>1, <1>4, <1>6

LEMMA AnswersTrueStep ==
  ASSUME QueueTypeOK, Numbered, Ordered, AnswersTrue, [QueueNext]_queueVars
  PROVE  AnswersTrue'
<1>0. /\ posts \subseteq Posts
      /\ \A p, q \in posts : p.by = q.by => p = q
      /\ queued \subseteq Entries /\ queue \subseteq Entries
      /\ \A p \in posts : p.entry.key \in Numbers /\ p.entry.template \in Templates
  <2>1. posts \subseteq Posts /\ queued \subseteq Entries /\ queue \subseteq Entries
        /\ \A p, q \in posts : p.by = q.by => p = q
    BY DEF QueueTypeOK, Posts
  <2>2. \A p \in posts : p.entry \in Entries
    BY <2>1 DEF Posts
  <2> QED
    BY <2>1, <2>2, EntryFields
<1>1. CASE UNCHANGED core
  BY <1>1 DEF AnswersTrue, core, Answered, LastTold, Told, Holds, Overtaken
<1>2. ASSUME UNCHANGED <<submissions, queued, direct>>, archived \subseteq archived',
             \A q \in posts' : q \in posts \/ q.stage \in {"asked", "failed"}
      PROVE  AnswersTrue'
  BY <1>2 DEF AnswersTrue, Answered, LastTold, Told, Holds, Overtaken
<1>3. ASSUME NEW t \in Templates, Press(t) PROVE AnswersTrue'
  <2>1. UNCHANGED <<submissions, queued, direct, archived>>
    BY <1>3 DEF Press
  <2>2. \A q \in posts' : q \in posts \/ q.stage = "asked"
    BY <1>3 DEF Press
  <2> QED
    BY <1>2, <2>1, <2>2
<1>4. ASSUME NEW t \in Templates, Archive(t) PROVE AnswersTrue'
  <2>1. UNCHANGED <<submissions, queued, direct, posts>> /\ archived \subseteq archived'
    BY <1>4 DEF Archive
  <2> QED
    BY <1>2, <2>1
<1>5. ASSUME NEW p \in posts, Lose(p) PROVE AnswersTrue'
  <2>1. UNCHANGED <<submissions, queued, direct, archived>> /\ posts' = Staged(p, "failed")
    BY <1>5 DEF Lose
  <2>2. \A q \in posts' : q \in posts \/ q.stage = "failed"
    BY <1>0, <2>1, StagedIs
  <2> QED
    BY <1>2, <2>1, <2>2
<1>6. ASSUME NEW p \in posts, PressAnswered(p) \/ DrainBreaks(p) PROVE AnswersTrue'
  <2>1. UNCHANGED <<submissions, queued, direct, archived>> /\ posts' \subseteq posts
    BY <1>6 DEF PressAnswered, DrainBreaks
  <2> QED
    BY <1>2, <2>1
<1>7. ASSUME NEW p \in posts, DrainAnswered(p) PROVE AnswersTrue'
  <2>1. /\ UNCHANGED <<submissions, queued, direct, archived>>
        /\ posts' = (posts \ {p}) \cup Send(todo') /\ todo' \subseteq todo
    BY <1>7 DEF DrainAnswered
  <2>2. todo' \in SUBSET Entries
    BY <2>1 DEF QueueTypeOK
  <2>3. \A q \in posts' : q \in posts \/ q.stage = "asked"
    BY <2>1, <2>2, SendIs
  <2> QED
    BY <1>2, <2>1, <2>3
<1>8. CASE StartDrain
  <2>1. /\ UNCHANGED <<submissions, queued, direct, archived>>
        /\ posts' = posts \cup Send(queue)
    BY <1>8 DEF StartDrain
  <2>2. \A q \in posts' : q \in posts \/ q.stage = "asked"
    BY <1>0, <2>1, SendIs
  <2> QED
    BY <1>2, <2>1, <2>2
<1>9. CASE ReloadPage
  <2>1. UNCHANGED <<submissions, queued, direct, archived>> /\ posts' = {}
    BY <1>9 DEF ReloadPage
  <2> QED
    BY <1>2, <2>1
<1>10. ASSUME NEW p \in posts, PressFails(p) PROVE AnswersTrue'
  <2>1. /\ UNCHANGED <<submissions, archived, direct>> /\ posts' \subseteq posts
        /\ queued \subseteq queued'
    BY <1>10 DEF PressFails
  <2>2. ASSUME NEW q \in posts', q.by = "drain", q.stage = "taken",
               q.entry.value # Unanswered, LastTold(q.entry)'
        PROVE  Holds(q.entry)' \/ Overtaken(q.entry.key)'
    <3>1. q \in posts /\ q.entry \in queued
      BY <2>1, <2>2 DEF Ordered
    <3>2. LastTold(q.entry)
      BY <2>1, <2>2, <3>1 DEF LastTold, Told
    <3>3. Holds(q.entry) \/ Overtaken(q.entry.key)
      BY <2>2, <3>1, <3>2 DEF AnswersTrue
    <3>4. CASE Holds(q.entry)
      BY <2>1, <3>4 DEF Holds
    <3>5. CASE Overtaken(q.entry.key) /\ ~Overtaken(q.entry.key)'
      <4>1. PICK x \in queued' : x \notin queued /\ x.key = q.entry.key /\ x.value # Unanswered
        BY <1>10, <3>5, OvertakenStays
      <4>2. q.entry.id < x.id
        BY <1>10, <3>1, <4>1, QueuedIs
      <4>3. x.id <= q.entry.id
        BY <2>2, <4>1 DEF LastTold, Told
      <4>4. x.id \in Nat /\ q.entry.id \in Nat
        <5>1. x = p.entry /\ x \in Entries
          BY <1>0, <1>10, <4>1, QueuedIs DEF Posts
        <5> QED
          BY <1>0, <3>1, <5>1, EntryFields
      <4> QED
        BY <4>2, <4>3, <4>4
    <3> QED
      BY <3>3, <3>4, <3>5
  <2>3. \A k, t : Answered(k, t) => Answered(k, t)'
    BY <2>1 DEF Answered
  <2> QED
    BY <2>1, <2>2, <2>3 DEF AnswersTrue
<1>11. ASSUME NEW p \in posts, Serve(p) PROVE AnswersTrue'
  <2>1. /\ queued' = queued /\ archived' = archived
        /\ \A k \in Numbers, t \in Templates : Answered(k, t) => Answered(k, t)'
    BY <1>11, ServeIs
  <2>2. CASE /\ posts' = Staged(p, "conflict") /\ p.entry.template \in archived
             /\ UNCHANGED <<submissions, direct>>
    <3>1. \A q \in posts' : q \in posts \/ (q.stage = "conflict" /\ q.entry.template \in archived)
      BY <1>0, <2>2, StagedIs
    <3> QED
      BY <2>1, <2>2, <3>1 DEF AnswersTrue, Answered, LastTold, Told, Holds, Overtaken
  <2>3. CASE posts' = Staged(p, "failed") /\ UNCHANGED <<submissions, direct>>
    <3>1. \A q \in posts' : q \in posts \/ q.stage = "failed"
      BY <1>0, <2>3, StagedIs
    <3> QED
      BY <1>2, <2>1, <2>3, <3>1
  <2>4. CASE /\ posts' = Staged(p, "taken")
             /\ direct' = IF p.by = "press" THEN direct \cup {p.entry} ELSE direct
             /\ p.entry.value # Unanswered =>
                  Holds(p.entry)' /\ Answered(p.entry.key, p.entry.template)'
             /\ \A k \in Numbers : \A r \in submissions[k] :
                  \/ r \in submissions'[k]
                  \/ /\ p.entry.key = k /\ p.entry.value # Unanswered
                     /\ p.entry.template = r.template
    <3>1. \A q \in posts' : \/ q \in posts /\ q # p
                            \/ q.entry = p.entry /\ q.by = p.by /\ q.stage = "taken"
      BY <1>0, <2>4, StagedIs
    <3>2. \A e : LastTold(e)' => LastTold(e)
      BY <2>1 DEF LastTold, Told
    <3>3. \A k : Overtaken(k) => Overtaken(k)'
      BY <2>1, <2>4 DEF Overtaken
    <3>4. ASSUME NEW q \in posts, q # p, q.by = "drain", q.stage = "taken",
                 q.entry.value # Unanswered, LastTold(q.entry)
          PROVE  Holds(q.entry)' \/ Overtaken(q.entry.key)'
      <4>1. Holds(q.entry) \/ Overtaken(q.entry.key)
        BY <3>4 DEF AnswersTrue
      <4>2. CASE Holds(q.entry) /\ ~Holds(q.entry)'
        <5>1. p.entry.key = q.entry.key /\ p.entry.value # Unanswered
          BY <1>0, <2>4, <4>2 DEF Holds
        <5>2. p.by = "press"
          BY <1>0, <3>4 DEF Posts
        <5>3. p.entry \in direct' /\ \A x \in queued' : x.id # p.entry.id
          BY <2>1, <2>4, <5>2 DEF Numbered
        <5> QED
          BY <5>1, <5>3 DEF Overtaken
      <4> QED
        BY <3>3, <4>1, <4>2
    <3>5. ASSUME NEW q \in posts'
          PROVE  /\ q.stage = "conflict" => q.entry.template \in archived'
                 /\ (q.by = "drain" /\ q.stage = "taken" /\ q.entry.value # Unanswered) =>
                      /\ Answered(q.entry.key, q.entry.template)'
                      /\ LastTold(q.entry)' => Holds(q.entry)' \/ Overtaken(q.entry.key)'
      <4>1. CASE q \in posts /\ q # p
        <5>1. q.stage = "conflict" => q.entry.template \in archived'
          BY <2>1, <4>1 DEF AnswersTrue
        <5>2. q.by = "drain" /\ q.stage = "taken" /\ q.entry.value # Unanswered
              => Answered(q.entry.key, q.entry.template)'
          BY <1>0, <2>1, <4>1 DEF AnswersTrue
        <5> QED
          BY <3>2, <3>4, <4>1, <5>1, <5>2
      <4>2. CASE q.entry = p.entry /\ q.by = p.by /\ q.stage = "taken"
        BY <2>4, <4>2
      <4> QED
        BY <3>1, <4>1, <4>2
    <3> QED
      BY <3>5 DEF AnswersTrue
  <2> QED
    BY <1>11, ServeIs, <2>2, <2>3, <2>4
<1> QED
  BY <1>1, <1>3, <1>4, <1>5, <1>6, <1>7, <1>8, <1>9, <1>10, <1>11, CoreSteps

LEMMA KeptStep ==
  ASSUME QueueTypeOK, Numbered, Ordered, AnswersTrue, QueuedAnswerKept,
         [QueueNext]_queueVars
  PROVE  QueuedAnswerKept'
<1>0. /\ posts \subseteq Posts /\ queued \subseteq Entries
      /\ \A e \in queued : e.key \in Numbers /\ e.template \in Templates
  BY EntryFields DEF QueueTypeOK, Posts
<1>1. ASSUME UNCHANGED <<queue, queued, submissions>>, archived \subseteq archived'
      PROVE  QueuedAnswerKept'
  BY <1>1 DEF QueuedAnswerKept, Answered
<1>2. CASE UNCHANGED core
  BY <1>1, <1>2 DEF core
<1>3. ASSUME NEW t \in Templates, Press(t) \/ Archive(t) PROVE QueuedAnswerKept'
  BY <1>1, <1>3 DEF Press, Archive
<1>4. ASSUME NEW p \in posts, Lose(p) \/ PressAnswered(p) \/ DrainBreaks(p)
      PROVE  QueuedAnswerKept'
  BY <1>1, <1>4 DEF Lose, PressAnswered, DrainBreaks
<1>5. CASE StartDrain \/ ReloadPage
  BY <1>1, <1>5 DEF StartDrain, ReloadPage
<1>6. ASSUME NEW p \in posts, Serve(p) PROVE QueuedAnswerKept'
  <2>1. /\ queued' = queued /\ queue' = queue /\ archived' = archived
        /\ \A k \in Numbers, t \in Templates : Answered(k, t) => Answered(k, t)'
    BY <1>6, ServeIs
  <2> QED
    BY <1>0, <2>1 DEF QueuedAnswerKept
<1>7. ASSUME NEW p \in posts, PressFails(p) PROVE QueuedAnswerKept'
  <2>1. /\ UNCHANGED <<submissions, archived>> /\ p.by = "press"
        /\ \/ UNCHANGED <<queue, queued>>
           \/ queue' = Put(p.entry) /\ queued' = queued \cup {p.entry}
    BY <1>7 DEF PressFails
  <2>2. CASE UNCHANGED <<queue, queued>>
    BY <1>1, <2>1, <2>2
  <2>3. CASE queue' = Put(p.entry) /\ queued' = queued \cup {p.entry}
    <3>1. queue' = queue \cup {p.entry}
      BY <2>1, <2>3 DEF Put, Numbered, Ordered
    <3> QED
      BY <2>1, <2>3, <3>1 DEF QueuedAnswerKept, Answered
  <2> QED
    BY <2>1, <2>2, <2>3
<1>8. ASSUME NEW p \in posts, DrainAnswered(p) PROVE QueuedAnswerKept'
  <2>1. /\ queue' = {e \in queue : e.id # p.entry.id}
        /\ UNCHANGED <<submissions, archived, queued>>
        /\ p.by = "drain" /\ p.stage \in {"taken", "conflict"}
    BY <1>8 DEF DrainAnswered
  <2>2. queue' = queue \ {p.entry}
    BY <2>1 DEF Numbered, Ordered
  <2>3. \/ p.entry.value = Unanswered \/ Answered(p.entry.key, p.entry.template)
        \/ p.entry.template \in archived
    BY <2>1 DEF AnswersTrue
  <2> QED
    BY <2>1, <2>2, <2>3 DEF QueuedAnswerKept, Answered
<1> QED
  BY <1>2, <1>3, <1>4, <1>5, <1>6, <1>7, <1>8, CoreSteps

LEMMA LastStandsStep ==
  ASSUME QueueTypeOK, Numbered, Ordered, AnswersTrue, LastStands,
         [QueueNext]_queueVars
  PROVE  LastStands'
<1>0. /\ posts \subseteq Posts /\ queued \subseteq Entries
      /\ \A e \in queued : e.id \in Nat /\ e.key \in Numbers
  BY EntryFields DEF QueueTypeOK, Posts
<1>1. ASSUME UNCHANGED <<queue, queued, submissions, direct>>, archived \subseteq archived'
      PROVE  LastStands'
  BY <1>1 DEF LastStands, LastTold, Told, Holds, Overtaken
<1>2. CASE UNCHANGED core
  BY <1>1, <1>2 DEF core
<1>3. ASSUME NEW t \in Templates, Press(t) \/ Archive(t) PROVE LastStands'
  BY <1>1, <1>3 DEF Press, Archive
<1>4. ASSUME NEW p \in posts, Lose(p) \/ PressAnswered(p) \/ DrainBreaks(p)
      PROVE  LastStands'
  BY <1>1, <1>4 DEF Lose, PressAnswered, DrainBreaks
<1>5. CASE StartDrain \/ ReloadPage
  BY <1>1, <1>5 DEF StartDrain, ReloadPage
<1>6. ASSUME NEW p \in posts, Serve(p), NEW e \in queued', LastTold(e)'
      PROVE  e \in queue' \/ Holds(e)' \/ e.template \in archived' \/ Overtaken(e.key)'
  <2>1. queued' = queued /\ queue' = queue /\ archived' = archived
    BY <1>6, ServeIs
  <2>2. LastTold(e) /\ e \in queued
    BY <1>6, <2>1 DEF LastTold, Told
  <2>3. e \in queue \/ Holds(e) \/ e.template \in archived \/ Overtaken(e.key)
    BY <2>2 DEF LastStands
  <2>4. CASE UNCHANGED <<submissions, direct>>
    BY <2>1, <2>3, <2>4 DEF Holds, Overtaken
  <2>5. CASE /\ direct' = IF p.by = "press" THEN direct \cup {p.entry} ELSE direct
             /\ \A k \in Numbers : \A r \in submissions[k] :
                  \/ r \in submissions'[k]
                  \/ /\ p.entry.key = k /\ p.entry.value # Unanswered
                     /\ p.entry.template = r.template
    <3>1. Overtaken(e.key) => Overtaken(e.key)'
      BY <2>1, <2>5 DEF Overtaken
    <3>2. CASE Holds(e) /\ ~Holds(e)' /\ e \notin queue
      <4>1. p.entry.key = e.key /\ p.entry.value # Unanswered
        BY <1>0, <2>2, <2>5, <3>2 DEF Holds
      <4>2. CASE p.by = "press"
        <5>1. p.entry \in direct' /\ \A x \in queued' : x.id # p.entry.id
          BY <2>1, <2>5, <4>2 DEF Numbered
        <5> QED
          BY <4>1, <5>1 DEF Overtaken
      <4>3. CASE p.by = "drain"
        <5>1. p.entry \in queue /\ p.entry \in queued
          BY <4>3 DEF Ordered
        <5>2. p.entry.id <= e.id
          BY <2>2, <4>1, <5>1 DEF LastTold, Told
        <5>3. e.id < p.entry.id
          BY <2>2, <3>2, <5>1 DEF Ordered
        <5> QED
          BY <1>0, <2>2, <5>1, <5>2, <5>3
      <4> QED
        BY <1>0, <4>2, <4>3 DEF Posts
    <3> QED
      BY <2>1, <2>3, <3>1, <3>2
  <2> QED
    BY <1>6, <2>4, <2>5, ServeIs
<1>7. ASSUME NEW p \in posts, PressFails(p), NEW e \in queued', LastTold(e)'
      PROVE  e \in queue' \/ Holds(e)' \/ e.template \in archived' \/ Overtaken(e.key)'
  <2>1. /\ UNCHANGED <<submissions, archived, direct>> /\ p.by = "press"
        /\ \/ UNCHANGED <<queue, queued>>
           \/ queue' = Put(p.entry) /\ queued' = queued \cup {p.entry}
    BY <1>7 DEF PressFails
  <2>2. CASE e \notin queued
    BY <1>7, <2>2, QueuedIs
  <2>3. CASE e \in queued
    <3>1. LastTold(e)
      BY <1>7, <2>1, <2>3 DEF LastTold, Told
    <3>2. e \in queue \/ Holds(e) \/ e.template \in archived \/ Overtaken(e.key)
      BY <2>3, <3>1 DEF LastStands
    <3>3. queue \subseteq queue'
      BY <2>1 DEF Put, Numbered, Ordered
    <3>4. CASE Overtaken(e.key) /\ ~Overtaken(e.key)'
      <4>1. PICK x \in queued' : x \notin queued /\ x.key = e.key /\ x.value # Unanswered
        BY <1>7, <3>4, OvertakenStays
      <4>2. e.id < x.id
        BY <1>7, <2>3, <4>1, QueuedIs
      <4>3. x.id <= e.id
        BY <1>7, <4>1 DEF LastTold, Told
      <4>4. x = p.entry /\ x \in Entries
        BY <1>0, <1>7, <4>1, QueuedIs DEF Posts
      <4>5. x.id \in Nat
        BY <4>4, EntryFields
      <4> QED
        BY <1>0, <2>3, <4>2, <4>3, <4>5
    <3> QED
      BY <2>1, <3>2, <3>3, <3>4 DEF Holds
  <2> QED
    BY <2>2, <2>3
<1>8. ASSUME NEW p \in posts, DrainAnswered(p), NEW e \in queued', LastTold(e)'
      PROVE  e \in queue' \/ Holds(e)' \/ e.template \in archived' \/ Overtaken(e.key)'
  <2>1. /\ queue' = {x \in queue : x.id # p.entry.id}
        /\ UNCHANGED <<submissions, archived, queued, direct>>
        /\ p.by = "drain" /\ p.stage \in {"taken", "conflict"}
    BY <1>8 DEF DrainAnswered
  <2>2. queue' = queue \ {p.entry}
    BY <2>1 DEF Numbered, Ordered
  <2>3. LastTold(e) /\ e \in queued
    BY <1>8, <2>1 DEF LastTold, Told
  <2>4. e \in queue \/ Holds(e) \/ e.template \in archived \/ Overtaken(e.key)
    BY <2>3 DEF LastStands
  <2>5. CASE e = p.entry
    <3>1. e.value # Unanswered
      BY <2>3 DEF LastTold, Told
    <3>2. Holds(e) \/ e.template \in archived \/ Overtaken(e.key)
      BY <2>1, <2>3, <2>5, <3>1 DEF AnswersTrue
    <3> QED
      BY <2>1, <3>2 DEF Holds, Overtaken
  <2>6. CASE e # p.entry
    BY <2>1, <2>2, <2>4, <2>6 DEF Holds, Overtaken
  <2> QED
    BY <2>5, <2>6
<1> QED
  BY <1>2, <1>3, <1>4, <1>5, <1>6, <1>7, <1>8, CoreSteps DEF LastStands

-----------------------------------------------------------------------------
(* The theorems.                                                           *)

LEMMA QueueInvInit == QueueInit => QueueInv
<1> SUFFICES ASSUME QueueInit PROVE QueueInv
  OBVIOUS
<1>1. QueueTypeOK
  <2>1. typed \in [Templates -> Responses] /\ drafts \in [Templates -> Responses]
    BY DEF QueueInit, Responses
  <2>2. /\ \A k \in Numbers : submissions[k] = {}
        /\ submissions \in [Numbers -> SUBSET [template : Templates, value : Picks]]
    BY DEF QueueInit
  <2>3. presses \in 0..MaxPresses /\ breaks \in 0..MaxBreaks
    BY QueueAssumption DEF QueueInit
  <2> QED
    BY <2>1, <2>2, <2>3 DEF QueueInit, QueueTypeOK
<1>2. queue = {} /\ todo = {} /\ posts = {} /\ queued = {} /\ direct = {}
  BY DEF QueueInit
<1> QED
  BY <1>1, <1>2 DEF QueueInv, Numbered, Ordered, AnswersTrue, QueuedAnswerKept, LastStands

LEMMA QueueInvStep == QueueInv /\ [QueueNext]_queueVars => QueueInv'
BY QueueTypeStep, NumberedStep, OrderedStep, AnswersTrueStep, KeptStep, LastStandsStep
   DEF QueueInv

LEMMA QueueInvAlways == QueueSpec => []QueueInv
BY QueueInvInit, QueueInvStep, PTL DEF QueueSpec

(* Every variable has its type in every state: above all, a press and a    *)
(* drain have one request under way at most, and a submission has one      *)
(* answer to a question.                                                   *)
THEOREM QueueTypeCorrect == QueueSpec => []QueueTypeOK
BY QueueInvAlways, PTL DEF QueueInv

(* The answer of a press that was queued waits in the queue until its      *)
(* submission has an answer to the question, or the template is archived.  *)
THEOREM QueuedKept == QueueSpec => []QueuedAnswerKept
BY QueueInvAlways, PTL DEF QueueInv

LEMMA LastToldExists ==
  ASSUME QueueInv, NEW k, Told(k) # {}
  PROVE  \E e \in Told(k) : \A x \in Told(k) : x.id <= e.id
<1> DEFINE ids == {e.id : e \in Told(k)}
<1>1. \A e \in Told(k) : e \in Entries /\ e \in queued
  BY DEF Told, QueueInv, QueueTypeOK
<1>2. presses \in Nat /\ \A e \in Told(k) : e.id \in Nat /\ e.id <= presses
  BY <1>1, EntryFields DEF QueueInv, QueueTypeOK, Numbered
<1>3. ids \in SUBSET (0..presses) /\ ids # {}
  <2>1. ids \subseteq 0..presses
    BY <1>2
  <2> QED
    BY <2>1
<1>4. PICK m \in ids : \A n \in ids : n <= m
  <2> HIDE DEF ids
  <2> QED
    BY <1>2, <1>3, GreatestExists
<1>5. PICK e \in Told(k) : m = e.id
  OBVIOUS
<1> QED
  BY <1>4, <1>5

(* Once nothing of a key is queued, and no press got through by itself,    *)
(* the submission of the key has the answer of the last press that had     *)
(* one, unless a template was archived.                                    *)
THEOREM LaterPressWins == QueueSpec => []LaterQueuedPressWins
<1>1. QueueInv => LaterQueuedPressWins
  <2> SUFFICES ASSUME QueueInv, NEW k \in Numbers, Told(k) # {},
                      \A e \in queue : e.key # k,
                      \A e \in direct : e.key = k => \E x \in queued : x.id = e.id,
                      \A e \in Told(k) : e.template \notin archived
               PROVE  LET last == CHOOSE e \in Told(k) : \A x \in Told(k) : x.id <= e.id
                      IN  [template |-> last.template, value |-> last.value] \in submissions[k]
    BY DEF LaterQueuedPressWins
  <2> DEFINE last == CHOOSE e \in Told(k) : \A x \in Told(k) : x.id <= e.id
  <2>1. last \in Told(k) /\ \A x \in Told(k) : x.id <= last.id
    BY LastToldExists
  <2> HIDE DEF last
  <2>2. last \in queued /\ last.key = k /\ last \notin queue /\ last.template \notin archived
    BY <2>1 DEF Told
  <2>3. LastTold(last)
    BY <2>1, <2>2 DEF LastTold
  <2>4. ~Overtaken(k)
    BY DEF Overtaken
  <2>5. Holds(last)
    BY <2>2, <2>3, <2>4 DEF QueueInv, LastStands
  <2>6. [template |-> last.template, value |-> last.value] \in submissions[k]
    BY <2>2, <2>5 DEF Holds
  <2> QED
    BY <2>6 DEF last
<1> QED
  BY <1>1, QueueInvAlways, PTL
=============================================================================
