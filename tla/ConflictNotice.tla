--------------------------- MODULE ConflictNotice ---------------------------
(***************************************************************************)
(* The list of overwritten answers a crew member reviews                   *)
(* (sync-rxdb/conflict-notice.js and conflict-notice-ui.js): one row per   *)
(* document and question, restored, kept, undone or dismissed one by one,  *)
(* or restored for a whole document at once after a confirmation.          *)
(*                                                                         *)
(* The store is the memory store the page mounts: it changes, is read back *)
(* and painted before the page does anything else, so a tap is one action  *)
(* and only the write of a restore (applyRestore) is waited for.           *)
(***************************************************************************)
EXTENDS Integers, FiniteSets, FiniteSetsExt

CONSTANTS
  NoticeDoc, NoticeField,  \* documents and questions
  Rows,                    \* which question of which document can be overwritten
  Blank,                   \* no record, no document
  KindsOf,                 \* bound: the kinds a conflict can give each row
  MAX_GROUPS,              \* documents the sheet shows
  COLLAPSE_MAX_ROWS_PER_GROUP,
  MaxClashes               \* bound: conflicts reported

Kinds == {"answer", "removed", "unidentified"}

ASSUME NoticeAssumption ==
  /\ MAX_GROUPS \in Nat \ {0} /\ COLLAPSE_MAX_ROWS_PER_GROUP \in Nat
  /\ MaxClashes \in Nat /\ KindsOf \in [Rows -> SUBSET Kinds]
  /\ Rows \subseteq NoticeDoc \X NoticeField /\ IsFiniteSet(Rows)
  /\ Blank \notin NoticeDoc

Statuses == {"open", "restoring", "failed", "restored", "kept"}

VARIABLES
  notice,       \* the record of a row: [n, kind, status], or Blank
  writing,      \* restores whose write is waited for: [row, n, by]
  batch,        \* what a committed batch of a document still has to do: [row, n]
  confirmFor,   \* the document whose batch is being confirmed, or Blank
  clashes       \* history: how many conflicts there were

noticeVars == <<notice, writing, batch, confirmFor, clashes>>

-----------------------------------------------------------------------------
(* The sheet, rebuilt from the records after every change.                 *)

Listed(recs) == {r \in Rows : recs[r] # Blank}
Groups(recs) == {r[1] : r \in Listed(recs)}
RowsOf(recs, d) == {r \in Listed(recs) : r[1] = d}
Newest(recs, d) == Max({recs[r].n : r \in RowsOf(recs, d)})

(* The newest groups are shown, the others are only counted.               *)
Shown(recs) ==
  {d \in Groups(recs) :
     Cardinality({e \in Groups(recs) : Newest(recs, e) > Newest(recs, d)}) < MAX_GROUPS}

Visible(recs, r) == recs[r] # Blank /\ r[1] \in Shown(recs)

Collapsed(recs) ==
  \/ Cardinality(Groups(recs)) > 1
  \/ \E d \in Groups(recs) : Cardinality(RowsOf(recs, d)) > COLLAPSE_MAX_ROWS_PER_GROUP

IsHandled(rec) == rec.status \in {"restored", "kept"}
IsBatchTarget(rec) == rec.kind = "answer" /\ ~IsHandled(rec)

(* With the number of its conflict, which orders them.                     *)
BatchIds(recs, d) ==
  {[row |-> r, n |-> recs[r].n] : r \in {q \in RowsOf(recs, d) : IsBatchTarget(recs[q])}}

-----------------------------------------------------------------------------
NoticeInit ==
  /\ notice = [r \in Rows |-> Blank] /\ writing = {}
  /\ batch = [d \in NoticeDoc |-> {}] /\ confirmFor = Blank
  /\ clashes = 0

Mark(r, status) ==
  IF notice[r] = Blank THEN notice ELSE [notice EXCEPT ![r].status = status]

(* A conflict overwrites an answer; the row of an earlier one is replaced. *)
Clash(r, kind) ==
  /\ clashes < MaxClashes
  /\ clashes' = clashes + 1
  /\ notice' = [notice EXCEPT ![r] = [n |-> clashes', kind |-> kind, status |-> "open"]]
  /\ UNCHANGED <<writing, batch, confirmFor>>

(* The record is past its retention, or swept.                             *)
Expire(r) ==
  /\ notice[r] # Blank
  /\ notice' = [notice EXCEPT ![r] = Blank]
  /\ UNCHANGED <<writing, batch, confirmFor, clashes>>

(* What a tap on a row's pair of buttons finds.                            *)
HasPair(r) ==
  /\ Visible(notice, r) /\ notice[r].kind = "answer" /\ notice[r].status \in {"open", "failed"}

Write(recs, r, by) == [row |-> r, n |-> recs[r].n, by |-> by]

Restore(r) ==
  /\ HasPair(r)
  /\ writing' = writing \cup {Write(notice, r, "tap")}
  /\ notice' = Mark(r, "restoring")
  /\ UNCHANGED <<batch, confirmFor, clashes>>

Keep(r) ==
  /\ HasPair(r)
  /\ notice' = Mark(r, "kept")
  /\ UNCHANGED <<writing, batch, confirmFor, clashes>>

Undo(r) ==
  /\ Visible(notice, r) /\ IsHandled(notice[r])
  /\ notice' = Mark(r, "open")
  /\ UNCHANGED <<writing, batch, confirmFor, clashes>>

Dismiss(r) ==
  /\ Visible(notice, r) /\ notice[r].kind # "answer" /\ ~IsHandled(notice[r])
  /\ notice' = [notice EXCEPT ![r] = Blank]
  /\ UNCHANGED <<writing, batch, confirmFor, clashes>>

(* The batch asks first.                                                   *)
Ask(d) ==
  /\ confirmFor = Blank
  /\ d \in Shown(notice) /\ Collapsed(notice) /\ BatchIds(notice, d) # {}
  /\ confirmFor' = d
  /\ UNCHANGED <<notice, writing, batch, clashes>>

Cancel ==
  /\ confirmFor # Blank
  /\ confirmFor' = Blank
  /\ UNCHANGED <<notice, writing, batch, clashes>>

(* The loop of a batch over the rows named when it was committed, in the   *)
(* order they were overwritten in: the first that is on the sheet at its   *)
(* turn is restored, whatever became of it since; rows that are not are    *)
(* passed over.                                                            *)
Proceed(d, recs, rest, others) ==
  LET here == {x \in rest : Visible(recs, x.row)}
  IN  IF here = {}
      THEN notice' = recs /\ writing' = others /\ batch' = [batch EXCEPT ![d] = {}]
      ELSE \E x \in here :
             /\ \A y \in here : x.n <= y.n
             /\ notice' = [recs EXCEPT ![x.row].status = "restoring"]
             /\ writing' = others \cup {Write(recs, x.row, "batch")}
             /\ batch' = [batch EXCEPT ![d] = {y \in rest : y.n > x.n}]

Looping(d) == \E w \in writing : w.by = "batch" /\ w.row[1] = d

(* One batch of a document at a time; the bound is the model's.            *)
Commit ==
  /\ confirmFor # Blank /\ ~Looping(confirmFor)
  /\ confirmFor' = Blank
  /\ IF confirmFor \in Shown(notice)
     THEN Proceed(confirmFor, notice, BatchIds(notice, confirmFor), writing)
     ELSE UNCHANGED <<notice, writing, batch>>
  /\ UNCHANGED clashes

(* A bug: a failed write leaves the row as it is.                          *)
OutcomeOnlyOfSuccess(w, done) == IF done THEN Mark(w.row, "restored") ELSE notice

(* What the row says once its write is answered, or refused.               *)
Outcome(w, done) == Mark(w.row, IF done THEN "restored" ELSE "failed")

RestoreEnds(w, done) ==
  /\ w \in writing
  /\ IF w.by = "batch"
     THEN Proceed(w.row[1], Outcome(w, done), batch[w.row[1]], writing \ {w})
     ELSE notice' = Outcome(w, done) /\ writing' = writing \ {w} /\ UNCHANGED batch
  /\ UNCHANGED <<confirmFor, clashes>>

PageDies ==
  /\ notice' = [r \in Rows |-> Blank] /\ writing' = {}
  /\ batch' = [d \in NoticeDoc |-> {}] /\ confirmFor' = Blank
  /\ UNCHANGED clashes

NoticeNext ==
  \/ \E r \in Rows : \E k \in KindsOf[r] : Clash(r, k)
  \/ \E r \in Rows : Expire(r) \/ Restore(r) \/ Keep(r) \/ Undo(r) \/ Dismiss(r)
  \/ \E d \in NoticeDoc : Ask(d)
  \/ Cancel
  \/ Commit
  \/ \E w \in writing, done \in BOOLEAN : RestoreEnds(w, done)
  \/ PageDies

NoticeSpec == NoticeInit /\ [][NoticeNext]_noticeVars

-----------------------------------------------------------------------------
(* The type of every variable.                                             *)
NoticeTypeOK ==
  /\ notice \in [Rows -> [n : 1..MaxClashes, kind : Kinds, status : Statuses] \cup {Blank}]
  /\ writing \subseteq [row : Rows, n : 1..MaxClashes, by : {"tap", "batch"}]
  /\ batch \in [NoticeDoc -> SUBSET [row : Rows, n : 1..MaxClashes]]
  /\ \A d \in NoticeDoc : \A x \in batch[d] : x.row[1] = d
  /\ confirmFor \in NoticeDoc \cup {Blank}
  /\ clashes \in 0..MaxClashes

(* No row is without an exit: a row whose buttons are disabled because it  *)
(* is being restored has a write that will end, however taps, batches and  *)
(* new conflicts of the same question overlap (rowActions, counting rule 8)*)
RestoringHasWriter ==
  \A r \in Rows : notice[r] # Blank /\ notice[r].status = "restoring" =>
    \E w \in writing : w.row = r
=============================================================================
