---------------------------- MODULE ReplicaMerge ----------------------------
(***************************************************************************)
(* One document of the RxDB replica of one phone, and what becomes of the  *)
(* crew member's edits when the office edits the same document meanwhile:  *)
(* the three-way merge of sync-rxdb/conflict-handler.js, run by the push   *)
(* of the replication, and the record each discarded answer is kept in.    *)
(*                                                                         *)
(* A document is a function from Fields to values; a key the object does   *)
(* not have is Absent.  The protocol's own fields (_rev, _meta,            *)
(* _attachments, _modified) are not among Fields: the merge takes them     *)
(* from the master and reports nothing about them.                         *)
(***************************************************************************)
EXTENDS Integers, FiniteSets

CONSTANTS
  Fields,       \* the mergeable fields of the document
  Provenance,   \* the who-and-when among them
  Answers,      \* the values an answer can have
  Me, Office,   \* the two authors a provenance field can name
  Absent,       \* the value of a key the object does not have
  NoDoc,        \* no document: nothing forked yet, no assumed master
  None,         \* nothing: no push on its way, no record, no unsent edit
  MaxEdits,     \* bound: edits made on this phone
  MaxOffice,    \* bound: edits the office makes
  MaxLost       \* bound: answers of the server that never arrive

ASSUME MergeAssumption ==
  /\ Provenance \subseteq Fields
  /\ Me # Office /\ Me \notin Answers /\ Office \notin Answers
  /\ Absent \notin Answers \cup {Me, Office}
  /\ None \notin Answers \cup {Absent, Me, Office}
  /\ NoDoc \notin [Fields -> Answers \cup {Me, Office, Absent}]
  /\ \A d, w \in Answers \cup {Me, Office, Absent} :
       None # [discarded |-> d, winner |-> w]
  /\ MaxEdits \in Nat /\ MaxOffice \in Nat /\ MaxLost \in Nat

Values == Answers \cup {Me, Office, Absent}
Docs == [Fields -> Values]
Questions == Fields \ Provenance

VARIABLES
  master,    \* the document the server holds
  fork,      \* the document in the phone's IndexedDB
  assumed,   \* what the replica believes the server holds, or NoDoc
  push,      \* the push on its way, or None
  record,    \* the record kept of the answer discarded in each field, or None
  unsent,    \* history: the last answer typed into a field and never seen on
             \* the server, or None
  edits, officeEdits, lost   \* history: what the bounds count

mergeVars == <<master, fork, assumed, push, record, unsent, edits, officeEdits, lost>>

-----------------------------------------------------------------------------
(* The merge: resolveConflict, a pure function of three documents.         *)

ForkChanged(a, f, k) == f[k] # a[k]
MasterChanged(a, m, k) == m[k] # a[k]

Uncontested(a, f, m, k) ==
  a # NoDoc /\ ForkChanged(a, f, k) /\ ~MasterChanged(a, m, k)

(* A bug: only a field both sides hold a value for can clash.              *)
ClashesWhenBothAnswered(a, f, m) ==
  {k \in Questions : /\ f[k] # m[k] /\ m[k] # Absent
                     /\ a # NoDoc => ForkChanged(a, f, k) /\ MasterChanged(a, m, k)}

Clashes(a, f, m) ==
  {k \in Questions : /\ f[k] # m[k]
                     /\ a # NoDoc => ForkChanged(a, f, k) /\ MasterChanged(a, m, k)}

(* A bug: the engine's own handler, master wins whole.                     *)
MasterWins(a, f, m) == m

Merged(a, f, m) ==
  [k \in Fields |-> IF Uncontested(a, f, m, k) THEN f[k] ELSE m[k]]

(* A bug: the record keeps the documents, not the two answers.             *)
RecordOfDocuments(f, m, k) == [discarded |-> f, winner |-> m]

(* The record of one clash; one per field, the newest replaces the older.  *)
RecordOf(f, m, k) == [discarded |-> f[k], winner |-> m[k]]

(* A bug: one record for the document, so a second clash replaces it.      *)
RecordedPerDocument(a, f, m) ==
  [k \in Questions |->
     IF k \in Clashes(a, f, m) THEN RecordOf(f, m, k)
     ELSE IF Clashes(a, f, m) # {} THEN None ELSE record[k]]

Recorded(a, f, m) ==
  [k \in Questions |->
     IF k \in Clashes(a, f, m) THEN RecordOf(f, m, k) ELSE record[k]]

(* A bug: who gave an answer, and when, is no difference.                  *)
IsEqualInAnswers(a, b) ==
  a = b \/ (NoDoc \notin {a, b} /\ \A k \in Questions : a[k] = b[k])

(* Whether there is anything to push, to pull or to merge.                 *)
IsEqual(a, b) == a = b

-----------------------------------------------------------------------------
MergeInit ==
  /\ \E base \in [Questions -> Answers] :
       master = [k \in Fields |-> IF k \in Questions THEN base[k] ELSE Office]
  /\ fork \in {master, NoDoc}
  /\ assumed = fork
  /\ push = None
  /\ record = [k \in Questions |-> None]
  /\ unsent = [k \in Questions |-> None]
  /\ edits = 0 /\ officeEdits = 0 /\ lost = 0

Signed(doc, who) == [k \in Fields |-> IF k \in Provenance THEN who ELSE doc[k]]

(* v is what the replica believes the server holds, or is just learning    *)
(* that it does: to the merge such an answer is no change of the phone's.  *)
Unchanged(k, v) ==
  \/ assumed # NoDoc /\ assumed[k] = v
  \/ push # None /\ push.stage = "taken" /\ push.new[k] = v

(* A crew member answers k; a first answer creates the document.           *)
Edit(k, v) ==
  /\ edits < MaxEdits
  /\ LET old == IF fork = NoDoc THEN [x \in Fields |-> Absent] ELSE fork
     IN  /\ v # old[k]
         /\ fork' = Signed([old EXCEPT ![k] = v], Me)
  /\ unsent' = [unsent EXCEPT ![k] =
                  IF Unchanged(k, v) THEN None ELSE v]
  /\ edits' = edits + 1
  /\ UNCHANGED <<master, assumed, push, record, officeEdits, lost>>

OfficeEdit(k, v) ==
  /\ officeEdits < MaxOffice
  /\ v # master[k]
  /\ master' = Signed([master EXCEPT ![k] = v], Office)
  /\ officeEdits' = officeEdits + 1
  /\ UNCHANGED <<fork, assumed, push, record, unsent, edits, lost>>

(* The replica pushes a document that differs from what it believes the    *)
(* server holds; the two go with the request.                              *)
StartPush ==
  /\ push = None /\ ~IsEqual(fork, assumed)
  /\ push' = [stage |-> "asked", new |-> fork, assumed |-> assumed, real |-> NoDoc]
  /\ UNCHANGED <<master, fork, assumed, record, unsent, edits, officeEdits, lost>>

(* An edit the server is seen to hold is no longer at risk.                *)
Settled(doc) == [k \in Questions |-> IF unsent[k] = doc[k] THEN None ELSE unsent[k]]

(* The server compares the whole row with the assumed one and swaps, or    *)
(* hands its own row back; an insert finds the row there already.          *)
ServePush ==
  /\ push # None /\ push.stage = "asked"
  /\ IF IsEqual(push.assumed, master)
     THEN /\ master' = push.new
          /\ push' = [push EXCEPT !.stage = "taken"]
          /\ unsent' = Settled(push.new)
     ELSE /\ push' = [push EXCEPT !.stage = "refused", !.real = master]
          /\ UNCHANGED <<master, unsent>>
  /\ UNCHANGED <<fork, assumed, record, edits, officeEdits, lost>>

LoseAnswer ==
  /\ push # None /\ lost < MaxLost
  /\ push' = None
  /\ lost' = lost + 1
  /\ UNCHANGED <<master, fork, assumed, record, unsent, edits, officeEdits>>

PushTaken ==
  /\ push # None /\ push.stage = "taken"
  /\ assumed' = push.new
  /\ push' = None
  /\ UNCHANGED <<master, fork, record, unsent, edits, officeEdits, lost>>

(* The conflict handler runs on what was pushed.  Its document is written  *)
(* back only if the fork is still the pushed one; the clashes it reports   *)
(* are recorded either way.  A server row equal to the pushed one is no    *)
(* conflict.                                                               *)
PushRefused ==
  /\ push # None /\ push.stage = "refused"
  /\ record' = Recorded(push.assumed, push.new, push.real)
  /\ IF fork = push.new
     THEN /\ fork' = Merged(push.assumed, push.new, push.real)
          /\ assumed' = push.real
          /\ unsent' = Settled(push.real)
     ELSE UNCHANGED <<fork, assumed, unsent>>
  /\ push' = None
  /\ UNCHANGED <<master, edits, officeEdits, lost>>

(* The downstream leg writes the server's row only where the phone has     *)
(* nothing of its own to push.                                             *)
Pull ==
  /\ push = None /\ IsEqual(fork, assumed) /\ ~IsEqual(master, assumed)
  /\ fork' = master /\ assumed' = master
  /\ UNCHANGED <<master, push, record, unsent, edits, officeEdits, lost>>

MergeNext ==
  \/ \E k \in Questions, v \in Answers : Edit(k, v)
  \/ \E k \in Questions, v \in Answers \cup {Absent} : OfficeEdit(k, v)
  \/ StartPush
  \/ ServePush
  \/ LoseAnswer
  \/ PushTaken
  \/ PushRefused
  \/ Pull

(* The replication retries for as long as the page is open.                *)
Replicate == StartPush \/ ServePush \/ PushTaken \/ PushRefused \/ Pull

MergeSpec == MergeInit /\ [][MergeNext]_mergeVars /\ WF_mergeVars(Replicate)

-----------------------------------------------------------------------------
Pushes ==
  [stage : {"asked", "taken"}, new : Docs, assumed : Docs \cup {NoDoc}, real : {NoDoc}]
    \cup [stage : {"refused"}, new : Docs, assumed : Docs \cup {NoDoc}, real : Docs]

(* The type of every variable.                                             *)
MergeTypeOK ==
  /\ master \in Docs
  /\ fork \in Docs \cup {NoDoc} /\ assumed \in Docs \cup {NoDoc}
  /\ push \in Pushes \cup {None}
  /\ record \in [Questions -> [discarded : Values, winner : Values] \cup {None}]
  /\ unsent \in [Questions -> Answers \cup {None}]
  /\ edits \in 0..MaxEdits /\ officeEdits \in 0..MaxOffice /\ lost \in 0..MaxLost

(* An answer that never reached the server is still in the phone's         *)
(* document, or the record of its field holds it: no merge, no lost answer *)
(* of the server and no edit during a push discards it silently            *)
(* (resolveConflict and recordFromClash).  An answer typed back to what    *)
(* the replica believes the server holds is exempt: the merge cannot tell  *)
(* it from no answer, see README.                                          *)
EditAccounted ==
  \A k \in Questions :
    unsent[k] # None =>
      \/ fork # NoDoc /\ fork[k] = unsent[k]
      \/ record[k] # None /\ record[k].discarded = unsent[k]

(* An answer of the phone that the office did not touch since the phone    *)
(* last saw the document is never taken off the phone by a merge: an edit  *)
(* in another field costs nothing (conflict-handler.js, decision 50).      *)
UncontestedSurvives ==
  [][\A k \in Questions :
       (PushRefused /\ push.assumed # NoDoc /\ push.real[k] = push.assumed[k])
         => fork'[k] = fork[k]
    ]_mergeVars

(* The phone and the server come to agree whenever both stop editing: a    *)
(* merged document does not conflict for ever.                             *)
MergeConverges == <>[](fork = master)

=============================================================================
