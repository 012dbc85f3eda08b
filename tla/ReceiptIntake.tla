---------------------------- MODULE ReceiptIntake ----------------------------
(***************************************************************************)
(* How one card charge gets into the books: the passes of the receipt      *)
(* worker over it (processSingleTx), the rows it leaves for review in      *)
(* pending_purchases, the purchase event that ends the matter, and the     *)
(* operator, who edits, confirms, discards and asks for another parse.     *)
(*                                                                         *)
(* Two passes can be under way: the worker's own, and one run the operator *)
(* started, for which receipt_sync_runs has a single slot.  A pass reads   *)
(* what is there (classifyExistingTx), downloads and parses for seconds,   *)
(* and only then writes, over whatever the operator did meanwhile.  What a *)
(* parse finds is a choice; of a row's data its reason, its items and      *)
(* whether the operator asked for another parse are kept.  Statements that *)
(* follow one another without waiting for another service are one step,    *)
(* but the confirmation's read and its write.                              *)
(***************************************************************************)
EXTENDS Naturals, FiniteSets

CONSTANTS
  RowId,    \* bound: the pending_purchases rows there can be, in all
  NoRow,    \* an id not used yet
  Deleted,  \* an id whose row was deleted
  Nobody    \* no row is being confirmed

Pass == {"worker", "run"}

Row == [confirmed : BOOLEAN, discarded : BOOLEAN,
        reason : {"unattached", "transient", "unread"},
        items : {"none", "parsed", "edited"},
        retry : BOOLEAN]    \* retry_requested_at

ASSUME IntakeAssumption ==
  /\ IsFiniteSet(RowId) /\ Nobody \notin RowId
  /\ NoRow # Deleted /\ NoRow \notin Row /\ Deleted \notin Row

VARIABLES
  attached,    \* Mercury holds a receipt of the charge
  rows,        \* pending_purchases, by id
  booked,      \* purchase_events has the charge
  pass,        \* what each pass is about
  confirming,  \* the row a confirmation has read
  overtaken    \* history: who had read the charge before the operator's word

intakeVars == <<attached, rows, booked, pass, confirming, overtaken>>

Idle == [at |-> "idle"]
Passes ==
  {Idle, [at |-> "asked"]}
    \cup [at : {"parsing"}, upgrade : BOOLEAN, wanted : BOOLEAN, receipt : BOOLEAN]

IntakeInit ==
  /\ attached \in BOOLEAN /\ booked = FALSE
  /\ rows = [r \in RowId |-> NoRow]
  /\ pass = [p \in Pass |-> Idle]
  /\ confirming = Nobody /\ overtaken = {}

Stored == {r \in RowId : rows[r] \in Row}
Open == {r \in Stored : ~rows[r].confirmed /\ ~rows[r].discarded}
Unused == {r \in RowId : rows[r] = NoRow}
Confirmed == {r \in Stored : rows[r].confirmed}

-----------------------------------------------------------------------------
(* What a pass does about the charge.                                      *)

(* A bug: a discarded charge may be ingested again, as until 2026-09-03.   *)
KindWithoutDiscards == IF booked \/ Confirmed # {} THEN "event"
                       ELSE IF Open # {} THEN "pending" ELSE "none"

Kind == IF booked \/ Confirmed # {} THEN "event"
        ELSE IF Open # {} THEN "pending"
        ELSE IF Stored # {} THEN "discarded" ELSE "none"

(* A bug: a transient failure is parsed again whatever is in the row.      *)
ReparsedWithItems(x) == x.retry \/ x.reason = "transient"

Reparsed(x) == x.retry \/ (x.reason = "transient" /\ x.items = "none")

Upgrades(x) == attached /\ (x.reason = "unattached" \/ Reparsed(x))

(* Asked for, or the first receipt of the charge.                          *)
Wanted(x, forced) == forced \/ x.retry \/ x.reason = "unattached"

Without(gone) == [r \in RowId |-> IF r \in gone THEN Deleted ELSE rows[r]]

Parse(p, upgrade, wanted) ==
  /\ pass' = [pass EXCEPT ![p] = [at |-> "parsing", upgrade |-> upgrade,
                                  wanted |-> wanted, receipt |-> attached]]
  /\ overtaken' = overtaken \ {p}
  /\ UNCHANGED rows

Cached(p, left) ==
  /\ rows' = left
  /\ pass' = [pass EXCEPT ![p] = Idle]
  /\ overtaken' = overtaken \ {p}

(* classifyExistingTx and the switch on what it found: an idle pass is a   *)
(* poll's or a sync's, an asked one a reprocess of a row.                  *)
Classify(p) ==
  /\ pass[p].at \in {"idle", "asked"}
  /\ LET forced == pass[p].at = "asked" IN
     \/ /\ Kind = "event" /\ Cached(p, IF forced THEN Without(Open) ELSE rows)
     \/ /\ Kind = "discarded" /\ Cached(p, rows)
     \/ /\ Kind = "none" /\ Parse(p, FALSE, FALSE)
     \/ /\ Kind = "pending"
        /\ \E r \in Open :
             IF forced \/ Upgrades(rows[r])
             THEN Parse(p, TRUE, Wanted(rows[r], forced))
             ELSE Cached(p, rows)
  /\ UNCHANGED <<attached, booked, confirming>>

(* Reprocess and Re-download of an open row, or of all of them.            *)
Reprocess ==
  /\ pass["run"] = Idle /\ Open # {} /\ attached
  /\ pass' = [pass EXCEPT !["run"] = [at |-> "asked"]]
  /\ UNCHANGED <<attached, rows, booked, confirming, overtaken>>

-----------------------------------------------------------------------------
(* How a pass ends.                                                        *)
NewRow(reason, items) ==
  [confirmed |-> FALSE, discarded |-> FALSE, reason |-> reason,
   items |-> items, retry |-> FALSE]

(* insertPendingPurchase: ON CONFLICT DO NOTHING beside an open row.       *)
Inserted(x) ==
  IF Open # {} THEN rows' = rows
  ELSE /\ Unused # {}
       /\ rows' = [rows EXCEPT ![CHOOSE r \in Unused : TRUE] = x]

(* updatePendingPurchase: every row of the charge, whatever its state.     *)
Updated(x) ==
  rows' = [r \in RowId |->
    IF r \in Stored THEN [rows[r] EXCEPT !.reason = x.reason, !.items = x.items,
                                         !.retry = FALSE]
    ELSE rows[r]]

(* routePending *)
Routed(p, x) == IF pass[p].upgrade THEN Updated(x) ELSE Inserted(x)

(* What a parse that books nothing puts into the review queue: a failure   *)
(* of the parser's service, transient, with the items of a first attempt   *)
(* or none; or a receipt that was read badly, does not add up or could not *)
(* be saved, whose items decide nothing later.                             *)
Reviews == {NewRow("transient", "none"), NewRow("transient", "parsed"),
            NewRow("unread", "parsed")}

(* createPurchaseEvent: one transaction, undone by the unique bank_tx_id   *)
(* of an event that is there already.                                      *)
Created(p) ==
  /\ booked' = TRUE
  /\ rows' = IF booked THEN Without(Open)
             ELSE IF pass[p].upgrade THEN Without(Stored) ELSE rows

Ends(p) ==
  /\ pass[p].at = "parsing"
  /\ \/ ~pass[p].receipt /\ Inserted(NewRow("unattached", "none")) /\ UNCHANGED booked
     \/ pass[p].receipt /\ (\E x \in Reviews : Routed(p, x)) /\ UNCHANGED booked
     \/ pass[p].receipt /\ Created(p)
     \/ UNCHANGED <<rows, booked>>    \* nothing downloaded, or stopped
  /\ pass' = [pass EXCEPT ![p] = Idle]
  /\ overtaken' = overtaken \ {p}
  /\ UNCHANGED <<attached, confirming>>

(* A receipt is attached to the charge at Mercury.                         *)
Attach ==
  /\ ~attached /\ attached' = TRUE
  /\ UNCHANGED <<rows, booked, pass, confirming, overtaken>>

-----------------------------------------------------------------------------
(* The operator.                                                           *)
StillReading == {p \in Pass : pass[p].at = "parsing"}
             \cup (IF confirming = Nobody THEN {} ELSE {"operator"})

UpdateItems(r) ==
  /\ r \in Open
  /\ rows' = [rows EXCEPT ![r].items = "edited"]
  /\ overtaken' = StillReading
  /\ UNCHANGED <<attached, booked, pass, confirming>>

Discard(r) ==
  /\ r \in Open
  /\ rows' = [rows EXCEPT ![r].discarded = TRUE]
  /\ overtaken' = StillReading
  /\ UNCHANGED <<attached, booked, pass, confirming>>

(* The row is read as open; the UPDATE asks no status, but what it writes  *)
(* to a row closed in between is never read.                               *)
RetryParse(r) ==
  /\ r \in Open
  /\ rows' = [rows EXCEPT ![r].retry = TRUE]
  /\ UNCHANGED <<attached, booked, pass, confirming, overtaken>>

(* The confirmation's transaction reads the row as open without a lock,    *)
(* inserts the event and marks the row by its id.                          *)
ConfirmReads(r) ==
  /\ confirming = Nobody /\ r \in Open
  /\ confirming' = r
  /\ overtaken' = overtaken \ {"operator"}
  /\ UNCHANGED <<attached, rows, booked, pass>>

ConfirmWrites ==
  /\ confirming # Nobody
  /\ \/ booked /\ UNCHANGED <<rows, booked, overtaken>>
     \/ /\ ~booked
        /\ booked' = TRUE
        /\ rows' = [r \in RowId |-> IF r = confirming /\ r \in Stored
                                    THEN [rows[r] EXCEPT !.confirmed = TRUE] ELSE rows[r]]
        /\ overtaken' = StillReading \ {"operator"}
  /\ confirming' = Nobody
  /\ UNCHANGED <<attached, pass>>

IntakeNext ==
  \/ \E p \in Pass : Classify(p) \/ Ends(p)
  \/ Reprocess \/ Attach \/ ConfirmWrites
  \/ \E r \in RowId : UpdateItems(r) \/ Discard(r) \/ RetryParse(r) \/ ConfirmReads(r)

IntakeSpec == IntakeInit /\ [][IntakeNext]_intakeVars

-----------------------------------------------------------------------------
IntakeTypeOK ==
  /\ attached \in BOOLEAN /\ booked \in BOOLEAN
  /\ rows \in [RowId -> Row \cup {NoRow, Deleted}]
  /\ pass \in [Pass -> Passes]
  /\ confirming \in RowId \cup {Nobody}
  /\ overtaken \subseteq Pass \cup {"operator"}
  /\ Cardinality(Open) <= 1

(* A step of somebody who had read the charge before the operator's word.  *)
ByOvertaken ==
  \/ \E p \in Pass \cap overtaken : pass'[p] # pass[p]
  \/ "operator" \in overtaken /\ confirming' # confirming

ThrownAway == ~booked /\ Stored # {} /\ \A r \in Stored : rows[r].discarded

(* A charge the operator has thrown away stays out of the books and out of *)
(* the review queue: no sync, reprocess or poll brings it back, except one *)
(* that had read the charge before the discard (processSingleTx).          *)
DiscardStands == [][ThrownAway /\ ~ThrownAway' => ByOvertaken]_intakeVars

(* What the operator typed into a row under review is replaced by a parse  *)
(* only where one was asked for, where the charge got its first receipt,   *)
(* or where the parse had begun before the edit; and a confirmed row is    *)
(* never deleted, whichever passes race with the confirmation.             *)
OperatorsWorkKept ==
  [][/\ \A r \in Open : rows[r].items = "edited" /\ ~booked
          /\ (rows'[r] = Deleted \/ (rows'[r] \in Row /\ rows'[r].items # "edited"))
          => \/ ByOvertaken
             \/ \E p \in Pass : pass'[p] # pass[p] /\ pass[p].at = "parsing" /\ pass[p].wanted
     /\ \A r \in Confirmed : rows'[r] # Deleted]_intakeVars
=============================================================================
