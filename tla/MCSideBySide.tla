---------------------------- MODULE MCSideBySide ----------------------------
(***************************************************************************)
(* Components that share no state, side by side in one run: a behaviour is *)
(* one of the merge of a replicated document, of the list of overwritten   *)
(* answers, of the fill view's scopes, of the queue of submitted           *)
(* checklists, of the scanner's pull replicas, of the purchase orders on   *)
(* the server, or of a card charge on its way into the books.  In the code *)
(* today the page mounts the list over a store that no replication fills,  *)
(* nothing writes into the collections the scopes replicate, the queue has *)
(* a database of its own, the pull replicas run on another page, and the   *)
(* orders and the charges have tables of their own.                        *)
(***************************************************************************)
EXTENDS ReplicaMerge, ConflictNotice, ScopeRegistry, SubmitQueue, PullReplica,
        PurchaseOrder, ReceiptIntake

CONSTANTS f, g, by, d1, d2, q1, q2, u1, u2, c1, x1, x2, t1, ca, cb, ga, gb, va, vb, r1, r2

NoticeRows == {<<d1, q1>>, <<d1, q2>>, <<d2, q1>>}
NoticeKinds ==
  [r \in NoticeRows |-> IF r = <<d1, q1>> THEN {"answer", "removed"}
                        ELSE IF r = <<d1, q2>> THEN {"answer"} ELSE {"unidentified"}]

FieldSets == {{x1}, {x1, x2}}

(* A checklist both crew members read, an answer only u2 may read, and a   *)
(* draft of u1 to a question only the larger field set has.                *)
ServerRows ==
  {[coll |-> "checklists", checklist |-> c1, field |-> x1, readers |-> {u1, u2}],
   [coll |-> "responses", checklist |-> c1, field |-> x1, readers |-> {u2}],
   [coll |-> "responses", checklist |-> Draft, field |-> x2, readers |-> {u1}]}

(* Two codes that can share a transaction, one expiring before the other.  *)
CodesExpire == [r \in CodeRows |-> r]
ClocksAhead == {0, 1}

Sold == [x \in Goods |-> IF x = ga THEN va ELSE vb]

VARIABLE part   \* which of the seven this behaviour is of

mcVars == <<part, mergeVars, noticeVars, scopeVars, queueVars, pullVars,
            orderVars, intakeVars>>

MCInit ==
  /\ part \in {"merge", "notice", "scope", "queue", "pull", "order", "intake"}
  /\ IF part = "merge" THEN MergeInit
     ELSE /\ MergeInit /\ fork = master /\ \A k \in Questions : master[k] = CHOOSE a \in Answers : TRUE
  /\ NoticeInit
  /\ ScopeInit /\ (part # "scope" => crew = u1)
  /\ QueueInit /\ (part # "queue" => online)
  /\ PullInit /\ (part # "pull" => skew = 0)
  /\ OrderInit
  /\ IntakeInit /\ (part # "intake" => attached)

OfMerge(A) == /\ part = "merge" /\ A
              /\ UNCHANGED <<part, noticeVars, scopeVars, queueVars,
                             pullVars, orderVars, intakeVars>>
OfNotice(A) == /\ part = "notice" /\ A
               /\ UNCHANGED <<part, mergeVars, scopeVars, queueVars,
                              pullVars, orderVars, intakeVars>>
OfScope(A) == /\ part = "scope" /\ A
              /\ UNCHANGED <<part, mergeVars, noticeVars, queueVars,
                             pullVars, orderVars, intakeVars>>
OfQueue(A) == /\ part = "queue" /\ A
              /\ UNCHANGED <<part, mergeVars, noticeVars, scopeVars,
                             pullVars, orderVars, intakeVars>>
OfPull(A) == /\ part = "pull" /\ A
             /\ UNCHANGED <<part, mergeVars, noticeVars, scopeVars,
                            queueVars, orderVars, intakeVars>>
OfOrder(A) == /\ part = "order" /\ A
              /\ UNCHANGED <<part, mergeVars, noticeVars, scopeVars,
                             queueVars, pullVars, intakeVars>>
OfIntake(A) == /\ part = "intake" /\ A
               /\ UNCHANGED <<part, mergeVars, noticeVars, scopeVars,
                              queueVars, pullVars, orderVars>>

MCNext == \/ OfMerge(MergeNext) \/ OfNotice(NoticeNext) \/ OfScope(ScopeNext)
          \/ OfQueue(QueueNext) \/ OfPull(PullNext) \/ OfOrder(OrderNext)
          \/ OfIntake(IntakeNext)

(* The fairness of each part's own specification; the actions joined are   *)
(* of different parts, or never enabled together.                          *)
MCSpec ==
  /\ MCInit /\ [][MCNext]_mcVars
  /\ WF_mcVars(OfMerge(Replicate) \/ OfScope(CatchUpStep) \/ OfPull(Arm \/ Settles))
  /\ \A rep \in Replicas : WF_mcVars(OfPull(PullBatch(rep)))

-----------------------------------------------------------------------------
(* Every variable of every part has its type.                              *)
TypesOK ==
  /\ MergeTypeOK /\ NoticeTypeOK /\ ScopeTypeOK
  /\ QueueTypeOK /\ PullTypeOK /\ OrderTypeOK /\ IntakeTypeOK
=============================================================================
