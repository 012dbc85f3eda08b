-------------------------- MODULE SideBySideProofs --------------------------
(***************************************************************************)
(* The parts side by side: a step of one leaves the others alone, so what  *)
(* each keeps by itself all of them keep together.                         *)
(***************************************************************************)
EXTENDS MCSideBySide, PurchasingProofs, PullProofs, ChecklistProofs

\* Every step is a step of each part, or leaves it alone.
LEMMA StepOfEach ==
  ASSUME [MCNext]_mcVars
  PROVE  /\ [MergeNext]_mergeVars /\ [NoticeNext]_noticeVars /\ [ScopeNext]_scopeVars
         /\ [QueueNext]_queueVars /\ [PullNext]_pullVars /\ [OrderNext]_orderVars
         /\ [IntakeNext]_intakeVars
<1>1. CASE OfMerge(MergeNext)
  BY <1>1 DEF OfMerge
<1>2. CASE OfNotice(NoticeNext)
  BY <1>2 DEF OfNotice
<1>3. CASE OfScope(ScopeNext)
  BY <1>3 DEF OfScope
<1>4. CASE OfQueue(QueueNext)
  BY <1>4 DEF OfQueue
<1>5. CASE OfPull(PullNext)
  BY <1>5 DEF OfPull
<1>6. CASE OfOrder(OrderNext)
  BY <1>6 DEF OfOrder
<1>7. CASE OfIntake(IntakeNext)
  BY <1>7 DEF OfIntake
<1>8. CASE UNCHANGED mcVars
  BY <1>8 DEF mcVars
<1> QED
  BY <1>1, <1>2, <1>3, <1>4, <1>5, <1>6, <1>7, <1>8 DEF MCNext

\* The inductive invariants of the parts.
EachInv ==
  /\ MergeInv /\ NoticeInv /\ PageInv /\ PulledInv /\ CountsTyped
  /\ QueueInv /\ PullInv /\ OrderInv /\ IntakeInv

LEMMA InitEach == MCInit => EachInv
<1> SUFFICES ASSUME MCInit PROVE EachInv
  OBVIOUS
<1>1. /\ MergeInit /\ NoticeInit /\ ScopeInit /\ QueueInit
      /\ PullInit /\ OrderInit /\ IntakeInit
  BY DEF MCInit
<1>2. MergeInv /\ NoticeInv /\ PageInv /\ PulledInv
  BY <1>1, InitMergeInv, InitNotice, InitPage, InitPulled
<1>3. CountsTyped
  BY <1>1, InitCounts
<1>4. QueueInv /\ PullInv /\ OrderInv /\ IntakeInv
  BY <1>1, QueueInvInit, InitPull, InitOrderInv, InitIntake
<1> QED
  BY <1>2, <1>3, <1>4 DEF EachInv

LEMMA NextEach == EachInv /\ [MCNext]_mcVars => EachInv'
<1> SUFFICES ASSUME EachInv, [MCNext]_mcVars PROVE EachInv'
  OBVIOUS
<1>1. MergeInv'
  BY StepOfEach, NextMergeInv DEF EachInv
<1>2. NoticeInv'
  BY StepOfEach, NextNotice DEF EachInv
<1>3. PageInv' /\ PulledInv' /\ CountsTyped'
  BY StepOfEach, NextPage, NextPulled, NextCounts DEF EachInv
<1>4. QueueInv'
  BY StepOfEach, QueueInvStep DEF EachInv
<1>5. PullInv'
  BY StepOfEach, NextPull DEF EachInv
<1>6. OrderInv'
  BY StepOfEach, NextOrderInv DEF EachInv
<1>7. IntakeInv'
  BY StepOfEach, NextIntake DEF EachInv
<1> QED
  BY <1>1, <1>2, <1>3, <1>4, <1>5, <1>6, <1>7 DEF EachInv

\* Every variable of every part has its type, whichever part moves.
THEOREM TypesCorrect == MCSpec => []TypesOK
<1>1. EachInv => TypesOK
  <2> SUFFICES ASSUME EachInv PROVE TypesOK
    OBVIOUS
  <2>1. MergeTypeOK /\ NoticeTypeOK /\ QueueTypeOK /\ PullTypeOK /\ OrderTypeOK
    BY DEF EachInv, MergeInv, NoticeInv, QueueInv, PullInv, OrderInv
  <2>2. ScopeTypeOK
    BY ScopeTyped DEF EachInv
  <2>3. IntakeTypeOK
    BY IntakeTypedOK DEF EachInv
  <2> QED
    BY <2>1, <2>2, <2>3 DEF TypesOK
<1> QED
  BY <1>1, InitEach, NextEach, PTL DEF MCSpec
=============================================================================
