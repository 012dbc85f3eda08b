-------------------------- MODULE PurchasingProofs --------------------------
(***************************************************************************)
(* Proofs about the purchase orders, for any items, vendors, number of     *)
(* weeks and number of requests at once, and about a card charge on its    *)
(* way into the books, for any number of review rows.                      *)
(***************************************************************************)
EXTENDS PurchaseOrder, ReceiptIntake, NumberLemmas, FiniteSetTheorems

-----------------------------------------------------------------------------
(* The purchase orders.                                                    *)

\* A set of weeks has a latest one.
LEMMA LatestExists ==
  ASSUME NEW S \in SUBSET Weeks, S # {}
  PROVE  Latest(S) \in S /\ \A v \in S : v <= Latest(S)
<1>1. LastWeek \in Nat /\ S \in SUBSET (0..LastWeek)
  BY OrderAssumption DEF Weeks
<1>2. PICK w \in S : \A v \in S : v <= w
  BY <1>1, GreatestExists
<1> QED
  BY <1>2 DEF Latest

-----------------------------------------------------------------------------
(* The inductive invariant.                                                *)

\* An order that is past its draft has a draft of a later week.
DraftAhead ==
  \A w \in Weeks : status[w] \notin {"none", "draft"} =>
    \E v \in Weeks : v > w /\ status[v] = "draft"

\* An order is approved by one request at a time, which holds it locked.
OneApproval ==
  /\ \A a, b \in approving : a.week = b.week => a = b
  /\ \A a \in approving : a.step = "updated" => status[a.week] = "locked"

\* An approval knows the lists that were made since it counted.
ListsSeen == \A a \in approving : ActiveLists \subseteq a.beside

\* A section is completed by one request at a time, which knows whether it is the
\* last unless another was completed meanwhile.
Countings ==
  /\ \A c, d \in completing : c.week = d.week /\ c.vendor = d.vendor => c = d
  /\ \A c \in completing :
       /\ list[c.week] # Nothing /\ c.vendor \in list[c.week].pending
       /\ c.last => list[c.week].pending = {c.vendor}
       /\ ~c.last => c.beside \/ list[c.week].pending # {c.vendor}

\* A list is active until its sections are done, and its order goes with it.
ListOfOrder ==
  \A w \in Weeks : list[w] # Nothing =>
    /\ status[w] \in {"shopping_active", "completed"}
    /\ list[w].active <=> status[w] = "shopping_active"
    /\ ~list[w].active => list[w].pending = {}

\* Inductive: every request under way knows enough of the rows it will write.
OrderInv ==
  /\ OrderTypeOK
  /\ DraftAhead
  /\ OneApproval
  /\ ListsSeen
  /\ Countings
  /\ ListOfOrder
  /\ ActiveTogetherOverlapped
  /\ DoneListIsClosed

LEMMA InitOrderInv == OrderInit => OrderInv
<1> SUFFICES ASSUME OrderInit PROVE OrderInv
  OBVIOUS
<1>1. OrderTypeOK
  BY OrderAssumption DEF OrderInit, OrderTypeOK, OrderStatuses, Weeks
<1> QED
  BY <1>1 DEF OrderInit, OrderInv, DraftAhead, OneApproval, ListsSeen, Countings,
              ListOfOrder, ActiveTogetherOverlapped, DoneListIsClosed, ActiveLists

\* A step that leaves orders and lists alone, and starts no approval and no
\* completion, keeps all but the types.
LEMMA RowsAlone ==
  ASSUME OrderInv, OrderTypeOK',
         UNCHANGED <<status, list, approving, completing>>
  PROVE  OrderInv'
BY DEF OrderInv, DraftAhead, OneApproval, ListsSeen, Countings, ListOfOrder,
       ActiveTogetherOverlapped, DoneListIsClosed, ActiveLists

\* What a request without a draft leaves behind has its type.
LEMMA FindTyped ==
  ASSUME OrderTypeOK, NEW t \in BOOLEAN, FindNoDraft(t)
  PROVE  opening' \subseteq [week : 1..(LastWeek - 1), thenLock : BOOLEAN]
<1> DEFINE new == [week |-> week, thenLock |-> t]
<1>1. new \in [week : 1..(LastWeek - 1), thenLock : BOOLEAN]
  BY DEF OrderTypeOK
<1>2. opening' = opening \cup {new}
  BY DEF FindNoDraft
<1> HIDE DEF new
<1> QED
  BY <1>1, <1>2 DEF OrderTypeOK

\* Locking a draft leaves a draft ahead of it, and of every order before it.
LEMMA LockKeepsInv ==
  ASSUME OrderInv, OrderTypeOK', NEW w \in Weeks, w < LastWeek,
         status[w] = "draft", status' = Locked(w),
         UNCHANGED <<list, approving, completing>>
  PROVE  OrderInv'
<1> USE OrderAssumption DEF Weeks
<1>1. /\ w + 1 \in Weeks /\ status \in [Weeks -> OrderStatuses]
      /\ status'[w] = "locked"
      /\ status'[w + 1] = IF status[w + 1] = "none" THEN "draft" ELSE status[w + 1]
      /\ \A v \in Weeks : v # w /\ v # w + 1 => status'[v] = status[v]
  BY DEF OrderInv, OrderTypeOK, Locked
<1>2. DraftAhead'
  <2> SUFFICES ASSUME NEW u \in Weeks, status'[u] \notin {"none", "draft"}
               PROVE  \E v \in Weeks : v > u /\ status'[v] = "draft"
    BY DEF DraftAhead
  <2>1. CASE status'[w + 1] = "draft" /\ u < w + 1
    BY <1>1, <2>1
  <2>2. CASE status'[w + 1] # "draft"
    <3>1. PICK v \in Weeks : v > w + 1 /\ status[v] = "draft"
      BY <1>1, <2>2 DEF OrderInv, DraftAhead
    <3>2. status'[v] = "draft"
      BY <1>1, <3>1
    <3>3. CASE u <= w + 1
      BY <3>1, <3>2, <3>3
    <3>4. CASE u > w + 1
      BY <3>4, <1>1 DEF OrderInv, DraftAhead
    <3> QED
      BY <3>3, <3>4
  <2>3. CASE u >= w + 1
    BY <2>2, <2>3, <1>1 DEF OrderInv, DraftAhead
  <2> QED
    BY <2>1, <2>2, <2>3
<1>3. ListsSeen' /\ Countings' /\ ActiveTogetherOverlapped'
  BY DEF OrderInv, ListsSeen, Countings, ActiveTogetherOverlapped, ActiveLists
<1>4. OneApproval'
  <2>1. \A a \in approving : a.step = "updated" =>
          (a.week # w /\ a.week # w + 1) \/ status'[a.week] = status[a.week]
    BY <1>1 DEF OrderInv, OneApproval
  <2>2. \A a \in approving : a.week \in Weeks
    BY DEF OrderInv, OrderTypeOK
  <2> QED
    BY <1>1, <2>1, <2>2 DEF OrderInv, OneApproval
<1>5. ListOfOrder' /\ DoneListIsClosed'
  BY <1>1 DEF OrderInv, ListOfOrder, DoneListIsClosed
<1> QED
  BY <1>2, <1>3, <1>4, <1>5 DEF OrderInv

\* Every step keeps the invariant, one action at a time.
LEMMA NextOrderInv ==
  ASSUME OrderInv, [OrderNext]_orderVars
  PROVE  OrderInv'
<1>0. OrderTypeOK
  BY DEF OrderInv
<1>1. CASE NextWeek
  <2>1. OrderTypeOK'
    BY <1>0, <1>1, OrderAssumption DEF NextWeek, OrderTypeOK
  <2> QED
    BY <1>1, <2>1, RowsAlone DEF NextWeek
<1>2. CASE OpenPage
  <2>1. OrderTypeOK'
    <3>1. opening' \subseteq [week : 1..(LastWeek - 1), thenLock : BOOLEAN]
      BY <1>0, <1>2, FindTyped DEF OpenPage
    <3> QED
      BY <1>0, <1>2, <3>1 DEF OpenPage, OrderTypeOK
  <2> QED
    BY <1>2, <2>1, RowsAlone DEF OpenPage
<1>3. CASE CutoffCheck
  <2>1. OrderTypeOK'
    BY <1>0, <1>3 DEF CutoffCheck, OrderTypeOK
  <2> QED
    BY <1>3, <2>1, RowsAlone DEF CutoffCheck
<1>4. CASE CutoffPicks
  <2>1. Drafts # {} => Latest(Drafts) \in Weeks
    BY LatestExists DEF Drafts
  <2>2. OrderTypeOK'
    <3>1. opening' \subseteq [week : 1..(LastWeek - 1), thenLock : BOOLEAN]
      BY <1>0, <1>4, FindTyped DEF CutoffPicks, OrderTypeOK
    <3>2. \/ Drafts # {} /\ cutting' = (cutting \ {Nothing}) \cup {Latest(Drafts)}
          \/ cutting' = cutting \ {Nothing}
      BY <1>4 DEF CutoffPicks
    <3>3. cutting' \subseteq Weeks \cup {Nothing}
      BY <1>0, <2>1, <3>2 DEF OrderTypeOK
    <3> QED
      BY <1>0, <1>4, <3>1, <3>3 DEF CutoffPicks, OrderTypeOK
  <2> QED
    BY <1>4, <2>2, RowsAlone DEF CutoffPicks
<1>5. ASSUME NEW o \in opening, GetOrCreateOrder(o)
      PROVE  OrderInv'
  <2> DEFINE free == {w \in {o.week, o.week + 1} : status[w] = "none"}
             mine == IF o.week \in free THEN o.week ELSE o.week + 1
             got == IF free # {} THEN {mine} ELSE IF Drafts # {} THEN {Latest(Drafts)} ELSE {}
  <2>1. o.week \in Weeks /\ o.week + 1 \in Weeks /\ mine \in Weeks
    BY <1>0, <1>5, OrderAssumption DEF OrderTypeOK, Weeks
  <2>2. got \subseteq Weeks
    BY <2>1, LatestExists DEF Drafts
  <2>3. OrderTypeOK'
    <3> HIDE DEF got, mine
    <3>1. status' \in [Weeks -> OrderStatuses]
      BY <1>0, <1>5, <2>1 DEF GetOrCreateOrder, OrderTypeOK, OrderStatuses, mine
    <3>2. cutting' \subseteq Weeks \cup {Nothing}
      BY <1>0, <1>5, <2>2 DEF GetOrCreateOrder, OrderTypeOK, got, mine
    <3> QED
      BY <1>0, <1>5, <3>1, <3>2 DEF GetOrCreateOrder, OrderTypeOK
  <2>4. /\ UNCHANGED <<list, approving, completing>>
        /\ \A w \in Weeks : \/ status'[w] = status[w]
                            \/ status[w] = "none" /\ status'[w] = "draft"
    BY <1>0, <1>5, <2>1 DEF GetOrCreateOrder, OrderTypeOK
  <2>5. DraftAhead'
    BY <2>4 DEF OrderInv, DraftAhead
  <2>6. ListsSeen' /\ Countings' /\ ActiveTogetherOverlapped'
    BY <2>4 DEF OrderInv, ListsSeen, Countings, ActiveTogetherOverlapped, ActiveLists
  <2>7. OneApproval'
    <3>1. \A a \in approving : a.week \in Weeks
      BY <1>0 DEF OrderTypeOK
    <3> QED
      BY <3>1, <2>4 DEF OrderInv, OneApproval
  <2>8. ListOfOrder' /\ DoneListIsClosed'
    BY <2>4 DEF OrderInv, ListOfOrder, DoneListIsClosed
  <2> QED
    BY <2>3, <2>5, <2>6, <2>7, <2>8 DEF OrderInv
<1>6. ASSUME NEW w \in Weeks, LockPO(w)
      PROVE  OrderInv'
  <2>1. OrderTypeOK'
    BY <1>0, <1>6, OrderAssumption DEF LockPO, Locked, OrderTypeOK, OrderStatuses, Weeks
  <2> QED
    BY <1>6, <2>1, LockKeepsInv DEF LockPO
<1>7. ASSUME NEW w \in Weeks, CutoffLocks(w)
      PROVE  OrderInv'
  <2>1. OrderTypeOK'
    BY <1>0, <1>7, OrderAssumption DEF CutoffLocks, Locked, OrderTypeOK, OrderStatuses, Weeks
  <2> QED
    BY <1>7, <2>1, LockKeepsInv, RowsAlone DEF CutoffLocks
<1>8. ASSUME NEW w \in Weeks, UnlockPO(w)
      PROVE  OrderInv'
  <2>1. OrderTypeOK'
    BY <1>0, <1>8, OrderAssumption DEF UnlockPO, OrderTypeOK, OrderStatuses
  <2>2. /\ UNCHANGED <<list, approving, completing>>
        /\ status[w] = "locked" /\ status'[w] = "draft"
        /\ \A v \in Weeks : v # w => status'[v] = status[v]
    BY <1>0, <1>8 DEF UnlockPO, OrderTypeOK
  <2>3. DraftAhead'
    BY <2>2 DEF OrderInv, DraftAhead
  <2>4. ListsSeen' /\ Countings' /\ ActiveTogetherOverlapped'
    BY <2>2 DEF OrderInv, ListsSeen, Countings, ActiveTogetherOverlapped, ActiveLists
  <2>5. OneApproval'
    <3>1. \A a \in approving : a.week \in Weeks /\ (a.step = "updated" => a.week # w)
      BY <1>0, <1>8 DEF OrderTypeOK, UnlockPO, Held
    <3> QED
      BY <3>1, <2>2 DEF OrderInv, OneApproval
  <2>6. ListOfOrder' /\ DoneListIsClosed'
    BY <2>2 DEF OrderInv, ListOfOrder, DoneListIsClosed
  <2> QED
    BY <2>1, <2>3, <2>4, <2>5, <2>6 DEF OrderInv
<1>9. ASSUME NEW w \in Weeks, NEW keep \in SUBSET Goods, StartSave(w, keep)
      PROVE  OrderInv'
  <2>1. OrderTypeOK'
    BY <1>0, <1>9, OrderAssumption DEF StartSave, OrderTypeOK
  <2> QED
    BY <1>9, <2>1, RowsAlone DEF StartSave
<1>10. ASSUME NEW s \in saving, SaveDeletes(s)
       PROVE  OrderInv'
  <2>1. OrderTypeOK'
    BY <1>0, <1>10 DEF SaveDeletes, OrderTypeOK
  <2> QED
    BY <1>10, <2>1, RowsAlone DEF SaveDeletes
<1>11. ASSUME NEW s \in saving, SaveCommits(s)
       PROVE  OrderInv'
  <2>1. OrderTypeOK'
    BY <1>0, <1>11 DEF SaveCommits, OrderTypeOK
  <2> QED
    BY <1>11, <2>1, RowsAlone DEF SaveCommits
<1>12. ASSUME NEW w \in Weeks, StartApproval(w)
       PROVE  OrderInv'
  <2> DEFINE new == [week |-> w, step |-> "counted", vendors |-> {}, beside |-> {}]
  <2>1. OrderTypeOK'
    BY <1>0, <1>12 DEF StartApproval, OrderTypeOK
  <2>2. /\ approving' = approving \cup {new} /\ ActiveLists = {}
        /\ \A a \in approving : a.week # w
        /\ UNCHANGED <<status, list, completing>>
    BY <1>12 DEF StartApproval, MayApprove
  <2>3. OneApproval' /\ ListsSeen'
    <3>1. new.week = w /\ new.step = "counted" /\ ActiveLists' = {}
      BY <2>2 DEF ActiveLists
    <3>2. \A a \in approving' : a \in approving \/ a = new
      BY <2>2
    <3>3. \A a, b \in approving' : a.week = b.week => a = b
      BY <2>2, <3>1, <3>2 DEF OrderInv, OneApproval
    <3> HIDE DEF new
    <3> QED
      BY <2>2, <3>1, <3>2, <3>3 DEF OrderInv, OneApproval, ListsSeen
  <2>4. /\ DraftAhead' /\ Countings' /\ ListOfOrder' /\ DoneListIsClosed'
        /\ ActiveTogetherOverlapped'
    BY <2>2 DEF OrderInv, DraftAhead, Countings, ListOfOrder, DoneListIsClosed,
                ActiveTogetherOverlapped, ActiveLists
  <2> QED
    BY <2>1, <2>3, <2>4 DEF OrderInv
<1>13. ASSUME NEW a \in approving, ApprovalUpdates(a)
       PROVE  OrderInv'
  <2> DEFINE upd == [a EXCEPT !.step = "updated",
                              !.vendors = {VendorOf[g] : g \in lines[a.week]}]
  <2>1. /\ a.week \in Weeks /\ upd.week = a.week /\ upd.step = "updated"
        /\ upd.beside = a.beside
        /\ upd \in [week : Weeks, step : {"counted", "updated"},
                    vendors : SUBSET Vendors, beside : SUBSET Weeks]
    <3> DEFINE vs == {VendorOf[g] : g \in lines[a.week]}
    <3>1. a \in [week : Weeks, step : {"counted", "updated"},
                 vendors : SUBSET Vendors, beside : SUBSET Weeks]
      BY <1>0 DEF OrderTypeOK
    <3>2. vs \subseteq Vendors
      <4>1. lines[a.week] \subseteq Goods
        BY <1>0, <3>1 DEF OrderTypeOK
      <4> QED
        BY <4>1, OrderAssumption
    <3>3. upd = [a EXCEPT !.step = "updated", !.vendors = vs]
      OBVIOUS
    <3> HIDE DEF vs, upd
    <3> QED
      BY <3>1, <3>2, <3>3
  <2>2. /\ \/ /\ status[a.week] = "locked"
              /\ approving' = (approving \ {a}) \cup {upd}
           \/ approving' = approving \ {a}
        /\ UNCHANGED <<status, list, completing>>
    BY <1>13 DEF ApprovalUpdates
  <2>3. OrderTypeOK'
    <3>1. approving' \subseteq [week : Weeks, step : {"counted", "updated"},
                                vendors : SUBSET Vendors, beside : SUBSET Weeks]
      <4> HIDE DEF upd
      <4> QED
        BY <1>0, <2>1, <2>2 DEF OrderTypeOK
    <3> QED
      BY <1>0, <1>13, <3>1 DEF ApprovalUpdates, OrderTypeOK
  <2>4. OneApproval' /\ ListsSeen'
    <3> HIDE DEF upd
    <3> QED
      BY <2>1, <2>2 DEF OrderInv, OneApproval, ListsSeen, ActiveLists
  <2>5. /\ DraftAhead' /\ Countings' /\ ListOfOrder' /\ DoneListIsClosed'
        /\ ActiveTogetherOverlapped'
    BY <2>2 DEF OrderInv, DraftAhead, Countings, ListOfOrder, DoneListIsClosed,
                ActiveTogetherOverlapped, ActiveLists
  <2> QED
    BY <2>3, <2>4, <2>5 DEF OrderInv
<1>14. ASSUME NEW a \in approving, ApprovalCommits(a)
       PROVE  OrderInv'
  <2> DEFINE u == a.week
  <2>1. /\ u \in Weeks /\ status[u] = "locked" /\ list[u] = Nothing
        /\ \A b \in approving : b # a => b.week # u
        /\ \A c \in completing : c.week \in Weeks /\ c.week # u
    BY <1>0, <1>14 DEF ApprovalCommits, OrderInv, OneApproval, ListOfOrder,
                       Countings, OrderTypeOK
  <2>2. NewList(a) \in Lists
    BY <1>0, <1>14 DEF OrderTypeOK, NewList, Lists
  <2>3. /\ status'[u] = "shopping_active" /\ list'[u] = NewList(a)
        /\ \A w \in Weeks : w # u => status'[w] = status[w] /\ list'[w] = list[w]
        /\ completing' = completing
    BY <1>0, <1>14, <2>1 DEF ApprovalCommits, OrderTypeOK
  <2>4. approving' = {[b EXCEPT !.beside = @ \cup {u}] : b \in approving \ {a}}
    BY <1>14 DEF ApprovalCommits
  <2>5. ActiveLists' \subseteq ActiveLists \cup {u}
    BY <2>1, <2>3 DEF ActiveLists
  <2>6. OrderTypeOK'
    <3>1. status' \in [Weeks -> OrderStatuses] /\ list' \in [Weeks -> {Nothing} \cup Lists]
      BY <1>0, <1>14, <2>1, <2>2 DEF ApprovalCommits, OrderTypeOK, OrderStatuses
    <3>2. approving' \subseteq [week : Weeks, step : {"counted", "updated"},
                                vendors : SUBSET Vendors, beside : SUBSET Weeks]
      BY <1>0, <2>1, <2>4 DEF OrderTypeOK
    <3> QED
      BY <1>0, <1>14, <3>1, <3>2 DEF ApprovalCommits, OrderTypeOK
  <2>7. DraftAhead'
    BY <2>1, <2>3 DEF OrderInv, DraftAhead
  <2>8. OneApproval' /\ ListsSeen'
    <3>1. \A b \in approving' : \E d \in approving \ {a} :
             /\ b = [d EXCEPT !.beside = @ \cup {u}]
             /\ b.week = d.week /\ b.step = d.step /\ b.beside = d.beside \cup {u}
      BY <1>0, <2>4 DEF OrderTypeOK
    <3>2. \A d \in approving \ {a} : d.week \in Weeks
      BY <1>0 DEF OrderTypeOK
    <3>3. ASSUME NEW b \in approving', NEW c \in approving', b.week = c.week
          PROVE  b = c
      <4>1. PICK d \in approving \ {a} :
              b = [d EXCEPT !.beside = @ \cup {u}] /\ b.week = d.week
        BY <3>1
      <4>2. PICK e \in approving \ {a} :
              c = [e EXCEPT !.beside = @ \cup {u}] /\ c.week = e.week
        BY <3>1
      <4>3. d = e
        BY <3>3, <4>1, <4>2 DEF OrderInv, OneApproval
      <4> QED
        BY <4>1, <4>2, <4>3
    <3>4. ASSUME NEW b \in approving', b.step = "updated"
          PROVE  status'[b.week] = "locked"
      BY <3>1, <3>2, <3>4, <2>1, <2>3 DEF OrderInv, OneApproval
    <3>5. ListsSeen'
      BY <3>1, <2>5 DEF OrderInv, ListsSeen
    <3> QED
      BY <3>3, <3>4, <3>5 DEF OneApproval
  <2>9. Countings'
    BY <2>1, <2>3 DEF OrderInv, Countings
  <2>10. ListOfOrder' /\ DoneListIsClosed'
    BY <2>1, <2>3 DEF OrderInv, ListOfOrder, DoneListIsClosed, NewList
  <2>11. ActiveTogetherOverlapped'
    <3>1. \A v \in ActiveLists' : v # u => v \in list'[u].beside
      BY <2>3, <2>5, <1>14 DEF OrderInv, ListsSeen, NewList
    <3>2. \A v \in ActiveLists' : v \in Weeks
      BY DEF ActiveLists
    <3>3. ASSUME NEW v \in ActiveLists', NEW w \in ActiveLists', v # w
          PROVE  v \in list'[w].beside \/ w \in list'[v].beside
      <4>1. CASE v = u \/ w = u
        BY <3>1, <3>3, <4>1
      <4>2. CASE v # u /\ w # u
        BY <3>2, <3>3, <4>2, <2>3, <2>5 DEF OrderInv, ActiveTogetherOverlapped
      <4> QED
        BY <4>1, <4>2
    <3> QED
      BY <3>3 DEF ActiveTogetherOverlapped
  <2> QED
    BY <2>6, <2>7, <2>8, <2>9, <2>10, <2>11 DEF OrderInv
<1>15. ASSUME NEW w \in Weeks, NEW v \in Vendors, StartCompletion(w, v)
       PROVE  OrderInv'
  <2> DEFINE new == [week |-> w, vendor |-> v, last |-> IsLast(w, v), beside |-> FALSE]
  <2>1. /\ completing' = completing \cup {new}
        /\ list[w] # Nothing /\ v \in list[w].pending
        /\ \A c \in completing : ~(c.week = w /\ c.vendor = v)
        /\ UNCHANGED <<status, list, approving>>
    BY <1>15 DEF StartCompletion
  <2>2. new \in [week : Weeks, vendor : Vendors, last : BOOLEAN, beside : BOOLEAN]
    BY DEF IsLast
  <2>3. OrderTypeOK'
    <3> HIDE DEF new
    <3> QED
      BY <1>0, <1>15, <2>1, <2>2 DEF StartCompletion, OrderTypeOK
  <2>4. Countings'
    <3>1. /\ new.week = w /\ new.vendor = v
          /\ new.last <=> list[w].pending = {v}
      BY DEF IsLast
    <3> HIDE DEF new
    <3> QED
      BY <2>1, <3>1 DEF OrderInv, Countings
  <2>5. /\ DraftAhead' /\ OneApproval' /\ ListsSeen' /\ ListOfOrder'
        /\ DoneListIsClosed' /\ ActiveTogetherOverlapped'
    BY <2>1 DEF OrderInv, DraftAhead, OneApproval, ListsSeen, ListOfOrder,
                DoneListIsClosed, ActiveTogetherOverlapped, ActiveLists
  <2> QED
    BY <2>3, <2>4, <2>5 DEF OrderInv
<1>16. ASSUME NEW c \in completing, CompletionCommits(c)
       PROVE  OrderInv'
  <2> DEFINE u == c.week
             alone == c.beside /\ list[u].pending = {c.vendor}
  <2>1. /\ u \in Weeks /\ list[u] # Nothing /\ list[u] \in Lists
        /\ c.last \in BOOLEAN /\ c.beside \in BOOLEAN /\ c.vendor \in list[u].pending
        /\ c.last => list[u].pending = {c.vendor}
        /\ ~c.last => c.beside \/ list[u].pending # {c.vendor}
        /\ status[u] \in {"shopping_active", "completed"}
        /\ list[u].active /\ status[u] = "shopping_active"
    BY <1>0 DEF OrderTypeOK, OrderInv, Countings, ListOfOrder, Lists
  <2>2. /\ list'[u] = [list[u] EXCEPT !.pending = @ \ {c.vendor},
                                      !.active = @ /\ ~c.last,
                                      !.overlap = alone]
        /\ status'[u] = IF c.last THEN "completed" ELSE status[u]
        /\ \A w \in Weeks : w # u => status'[w] = status[w] /\ list'[w] = list[w]
        /\ completing' = {Beside(d, u) : d \in completing \ {c}}
        /\ approving' = approving
    BY <1>0, <1>16, <2>1 DEF CompletionCommits, OrderTypeOK
  <2>3. /\ list'[u] \in Lists
        /\ list'[u].pending = list[u].pending \ {c.vendor}
        /\ list'[u].active <=> ~c.last
        /\ list'[u].overlap <=> alone
        /\ list'[u].sections = list[u].sections
        /\ list'[u].beside = list[u].beside
        /\ list'[u] # Nothing
    <3> DEFINE rest == list[u].pending \ {c.vendor}
               act == list[u].active /\ ~c.last
               over == alone
               new == [list[u] EXCEPT !.pending = rest, !.active = act, !.overlap = over]
    <3>1. /\ rest \in SUBSET Vendors /\ act \in BOOLEAN /\ over \in BOOLEAN
          /\ act <=> ~c.last
      BY <2>1 DEF Lists
    <3>2. list'[u] = new
      BY <2>2
    <3>3. /\ new \in Lists /\ new.pending = rest /\ new.active = act
          /\ new.overlap = over /\ new.sections = list[u].sections
          /\ new.beside = list[u].beside
      <4> HIDE DEF rest, act, over
      <4> QED
        BY <2>1, <3>1 DEF Lists
    <3> HIDE DEF new
    <3> QED
      BY <3>1, <3>2, <3>3, OrderAssumption
  <2>13. ASSUME NEW d \in completing
         PROVE  /\ Beside(d, u).week = d.week /\ Beside(d, u).vendor = d.vendor
                /\ Beside(d, u).last = d.last
                /\ Beside(d, u).beside <=> d.beside \/ d.week = u
                /\ Beside(d, u) \in [week : Weeks, vendor : Vendors, last : BOOLEAN,
                                    beside : BOOLEAN]
    <3>1. d \in [week : Weeks, vendor : Vendors, last : BOOLEAN, beside : BOOLEAN]
      BY <1>0 DEF OrderTypeOK
    <3> DEFINE now == d.beside \/ d.week = u
    <3>2. now \in BOOLEAN /\ Beside(d, u) = [d EXCEPT !.beside = now]
      BY DEF Beside
    <3>3. now <=> d.beside \/ d.week = u
      OBVIOUS
    <3> HIDE DEF now
    <3> QED
      BY <3>1, <3>2, <3>3
  <2>4. OrderTypeOK'
    <3>1. status' \in [Weeks -> OrderStatuses]
      BY <1>0, <1>16, <2>1 DEF CompletionCommits, OrderTypeOK, OrderStatuses
    <3>2. list' \in [Weeks -> {Nothing} \cup Lists]
      BY <1>0, <1>16, <2>1, <2>2, <2>3 DEF CompletionCommits, OrderTypeOK
    <3>3. completing' \subseteq [week : Weeks, vendor : Vendors, last : BOOLEAN,
                                beside : BOOLEAN]
      BY <1>0, <2>2, <2>13 DEF OrderTypeOK
    <3> QED
      BY <1>0, <1>16, <3>1, <3>2, <3>3 DEF CompletionCommits, OrderTypeOK
  <2>5. DraftAhead'
    BY <2>1, <2>2 DEF OrderInv, DraftAhead
  <2>6. OneApproval'
    <3>1. \A a \in approving : a.week \in Weeks
      BY <1>0 DEF OrderTypeOK
    <3> QED
      BY <2>1, <2>2, <3>1 DEF OrderInv, OneApproval
  <2>7. ActiveLists' \subseteq ActiveLists
    BY <2>1, <2>2 DEF ActiveLists
  <2>8. ListsSeen'
    BY <2>2, <2>7 DEF OrderInv, ListsSeen
  <2>9. ActiveTogetherOverlapped'
    <3>1. \A w \in ActiveLists' : w \in Weeks /\ list'[w].beside = list[w].beside
      BY <2>2, <2>3 DEF ActiveLists
    <3> QED
      BY <2>7, <3>1 DEF OrderInv, ActiveTogetherOverlapped
  <2>10. Countings'
    <3>1. ASSUME NEW e \in completing'
          PROVE  \E d \in completing : d # c /\ e = Beside(d, u)
      BY <2>2
    <3>2. ASSUME NEW d \in completing, d # c
          PROVE  /\ list'[d.week] # Nothing /\ d.vendor \in list'[d.week].pending
                 /\ d.last => list'[d.week].pending = {d.vendor}
                 /\ ~d.last => \/ d.beside \/ d.week = u
                               \/ list'[d.week].pending # {d.vendor}
      <4>1. d.week \in Weeks
        BY <1>0 DEF OrderTypeOK
      <4>2. CASE d.week = u
        <5>1. /\ d.vendor # c.vendor /\ d.vendor \in list[u].pending
              /\ d.last => list[u].pending = {d.vendor}
          BY <3>2, <4>2 DEF OrderInv, Countings
        <5>2. ~d.last /\ d.vendor \in list'[u].pending /\ list'[u] # Nothing
          BY <2>1, <2>3, <5>1
        <5> QED
          BY <4>2, <5>2
      <4>3. CASE d.week # u
        BY <2>2, <4>1, <4>3 DEF OrderInv, Countings
      <4> QED
        BY <4>2, <4>3
    <3>3. ASSUME NEW e \in completing'
          PROVE  /\ list'[e.week] # Nothing /\ e.vendor \in list'[e.week].pending
                 /\ e.last => list'[e.week].pending = {e.vendor}
                 /\ ~e.last => \/ e.beside
                               \/ list'[e.week].pending # {e.vendor}
      <4>1. PICK d \in completing : d # c /\ e = Beside(d, u)
        BY <3>1
      <4> QED
        BY <2>13, <3>2, <4>1
    <3>4. ASSUME NEW e \in completing', NEW f \in completing',
                 e.week = f.week, e.vendor = f.vendor
          PROVE  e = f
      <4>1. PICK d \in completing : d # c /\ e = Beside(d, u)
        BY <3>1
      <4>2. PICK g \in completing : g # c /\ f = Beside(g, u)
        BY <3>1
      <4>3. d.week = g.week /\ d.vendor = g.vendor
        BY <2>13, <3>4, <4>1, <4>2
      <4> QED
        BY <4>1, <4>2, <4>3 DEF OrderInv, Countings
    <3> QED
      BY <3>3, <3>4 DEF Countings
  <2>11. ListOfOrder'
    <3>1. /\ status'[u] \in {"shopping_active", "completed"}
          /\ list'[u].active <=> status'[u] = "shopping_active"
          /\ ~list'[u].active => list'[u].pending = {}
      BY <2>1, <2>2, <2>3
    <3>2. ASSUME NEW w \in Weeks, w # u, list'[w] # Nothing
          PROVE  /\ status'[w] \in {"shopping_active", "completed"}
                 /\ list'[w].active <=> status'[w] = "shopping_active"
                 /\ ~list'[w].active => list'[w].pending = {}
      BY <2>2, <3>2 DEF OrderInv, ListOfOrder
    <3> QED
      BY <3>1, <3>2 DEF ListOfOrder
  <2>12. DoneListIsClosed'
    <3>1. list'[u].pending = {} => ~list'[u].active \/ list'[u].overlap
      BY <2>1, <2>3 DEF OrderInv, Countings
    <3>2. list'[u].active <=> status'[u] = "shopping_active"
      BY <2>1, <2>2, <2>3
    <3>3. ASSUME NEW w \in Weeks, w # u, list'[w] # Nothing
          PROVE  /\ list'[w].active <=> status'[w] = "shopping_active"
                 /\ list'[w].pending = {} =>
                      ~list'[w].active \/ list'[w].overlap \/ list'[w].sections = {}
      BY <2>2, <3>3 DEF OrderInv, DoneListIsClosed
    <3> QED
      BY <3>1, <3>2, <3>3 DEF DoneListIsClosed
  <2> QED
    BY <2>4, <2>5, <2>6, <2>8, <2>9, <2>10, <2>11, <2>12 DEF OrderInv
<1>17. CASE UNCHANGED orderVars
  <2>1. OrderTypeOK'
    BY <1>0, <1>17 DEF orderVars, OrderTypeOK
  <2> QED
    BY <1>17, <2>1, RowsAlone DEF orderVars
<1> QED
  BY <1>1, <1>2, <1>3, <1>4, <1>5, <1>6, <1>7, <1>8, <1>9, <1>10, <1>11, <1>12,
     <1>13, <1>14, <1>15, <1>16, <1>17 DEF OrderNext

-----------------------------------------------------------------------------
(* The theorems.                                                           *)

LEMMA OrderInvariance == OrderSpec => []OrderInv
BY InitOrderInv, NextOrderInv, PTL DEF OrderSpec

\* Every variable of purchasing keeps its type, whatever requests are under way.
THEOREM OrderTypeCorrect == OrderSpec => []OrderTypeOK
<1>1. OrderInv => OrderTypeOK
  BY DEF OrderInv
<1> QED
  BY <1>1, OrderInvariance, PTL

\* The Order tab has a draft to show: the latest order is a draft, however locks,
\* unlocks, cutoffs, approvals and openings of the page interleave.
THEOREM DraftToShow == OrderSpec => []LatestIsDraft
<1>1. OrderInv => LatestIsDraft
  <2> SUFFICES ASSUME OrderInv, Orders # {}
               PROVE  status[Latest(Orders)] = "draft"
    BY DEF LatestIsDraft
  <2>1. /\ Orders \subseteq Weeks /\ Latest(Orders) \in Orders
        /\ \A w \in Orders : w <= Latest(Orders)
    BY LatestExists DEF Orders
  <2>2. ASSUME status[Latest(Orders)] # "draft"
        PROVE  FALSE
    <3>1. PICK w \in Weeks : w > Latest(Orders) /\ status[w] = "draft"
      BY <2>1, <2>2 DEF OrderInv, DraftAhead, Orders
    <3>2. w \in Orders
      BY <3>1 DEF Orders
    <3>3. Latest(Orders) \in 1..LastWeek /\ w \in 1..LastWeek /\ w <= Latest(Orders)
      BY <2>1, <3>2 DEF Weeks
    <3> QED
      BY <3>1, <3>3, OrderAssumption
  <2> QED
    BY <2>2
<1> QED
  BY <1>1, OrderInvariance, PTL

\* Two lists are active together only if each approval counted before the other
\* committed.
THEOREM TwoListsOverlapped == OrderSpec => []ActiveTogetherOverlapped
<1>1. OrderInv => ActiveTogetherOverlapped
  BY DEF OrderInv
<1> QED
  BY <1>1, OrderInvariance, PTL

\* A list without pending sections is closed, unless its last two sections were
\* completed at once or it never had any.
THEOREM DoneListsClosed == OrderSpec => []DoneListIsClosed
<1>1. OrderInv => DoneListIsClosed
  BY DEF OrderInv
<1> QED
  BY <1>1, OrderInvariance, PTL

-----------------------------------------------------------------------------
(* The card charge.                                                        *)

\* The types, and at most one row of the charge is under review.
IntakeTyped ==
  /\ attached \in BOOLEAN /\ booked \in BOOLEAN
  /\ rows \in [RowId -> Row \cup {NoRow, Deleted}]
  /\ pass \in [Pass -> Passes]
  /\ confirming \in RowId \cup {Nobody}
  /\ overtaken \subseteq Pass \cup {"operator"}

OneOpen == \A r, q \in Open : r = q

\* A row is confirmed in the transaction that books the charge.
ConfirmedIsBooked == Confirmed # {} => booked

\* Whoever has read the charge and still has to write is on record as overtaken
\* once the charge is thrown away.
ReadBeforeDiscard ==
  ThrownAway =>
    /\ \A p \in Pass : pass[p].at = "parsing" => p \in overtaken
    /\ confirming # Nobody => "operator" \in overtaken

\* A parse nobody asked for began on a row without items; what the operator typed
\* since is on record.
ReadBeforeEdit ==
  \A p \in Pass :
    pass[p].at = "parsing" /\ pass[p].upgrade /\ ~pass[p].wanted /\ p \notin overtaken =>
      \A r \in Open : rows[r].items # "edited"

\* Inductive.
IntakeInv ==
  /\ IntakeTyped
  /\ OneOpen
  /\ ConfirmedIsBooked
  /\ ReadBeforeDiscard
  /\ ReadBeforeEdit

LEMMA InitIntake == IntakeInit => IntakeInv
<1> SUFFICES ASSUME IntakeInit PROVE IntakeInv
  OBVIOUS
<1>1. Stored = {}
  BY IntakeAssumption DEF IntakeInit, Stored
<1>2. Open = {} /\ Confirmed = {}
  BY <1>1 DEF Open, Confirmed
<1>3. IntakeTyped
  BY DEF IntakeInit, IntakeTyped, Passes
<1>4. OneOpen /\ ConfirmedIsBooked /\ ReadBeforeDiscard /\ ReadBeforeEdit
  BY <1>1, <1>2 DEF IntakeInit, OneOpen, ConfirmedIsBooked, ReadBeforeDiscard, ReadBeforeEdit,
                    ThrownAway, Idle
<1> QED
  BY <1>3, <1>4 DEF IntakeInv

-----------------------------------------------------------------------------
(* The three ways rows change.                                             *)

\* Rows are deleted, the others left as they are.
LEMMA WithoutIs ==
  ASSUME IntakeTyped, NEW gone, gone \subseteq RowId, rows' = Without(gone)
  PROVE  /\ rows' \in [RowId -> Row \cup {NoRow, Deleted}]
         /\ Stored' = Stored \ gone /\ Open' = Open \ gone /\ Confirmed' = Confirmed \ gone
         /\ \A r \in RowId : IF r \in gone THEN rows'[r] = Deleted ELSE rows'[r] = rows[r]
<1>1. \A r \in RowId : IF r \in gone THEN rows'[r] = Deleted ELSE rows'[r] = rows[r]
  BY DEF Without
<1>2. rows' \in [RowId -> Row \cup {NoRow, Deleted}]
  BY DEF Without, IntakeTyped
<1>3. Stored' = Stored \ gone
  BY <1>1, IntakeAssumption DEF Stored
<1> QED
  BY <1>1, <1>2, <1>3 DEF Open, Confirmed, Stored

\* Rows change in place: none is added, deleted, confirmed or discarded.
InPlace ==
  /\ rows' \in [RowId -> Row \cup {NoRow, Deleted}]
  /\ \A r \in RowId : IF rows[r] \in Row
                      THEN /\ rows'[r] \in Row
                           /\ rows'[r].confirmed = rows[r].confirmed
                           /\ rows'[r].discarded = rows[r].discarded
                      ELSE rows'[r] = rows[r]

LEMMA InPlaceIs ==
  ASSUME IntakeTyped, InPlace
  PROVE  /\ Stored' = Stored /\ Open' = Open /\ Confirmed' = Confirmed
         /\ booked' = booked => ThrownAway' = ThrownAway
<1>1. Stored' = Stored
  BY DEF InPlace, Stored
<1>2. Open' = Open
  BY <1>1 DEF InPlace, Open, Stored
<1>3. Confirmed' = Confirmed
  BY <1>1 DEF InPlace, Confirmed, Stored
<1>4. ASSUME booked' = booked PROVE ThrownAway' = ThrownAway
  BY <1>1, <1>4 DEF InPlace, ThrownAway, Stored
<1> QED
  BY <1>1, <1>2, <1>3, <1>4

\* A parse that updates the charge's rows changes them in place.
LEMMA UpdatedIs ==
  ASSUME IntakeTyped, NEW x \in Row, Updated(x)
  PROVE  InPlace /\ \A r \in Stored : rows'[r].items = x.items
<1>1. ASSUME NEW y \in Row
      PROVE  LET z == [y EXCEPT !.reason = x.reason, !.items = x.items, !.retry = FALSE]
             IN  /\ z \in Row /\ z.items = x.items
                 /\ z.confirmed = y.confirmed /\ z.discarded = y.discarded
  BY DEF Row
<1>2. \A r \in RowId : IF r \in Stored
        THEN rows'[r] = [rows[r] EXCEPT !.reason = x.reason, !.items = x.items, !.retry = FALSE]
        ELSE rows'[r] = rows[r]
  BY DEF Updated
<1>3. \A r \in RowId : IF rows[r] \in Row
                       THEN /\ rows'[r] \in Row
                            /\ rows'[r].confirmed = rows[r].confirmed
                            /\ rows'[r].discarded = rows[r].discarded
                            /\ rows'[r].items = x.items
                       ELSE rows'[r] = rows[r]
  BY <1>1, <1>2 DEF Stored
<1>4. rows' = [r \in RowId |-> rows'[r]]
  BY DEF Updated
<1>5. \A r \in RowId : rows'[r] \in Row \cup {NoRow, Deleted}
  BY <1>3 DEF IntakeTyped
<1> QED
  BY <1>3, <1>4, <1>5 DEF InPlace, Stored

\* A row is inserted only where none is open.
LEMMA InsertedIs ==
  ASSUME IntakeTyped, NEW x \in Row, ~x.confirmed, ~x.discarded, Inserted(x)
  PROVE  \/ rows' = rows
         \/ /\ Open = {}
            /\ rows' \in [RowId -> Row \cup {NoRow, Deleted}]
            /\ \E r \in RowId : /\ r \notin Stored /\ rows' = [rows EXCEPT ![r] = x]
                                /\ Stored' = Stored \cup {r} /\ Open' = {r}
                                /\ Confirmed' = Confirmed
<1> SUFFICES ASSUME rows' # rows
             PROVE  /\ Open = {}
                    /\ rows' \in [RowId -> Row \cup {NoRow, Deleted}]
                    /\ \E r \in RowId : /\ r \notin Stored /\ rows' = [rows EXCEPT ![r] = x]
                                        /\ Stored' = Stored \cup {r} /\ Open' = {r}
                                        /\ Confirmed' = Confirmed
  OBVIOUS
<1>1. Open = {} /\ Unused # {} /\ rows' = [rows EXCEPT ![CHOOSE r \in Unused : TRUE] = x]
  BY DEF Inserted
<1>2. PICK r \in Unused : rows' = [rows EXCEPT ![r] = x]
  BY <1>1
<1>3. r \in RowId /\ rows[r] = NoRow /\ r \notin Stored
  BY <1>2, IntakeAssumption DEF Unused, Stored
<1>4. rows' \in [RowId -> Row \cup {NoRow, Deleted}]
  BY <1>2, <1>3 DEF IntakeTyped
<1>5. rows'[r] = x /\ \A q \in RowId : q # r => rows'[q] = rows[q]
  BY <1>2, <1>3 DEF IntakeTyped
<1>6. Stored' = Stored \cup {r}
  BY <1>3, <1>5 DEF Stored
<1>7. Open' = {r}
  BY <1>1, <1>3, <1>5, <1>6 DEF Open, Stored
<1>8. Confirmed' = Confirmed
  BY <1>3, <1>5, <1>6 DEF Confirmed, Stored
<1> QED
  BY <1>1, <1>2, <1>3, <1>4, <1>6, <1>7, <1>8

\* The rows a parse leaves for review are new ones.
LEMMA NewRowIs ==
  ASSUME NEW reason \in {"unattached", "transient", "unread"},
         NEW items \in {"none", "parsed", "edited"}
  PROVE  LET x == NewRow(reason, items)
         IN  x \in Row /\ ~x.confirmed /\ ~x.discarded /\ x.items = items
BY DEF NewRow, Row

-----------------------------------------------------------------------------
(* What a pass can do, in a state of the invariant.                        *)

\* A pass that reads the charge leaves the rows alone, or takes the open row of a
\* booked charge away; where it goes on to parse, the charge was not thrown away,
\* and a row it will update was asked for, is new to receipts, or has no items.
LEMMA ClassifyIs ==
  ASSUME IntakeInv, NEW p \in Pass, Classify(p)
  PROVE  /\ UNCHANGED <<attached, booked, confirming>>
         /\ overtaken' = overtaken \ {p}
         /\ pass[p].at # "parsing"
         /\ \/ /\ pass' = [pass EXCEPT ![p] = Idle]
               /\ rows' = rows \/ (booked /\ rows' = Without(Open))
            \/ /\ rows' = rows /\ ~ThrownAway
               /\ \E upgrade, wanted \in BOOLEAN :
                    /\ pass' = [pass EXCEPT ![p] = [at |-> "parsing", upgrade |-> upgrade,
                                                    wanted |-> wanted, receipt |-> attached]]
                    /\ upgrade /\ ~wanted => \A r \in Open : rows[r].items = "none"
<1> DEFINE forced == pass[p].at = "asked"
<1>1. /\ UNCHANGED <<attached, booked, confirming>>
      /\ pass[p].at # "parsing"
  BY DEF Classify
<1>2. CASE Kind = "event"
  <2>1. booked
    BY <1>2 DEF Kind, IntakeInv, ConfirmedIsBooked
  <2>2. Cached(p, IF forced THEN Without(Open) ELSE rows)
    BY <1>2 DEF Classify
  <2> QED
    BY <1>1, <2>1, <2>2 DEF Cached
<1>3. CASE Kind = "discarded"
  BY <1>1, <1>3 DEF Classify, Cached
<1>4. CASE Kind = "none"
  <2>1. Parse(p, FALSE, FALSE)
    BY <1>4 DEF Classify
  <2>2. ~ThrownAway
    BY <1>4 DEF Kind, ThrownAway
  <2> QED
    BY <1>1, <2>1, <2>2 DEF Parse
<1>5. CASE Kind = "pending"
  <2>1. PICK r \in Open : IF forced \/ Upgrades(rows[r])
                          THEN Parse(p, TRUE, Wanted(rows[r], forced))
                          ELSE Cached(p, rows)
    BY <1>5 DEF Classify
  <2>2. ~ThrownAway
    BY DEF ThrownAway, Open
  <2>3. CASE ~(forced \/ Upgrades(rows[r]))
    BY <1>1, <2>1, <2>3 DEF Cached
  <2>4. CASE forced \/ Upgrades(rows[r])
    <3>1. rows[r] \in Row /\ rows[r].retry \in BOOLEAN
      BY DEF Open, Stored, Row
    <3>2. Wanted(rows[r], forced) \in BOOLEAN
      BY <3>1 DEF Wanted
    <3>3. ~Wanted(rows[r], forced) => rows[r].items = "none"
      BY <2>4, <3>1 DEF Wanted, Upgrades, Reparsed
    <3>4. \A q \in Open : q = r
      BY DEF IntakeInv, OneOpen
    <3>5. Parse(p, TRUE, Wanted(rows[r], forced))
      BY <2>1, <2>4
    <3> QED
      BY <1>1, <2>2, <3>2, <3>3, <3>4, <3>5 DEF Parse
  <2> QED
    BY <2>3, <2>4
<1> QED
  BY <1>2, <1>3, <1>4, <1>5 DEF Kind

\* A parse that ends changes nothing, inserts a row where none is open, updates the
\* rows it set out to, or books the charge.
LEMMA EndsIs ==
  ASSUME IntakeInv, NEW p \in Pass, Ends(p)
  PROVE  /\ UNCHANGED <<attached, confirming>>
         /\ pass' = [pass EXCEPT ![p] = Idle] /\ pass'[p] # pass[p]
         /\ overtaken' = overtaken \ {p}
         /\ pass[p].at = "parsing"
         /\ \/ booked' = booked /\ rows' = rows
            \/ /\ booked' = booked
               /\ \E x \in Row : /\ ~x.confirmed /\ ~x.discarded /\ x.items # "edited"
                                 /\ Inserted(x)
            \/ /\ booked' = booked /\ pass[p].upgrade
               /\ \E x \in Row : x.items # "edited" /\ Updated(x)
            \/ /\ booked' = TRUE
               /\ \/ rows' = rows
                  \/ booked /\ rows' = Without(Open)
                  \/ ~booked /\ pass[p].upgrade /\ rows' = Without(Stored)
<1>1. /\ UNCHANGED <<attached, confirming>>
      /\ pass' = [pass EXCEPT ![p] = Idle]
      /\ overtaken' = overtaken \ {p} /\ pass[p].at = "parsing"
  BY DEF Ends
<1>2. pass'[p] = Idle /\ Idle.at = "idle"
  BY <1>1 DEF IntakeInv, IntakeTyped, Idle
<1>3. \A x \in Reviews \cup {NewRow("unattached", "none")} :
        x \in Row /\ ~x.confirmed /\ ~x.discarded /\ x.items # "edited"
  BY NewRowIs DEF Reviews
<1>4. CASE Inserted(NewRow("unattached", "none")) /\ UNCHANGED booked
  BY <1>1, <1>2, <1>3, <1>4
<1>5. ASSUME NEW x \in Reviews, Routed(p, x), UNCHANGED booked
      PROVE  \/ /\ pass[p].upgrade
                /\ \E y \in Row : y.items # "edited" /\ Updated(y)
             \/ \E y \in Row : /\ ~y.confirmed /\ ~y.discarded /\ y.items # "edited"
                               /\ Inserted(y)
  BY <1>3, <1>5 DEF Routed
<1>6. CASE Created(p)
  BY <1>1, <1>2, <1>6 DEF Created
<1> QED
  BY <1>1, <1>2, <1>4, <1>5, <1>6 DEF Ends

-----------------------------------------------------------------------------
(* Every step keeps the invariant.                                         *)

LEMMA ClassifyKeeps ==
  ASSUME IntakeInv, NEW p \in Pass, Classify(p)
  PROVE  IntakeInv'
<1>0. /\ IntakeTyped /\ OneOpen /\ ConfirmedIsBooked /\ ReadBeforeDiscard /\ ReadBeforeEdit
      /\ pass \in [Pass -> Passes]
  BY DEF IntakeInv, IntakeTyped
<1>1. /\ UNCHANGED <<attached, booked, confirming>>
      /\ overtaken' = overtaken \ {p}
      /\ pass[p].at # "parsing"
  BY ClassifyIs
<1>2. CASE /\ pass' = [pass EXCEPT ![p] = Idle]
           /\ rows' = rows \/ (booked /\ rows' = Without(Open))
  <2>1. pass' \in [Pass -> Passes]
    BY <1>0, <1>2 DEF Passes
  <2>2. \A q \in Pass : pass'[q].at = "parsing" =>
          q # p /\ pass'[q] = pass[q] /\ (q \in overtaken' <=> q \in overtaken)
    BY <1>0, <1>1, <1>2 DEF Idle
  <2>3. CASE rows' = rows
    <3>1. Stored' = Stored /\ Open' = Open /\ Confirmed' = Confirmed /\ ThrownAway' = ThrownAway
      BY <1>1, <2>3 DEF Stored, Open, Confirmed, ThrownAway
    <3>2. IntakeTyped'
      BY <1>0, <1>1, <2>1, <2>3 DEF IntakeTyped
    <3>3. OneOpen' /\ ConfirmedIsBooked'
      BY <1>0, <1>1, <2>3, <3>1 DEF OneOpen, ConfirmedIsBooked
    <3>4. ReadBeforeDiscard'
      BY <1>0, <1>1, <2>2, <3>1 DEF ReadBeforeDiscard, Pass
    <3>5. ReadBeforeEdit'
      BY <1>0, <2>2, <2>3, <3>1 DEF ReadBeforeEdit
    <3> QED
      BY <3>2, <3>3, <3>4, <3>5 DEF IntakeInv
  <2>4. CASE booked /\ rows' = Without(Open)
    <3>1. /\ rows' \in [RowId -> Row \cup {NoRow, Deleted}]
          /\ Open' = {} /\ Confirmed' \subseteq Confirmed
      <4>1. Open \subseteq RowId
        BY DEF Open, Stored
      <4> QED
        BY <1>0, <2>4, <4>1, WithoutIs
    <3>2. IntakeTyped'
      BY <1>0, <1>1, <2>1, <3>1 DEF IntakeTyped
    <3>3. OneOpen' /\ ConfirmedIsBooked' /\ ReadBeforeEdit'
      BY <1>1, <2>4, <3>1 DEF OneOpen, ConfirmedIsBooked, ReadBeforeEdit
    <3>4. ReadBeforeDiscard'
      BY <1>1, <2>4 DEF ReadBeforeDiscard, ThrownAway
    <3> QED
      BY <3>2, <3>3, <3>4 DEF IntakeInv
  <2> QED
    BY <1>2, <2>3, <2>4
<1>3. ASSUME rows' = rows, ~ThrownAway, NEW upgrade \in BOOLEAN, NEW wanted \in BOOLEAN,
             pass' = [pass EXCEPT ![p] = [at |-> "parsing", upgrade |-> upgrade,
                                          wanted |-> wanted, receipt |-> attached]],
             upgrade /\ ~wanted => \A r \in Open : rows[r].items = "none"
      PROVE  IntakeInv'
  <2>1. Stored' = Stored /\ Open' = Open /\ Confirmed' = Confirmed /\ ThrownAway' = ThrownAway
    BY <1>1, <1>3 DEF Stored, Open, Confirmed, ThrownAway
  <2>2. [at |-> "parsing", upgrade |-> upgrade, wanted |-> wanted, receipt |-> attached] \in Passes
    BY <1>0 DEF Passes, IntakeTyped
  <2>3. IntakeTyped'
    <3>1. pass' \in [Pass -> Passes]
      BY <1>0, <1>3, <2>2
    <3> QED
      BY <1>0, <1>1, <1>3, <3>1 DEF IntakeTyped
  <2>4. OneOpen' /\ ConfirmedIsBooked'
    BY <1>0, <1>1, <2>1 DEF OneOpen, ConfirmedIsBooked
  <2>5. ReadBeforeDiscard'
    BY <1>3, <2>1 DEF ReadBeforeDiscard
  <2>6. ReadBeforeEdit'
    <3> SUFFICES ASSUME NEW q \in Pass, pass'[q].at = "parsing", pass'[q].upgrade,
                        ~pass'[q].wanted, q \notin overtaken', NEW r \in Open
                 PROVE  rows[r].items # "edited"
      BY <1>3, <2>1 DEF ReadBeforeEdit
    <3>1. CASE q = p
      <4>1. pass'[q].upgrade = upgrade /\ pass'[q].wanted = wanted
        BY <1>0, <1>3, <3>1
      <4> QED
        BY <1>3, <4>1
    <3>2. CASE q # p
      BY <1>0, <1>1, <1>3, <3>2 DEF ReadBeforeEdit
    <3> QED
      BY <3>1, <3>2
  <2> QED
    BY <2>3, <2>4, <2>5, <2>6 DEF IntakeInv
<1> QED
  BY <1>2, <1>3, ClassifyIs

LEMMA EndsKeeps ==
  ASSUME IntakeInv, NEW p \in Pass, Ends(p)
  PROVE  IntakeInv'
<1>0. /\ IntakeTyped /\ OneOpen /\ ConfirmedIsBooked /\ ReadBeforeDiscard /\ ReadBeforeEdit
      /\ pass \in [Pass -> Passes]
  BY DEF IntakeInv, IntakeTyped
<1>1. /\ UNCHANGED <<attached, confirming>>
      /\ pass' = [pass EXCEPT ![p] = Idle]
      /\ overtaken' = overtaken \ {p}
  BY EndsIs
<1>2. \A q \in Pass : pass'[q].at = "parsing" =>
        q # p /\ pass'[q] = pass[q] /\ (q \in overtaken' <=> q \in overtaken)
  BY <1>0, <1>1 DEF Idle
<1>3. /\ pass' \in [Pass -> Passes] /\ attached' \in BOOLEAN
      /\ confirming' \in RowId \cup {Nobody}
      /\ overtaken' \subseteq Pass \cup {"operator"}
  BY <1>0, <1>1 DEF IntakeTyped, Passes
<1>4. ASSUME booked' \in BOOLEAN, rows' \in [RowId -> Row \cup {NoRow, Deleted}],
             Confirmed' # {} => booked',
             ThrownAway' => ThrownAway,
             \A r, q \in Open' : r = q,
             \A r \in Open' : rows'[r].items = "edited" => r \in Open /\ rows[r].items = "edited"
      PROVE  IntakeInv'
  <2>1. IntakeTyped' /\ OneOpen' /\ ConfirmedIsBooked'
    BY <1>3, <1>4 DEF IntakeTyped, OneOpen, ConfirmedIsBooked
  <2>2. ReadBeforeDiscard'
    BY <1>0, <1>1, <1>2, <1>4 DEF ReadBeforeDiscard, Pass
  <2>3. ReadBeforeEdit'
    BY <1>0, <1>2, <1>4 DEF ReadBeforeEdit
  <2> QED
    BY <2>1, <2>2, <2>3 DEF IntakeInv
<1>5. booked \in BOOLEAN
  BY <1>0 DEF IntakeTyped
<1>6. CASE booked' = booked /\ rows' = rows
  <2>1. Open' = Open /\ Confirmed' = Confirmed /\ ThrownAway' = ThrownAway
    BY <1>6 DEF Stored, Open, Confirmed, ThrownAway
  <2> QED
    BY <1>0, <1>4, <1>5, <1>6, <2>1 DEF IntakeTyped, OneOpen, ConfirmedIsBooked
<1>7. ASSUME booked' = booked, NEW x \in Row, ~x.confirmed, ~x.discarded,
             x.items # "edited", Inserted(x), rows' # rows
      PROVE  IntakeInv'
  <2>1. rows' \in [RowId -> Row \cup {NoRow, Deleted}] /\ Open = {}
    BY <1>0, <1>7, InsertedIs
  <2>2. PICK r \in RowId : /\ r \notin Stored /\ rows' = [rows EXCEPT ![r] = x]
                           /\ Stored' = Stored \cup {r} /\ Open' = {r}
                           /\ Confirmed' = Confirmed
    BY <1>0, <1>7, InsertedIs
  <2>3. rows'[r] = x
    BY <1>0, <2>2 DEF IntakeTyped
  <2>4. ~ThrownAway'
    BY <1>7, <2>2, <2>3 DEF ThrownAway
  <2> QED
    BY <1>0, <1>4, <1>5, <1>7, <2>1, <2>2, <2>3, <2>4 DEF ConfirmedIsBooked
<1>8. ASSUME booked' = booked, NEW x \in Row, x.items # "edited", Updated(x)
      PROVE  IntakeInv'
  <2>1. InPlace /\ \A r \in Stored : rows'[r].items = x.items
    BY <1>0, <1>8, UpdatedIs
  <2>2. /\ Open' = Open /\ Confirmed' = Confirmed /\ ThrownAway' = ThrownAway
        /\ rows' \in [RowId -> Row \cup {NoRow, Deleted}]
    BY <1>0, <1>8, <2>1, InPlaceIs DEF InPlace
  <2> QED
    BY <1>0, <1>4, <1>5, <1>8, <2>1, <2>2 DEF ConfirmedIsBooked, OneOpen, Open
<1>9. ASSUME booked' = TRUE, NEW gone, gone \subseteq RowId, rows' = Without(gone)
      PROVE  IntakeInv'
  <2>1. /\ rows' \in [RowId -> Row \cup {NoRow, Deleted}]
        /\ Open' = Open \ gone
        /\ \A r \in RowId : r \notin gone => rows'[r] = rows[r]
    BY <1>0, <1>9, WithoutIs
  <2>2. ~ThrownAway'
    BY <1>9 DEF ThrownAway
  <2>3. \A r \in Open' : rows'[r] = rows[r]
    BY <2>1 DEF Open, Stored
  <2> QED
    BY <1>0, <1>4, <1>9, <2>1, <2>2, <2>3 DEF OneOpen
<1>10. CASE booked' = TRUE /\ rows' = rows
  <2>1. Open' = Open /\ Confirmed' = Confirmed /\ ~ThrownAway'
    BY <1>10 DEF Stored, Open, Confirmed, ThrownAway
  <2> QED
    BY <1>0, <1>4, <1>10, <2>1 DEF IntakeTyped, OneOpen
<1>11. Open \subseteq RowId /\ Stored \subseteq RowId
  BY DEF Open, Stored
<1> QED
  BY <1>6, <1>7, <1>8, <1>9, <1>10, <1>11, EndsIs

\* A field of a row is set.
LEMMA RowSet ==
  ASSUME IntakeTyped, NEW r \in Open, NEW x \in Row, rows' = [rows EXCEPT ![r] = x]
  PROVE  /\ rows' \in [RowId -> Row \cup {NoRow, Deleted}]
         /\ rows'[r] = x /\ \A q \in RowId : q # r => rows'[q] = rows[q]
         /\ Stored' = Stored
<1>1. r \in RowId /\ rows[r] \in Row
  BY DEF Open, Stored
<1>2. /\ rows' \in [RowId -> Row \cup {NoRow, Deleted}]
      /\ rows'[r] = x /\ \A q \in RowId : q # r => rows'[q] = rows[q]
  BY <1>1 DEF IntakeTyped
<1> QED
  BY <1>1, <1>2 DEF Stored

LEMMA OperatorKeeps ==
  ASSUME IntakeInv,
         \/ \E r \in RowId : UpdateItems(r) \/ Discard(r) \/ RetryParse(r) \/ ConfirmReads(r)
         \/ ConfirmWrites
  PROVE  IntakeInv'
<1>0. /\ IntakeTyped /\ OneOpen /\ ConfirmedIsBooked /\ ReadBeforeDiscard /\ ReadBeforeEdit
      /\ pass \in [Pass -> Passes]
  BY DEF IntakeInv, IntakeTyped
<1>1. /\ \A p \in Pass : pass[p].at = "parsing" <=> p \in StillReading
      /\ confirming # Nobody <=> "operator" \in StillReading
      /\ StillReading \subseteq Pass \cup {"operator"} /\ "operator" \notin Pass
  BY DEF StillReading, Pass
<1>2. ASSUME NEW r \in Open PROVE ~ThrownAway
  BY DEF Open, ThrownAway
<1>3. ASSUME NEW r \in RowId, UpdateItems(r) PROVE IntakeInv'
  <2> DEFINE x == [rows[r] EXCEPT !.items = "edited"]
  <2>1. /\ r \in Open /\ rows' = [rows EXCEPT ![r] = x]
        /\ overtaken' = StillReading /\ UNCHANGED <<attached, booked, pass, confirming>>
    BY <1>3 DEF UpdateItems
  <2>2. rows[r] \in Row
    BY <2>1 DEF Open, Stored
  <2>3. x \in Row /\ x.confirmed = rows[r].confirmed /\ x.discarded = rows[r].discarded
    BY <2>2 DEF Row
  <2> HIDE DEF x
  <2>4. InPlace
    BY <1>0, <2>1, <2>2, <2>3, RowSet DEF InPlace, IntakeTyped
  <2>5. Open' = Open /\ Confirmed' = Confirmed /\ ThrownAway' = ThrownAway
    BY <1>0, <2>1, <2>4, InPlaceIs
  <2>6. IntakeTyped' /\ OneOpen' /\ ConfirmedIsBooked'
    BY <1>0, <1>1, <2>1, <2>4, <2>5 DEF IntakeTyped, OneOpen, ConfirmedIsBooked, InPlace
  <2>7. ReadBeforeDiscard' /\ ReadBeforeEdit'
    BY <1>1, <1>2, <2>1, <2>5 DEF ReadBeforeDiscard, ReadBeforeEdit
  <2> QED
    BY <2>6, <2>7 DEF IntakeInv
<1>4. ASSUME NEW r \in RowId, Discard(r) PROVE IntakeInv'
  <2> DEFINE x == [rows[r] EXCEPT !.discarded = TRUE]
  <2>1. /\ r \in Open /\ rows' = [rows EXCEPT ![r] = x]
        /\ overtaken' = StillReading /\ UNCHANGED <<attached, booked, pass, confirming>>
    BY <1>4 DEF Discard
  <2>2. rows[r] \in Row
    BY <2>1 DEF Open, Stored
  <2>3. x \in Row /\ x.confirmed = rows[r].confirmed
    BY <2>2 DEF Row
  <2> HIDE DEF x
  <2>4. /\ rows' \in [RowId -> Row \cup {NoRow, Deleted}]
        /\ rows'[r] = x /\ \A q \in RowId : q # r => rows'[q] = rows[q]
        /\ Stored' = Stored
    BY <1>0, <2>1, <2>3, RowSet
  <2>5. Open' \subseteq Open \cup {r} /\ Confirmed' = Confirmed
    BY <2>3, <2>4 DEF Open, Confirmed, Stored
  <2>6. IntakeTyped' /\ OneOpen' /\ ConfirmedIsBooked'
    BY <1>0, <1>1, <2>1, <2>4, <2>5 DEF IntakeTyped, OneOpen, ConfirmedIsBooked
  <2>7. ReadBeforeDiscard' /\ ReadBeforeEdit'
    BY <1>1, <2>1 DEF ReadBeforeDiscard, ReadBeforeEdit
  <2> QED
    BY <2>6, <2>7 DEF IntakeInv
<1>5. ASSUME NEW r \in RowId, RetryParse(r) PROVE IntakeInv'
  <2> DEFINE x == [rows[r] EXCEPT !.retry = TRUE]
  <2>1. /\ r \in Open /\ rows' = [rows EXCEPT ![r] = x]
        /\ UNCHANGED <<attached, booked, pass, confirming, overtaken>>
    BY <1>5 DEF RetryParse
  <2>2. rows[r] \in Row
    BY <2>1 DEF Open, Stored
  <2>3. /\ x \in Row /\ x.items = rows[r].items
        /\ x.confirmed = rows[r].confirmed /\ x.discarded = rows[r].discarded
    BY <2>2 DEF Row
  <2> HIDE DEF x
  <2>4. InPlace /\ \A q \in Stored : rows'[q].items = rows[q].items
    BY <1>0, <2>1, <2>2, <2>3, RowSet DEF InPlace, IntakeTyped, Stored
  <2>5. Open' = Open /\ Confirmed' = Confirmed /\ ThrownAway' = ThrownAway
    BY <1>0, <2>1, <2>4, InPlaceIs
  <2>6. IntakeTyped' /\ OneOpen' /\ ConfirmedIsBooked'
    BY <1>0, <2>1, <2>4, <2>5 DEF IntakeTyped, OneOpen, ConfirmedIsBooked, InPlace
  <2>7. ReadBeforeDiscard' /\ ReadBeforeEdit'
    BY <1>0, <2>1, <2>4, <2>5 DEF ReadBeforeDiscard, ReadBeforeEdit, Open
  <2> QED
    BY <2>6, <2>7 DEF IntakeInv
<1>6. ASSUME NEW r \in RowId, ConfirmReads(r) PROVE IntakeInv'
  <2>1. /\ r \in Open /\ confirming' = r /\ overtaken' = overtaken \ {"operator"}
        /\ UNCHANGED <<attached, rows, booked, pass>>
    BY <1>6 DEF ConfirmReads
  <2>2. Open' = Open /\ Confirmed' = Confirmed /\ ThrownAway' = ThrownAway
    BY <2>1 DEF Stored, Open, Confirmed, ThrownAway
  <2>3. IntakeTyped' /\ OneOpen' /\ ConfirmedIsBooked'
    BY <1>0, <2>1, <2>2 DEF IntakeTyped, OneOpen, ConfirmedIsBooked
  <2>4. ReadBeforeDiscard' /\ ReadBeforeEdit'
    BY <1>0, <1>1, <1>2, <2>1, <2>2 DEF ReadBeforeDiscard, ReadBeforeEdit
  <2> QED
    BY <2>3, <2>4 DEF IntakeInv
<1>7. ASSUME ConfirmWrites PROVE IntakeInv'
  <2>1. confirming' = Nobody /\ UNCHANGED <<attached, pass>> /\ confirming # Nobody
    BY <1>7 DEF ConfirmWrites
  <2>2. CASE UNCHANGED <<rows, booked, overtaken>>
    <3>1. Open' = Open /\ Confirmed' = Confirmed /\ ThrownAway' = ThrownAway
      BY <2>2 DEF Stored, Open, Confirmed, ThrownAway
    <3>2. IntakeTyped' /\ OneOpen' /\ ConfirmedIsBooked'
      BY <1>0, <2>1, <2>2, <3>1 DEF IntakeTyped, OneOpen, ConfirmedIsBooked
    <3>3. ReadBeforeDiscard' /\ ReadBeforeEdit'
      BY <1>0, <2>1, <2>2, <3>1 DEF ReadBeforeDiscard, ReadBeforeEdit
    <3> QED
      BY <3>2, <3>3 DEF IntakeInv
  <2>3. ASSUME booked' = TRUE, overtaken' = StillReading \ {"operator"},
               rows' = [r \in RowId |-> IF r = confirming /\ r \in Stored
                                        THEN [rows[r] EXCEPT !.confirmed = TRUE] ELSE rows[r]]
        PROVE  IntakeInv'
    <3>1. ASSUME NEW y \in Row
          PROVE  LET z == [y EXCEPT !.confirmed = TRUE]
                 IN  z \in Row /\ z.discarded = y.discarded /\ z.confirmed
      BY DEF Row
    <3>2. \A r \in RowId :
            IF rows[r] \in Row
            THEN rows'[r] \in Row /\ (rows'[r] = rows[r] \/ rows'[r].confirmed)
            ELSE rows'[r] = rows[r]
      BY <2>3, <3>1 DEF Stored
    <3>3. rows' \in [RowId -> Row \cup {NoRow, Deleted}]
      <4>1. rows' = [r \in RowId |-> rows'[r]]
        BY <2>3
      <4>2. \A r \in RowId : rows'[r] \in Row \cup {NoRow, Deleted}
        BY <1>0, <3>2 DEF IntakeTyped
      <4> QED
        BY <4>1, <4>2
    <3>4. Open' \subseteq Open
      BY <3>2 DEF Open, Stored
    <3>5. IntakeTyped' /\ OneOpen' /\ ConfirmedIsBooked'
      BY <1>0, <1>1, <2>1, <2>3, <3>3, <3>4 DEF IntakeTyped, OneOpen, ConfirmedIsBooked
    <3>6. ReadBeforeDiscard' /\ ReadBeforeEdit'
      BY <1>1, <2>1, <2>3 DEF ReadBeforeDiscard, ReadBeforeEdit, ThrownAway
    <3> QED
      BY <3>5, <3>6 DEF IntakeInv
  <2> QED
    BY <1>7, <2>2, <2>3 DEF ConfirmWrites
<1> QED
  BY <1>3, <1>4, <1>5, <1>6, <1>7

LEMMA NextIntake ==
  ASSUME IntakeInv, [IntakeNext]_intakeVars
  PROVE  IntakeInv'
<1>0. /\ IntakeTyped /\ OneOpen /\ ConfirmedIsBooked /\ ReadBeforeDiscard /\ ReadBeforeEdit
      /\ pass \in [Pass -> Passes]
  BY DEF IntakeInv, IntakeTyped
<1>1. ASSUME UNCHANGED <<rows, booked, confirming, overtaken>>, attached' \in BOOLEAN,
             pass' \in [Pass -> Passes],
             \A p \in Pass : pass'[p].at = "parsing" => pass'[p] = pass[p]
      PROVE  IntakeInv'
  <2>1. Open' = Open /\ Confirmed' = Confirmed /\ ThrownAway' = ThrownAway
    BY <1>1 DEF Stored, Open, Confirmed, ThrownAway
  <2>2. IntakeTyped' /\ OneOpen' /\ ConfirmedIsBooked'
    BY <1>0, <1>1, <2>1 DEF IntakeTyped, OneOpen, ConfirmedIsBooked
  <2>3. ReadBeforeDiscard' /\ ReadBeforeEdit'
    BY <1>0, <1>1, <2>1 DEF ReadBeforeDiscard, ReadBeforeEdit
  <2> QED
    BY <2>2, <2>3 DEF IntakeInv
<1>2. CASE Attach
  BY <1>0, <1>1, <1>2 DEF Attach
<1>3. CASE Reprocess
  <2>1. /\ UNCHANGED <<attached, rows, booked, confirming, overtaken>>
        /\ pass' = [pass EXCEPT !["run"] = [at |-> "asked"]]
    BY <1>3 DEF Reprocess
  <2>2. pass' \in [Pass -> Passes]
    BY <1>0, <2>1 DEF Passes
  <2>3. \A p \in Pass : pass'[p].at = "parsing" => pass'[p] = pass[p]
    BY <1>0, <2>1
  <2> QED
    BY <1>0, <1>1, <2>1, <2>2, <2>3 DEF IntakeTyped
<1>4. CASE UNCHANGED intakeVars
  BY <1>0, <1>1, <1>4 DEF intakeVars, IntakeTyped
<1> QED
  BY <1>2, <1>3, <1>4, ClassifyKeeps, EndsKeeps, OperatorKeeps DEF IntakeNext

LEMMA IntakeHolds == IntakeSpec => []IntakeInv
BY InitIntake, NextIntake, PTL DEF IntakeSpec

-----------------------------------------------------------------------------
LEMMA IntakeTypedOK == IntakeInv => IntakeTypeOK
<1> SUFFICES ASSUME IntakeInv PROVE Cardinality(Open) <= 1
  BY DEF IntakeInv, IntakeTyped, IntakeTypeOK
<1>1. CASE Open = {}
  BY <1>1, FS_EmptySet
<1>2. CASE Open # {}
  <2>1. PICK r : Open = {r}
    BY <1>2 DEF IntakeInv, OneOpen
  <2>2. Cardinality(Open) = 1
    BY <2>1, FS_Singleton, Zenon
  <2> QED
    BY <2>2
<1> QED
  BY <1>1, <1>2

\* The type of every variable, and one row of the charge at most is under review,
\* whichever passes insert, update and delete rows at the same time.
THEOREM IntakeTypeCorrect == IntakeSpec => []IntakeTypeOK
BY IntakeTypedOK, IntakeHolds, PTL

\* A charge the operator has thrown away comes back only by a step of somebody who
\* had read it before: a parse that was under way, or a confirmation.
THEOREM DiscardsStand == IntakeSpec => DiscardStands
<1>1. ASSUME IntakeInv, [IntakeNext]_intakeVars, ThrownAway, ~ThrownAway'
      PROVE  ByOvertaken
  <2>1. Open = {} /\ ~booked
    BY <1>1 DEF ThrownAway, Open
  <2>2. ~(UNCHANGED <<rows, booked>>)
    BY <1>1 DEF ThrownAway, Stored
  <2>3. ASSUME NEW p \in Pass, Classify(p) PROVE ByOvertaken
    BY <1>1, <2>1, <2>2, <2>3, ClassifyIs
  <2>4. ASSUME NEW p \in Pass, Ends(p) PROVE ByOvertaken
    <3>1. pass[p].at = "parsing" /\ pass'[p] # pass[p]
      BY <1>1, <2>4, EndsIs
    <3>2. p \in overtaken
      BY <1>1, <3>1 DEF IntakeInv, ReadBeforeDiscard
    <3> QED
      BY <3>1, <3>2 DEF ByOvertaken
  <2>5. ASSUME ConfirmWrites PROVE ByOvertaken
    <3>1. confirming # Nobody /\ confirming' = Nobody
      BY <2>5 DEF ConfirmWrites
    <3>2. "operator" \in overtaken
      BY <1>1, <3>1 DEF IntakeInv, ReadBeforeDiscard
    <3> QED
      BY <3>1, <3>2 DEF ByOvertaken
  <2>6. ASSUME \/ Reprocess \/ Attach \/ UNCHANGED intakeVars
               \/ \E r \in RowId : UpdateItems(r) \/ Discard(r) \/ RetryParse(r) \/ ConfirmReads(r)
        PROVE  FALSE
    BY <2>1, <2>2, <2>6
    DEF Reprocess, Attach, UpdateItems, Discard, RetryParse, ConfirmReads, intakeVars
  <2> QED
    BY <1>1, <2>3, <2>4, <2>5, <2>6 DEF IntakeNext
<1> QED
  BY <1>1, IntakeHolds, PTL DEF IntakeSpec, DiscardStands

\* What the operator typed is replaced only by a parse that was asked for, by the
\* first receipt's, or by one that had begun before the edit; a confirmed row is
\* never deleted.
THEOREM WorkKept == IntakeSpec => OperatorsWorkKept
<1> DEFINE Lost(r) == /\ rows[r].items = "edited" /\ ~booked
                      /\ rows'[r] = Deleted \/ (rows'[r] \in Row /\ rows'[r].items # "edited")
           ByWanted == \E p \in Pass : /\ pass'[p] # pass[p]
                                       /\ pass[p].at = "parsing" /\ pass[p].wanted
<1>1. ASSUME IntakeInv, [IntakeNext]_intakeVars
      PROVE  \A r \in Confirmed : rows'[r] # Deleted
  <2> SUFFICES ASSUME NEW r \in Confirmed PROVE rows'[r] # Deleted
    OBVIOUS
  <2>1. /\ r \in RowId /\ rows[r] \in Row /\ rows[r] # Deleted /\ r \notin Open /\ booked
        /\ IntakeTyped
    BY <1>1, IntakeAssumption
    DEF Confirmed, Stored, Open, IntakeInv, ConfirmedIsBooked
  <2>2. CASE rows' = rows
    BY <2>1, <2>2
  <2>3. CASE rows' = Without(Open)
    BY <2>1, <2>3 DEF Without
  <2>4. ASSUME NEW x \in Row, Inserted(x) PROVE rows'[r] # Deleted
    <3>1. x # Deleted
      BY IntakeAssumption
    <3> QED
      BY <2>1, <2>4, <3>1 DEF Inserted, IntakeTyped
  <2>5. CASE InPlace
    BY <2>1, <2>5, IntakeAssumption DEF InPlace
  <2>6. ASSUME NEW p \in Pass, Classify(p) PROVE rows'[r] # Deleted
    BY <1>1, <2>2, <2>3, <2>6, ClassifyIs
  <2>7. ASSUME NEW p \in Pass, Ends(p) PROVE rows'[r] # Deleted
    BY <1>1, <2>1, <2>2, <2>3, <2>4, <2>5, <2>7, EndsIs, UpdatedIs
  <2>8. ASSUME NEW q \in RowId, UpdateItems(q) \/ Discard(q) \/ RetryParse(q)
        PROVE  rows'[r] # Deleted
    <3>1. q \in Open /\ q # r
      BY <2>1, <2>8 DEF UpdateItems, Discard, RetryParse
    <3>2. rows'[r] = rows[r]
      BY <2>1, <2>8, <3>1 DEF UpdateItems, Discard, RetryParse, IntakeTyped
    <3> QED
      BY <2>1, <3>2
  <2>9. CASE ConfirmWrites
    BY <2>1, <2>2, <2>9 DEF ConfirmWrites
  <2>10. ASSUME \/ Reprocess \/ Attach \/ UNCHANGED intakeVars
                \/ \E q \in RowId : ConfirmReads(q)
         PROVE  rows' = rows
    BY <2>10 DEF Reprocess, Attach, ConfirmReads, intakeVars
  <2> QED
    BY <1>1, <2>2, <2>6, <2>7, <2>8, <2>9, <2>10 DEF IntakeNext
<1>2. ASSUME IntakeInv, [IntakeNext]_intakeVars, NEW r \in Open, Lost(r)
      PROVE  ByOvertaken \/ ByWanted
  <2>1. /\ r \in RowId /\ rows[r] \in Row /\ rows[r] # Deleted /\ r \in Stored
        /\ rows[r].items = "edited" /\ ~booked /\ Open # {} /\ IntakeTyped
    BY <1>2, IntakeAssumption DEF Open, Stored, IntakeInv
  <2>2. rows'[r] # rows[r]
    BY <1>2, <2>1
  <2>3. ASSUME NEW p \in Pass, Classify(p) PROVE FALSE
    BY <1>2, <2>1, <2>2, <2>3, ClassifyIs
  <2>4. ASSUME NEW p \in Pass, Ends(p) PROVE ByOvertaken \/ ByWanted
    <3>1. pass[p].at = "parsing" /\ pass'[p] # pass[p]
      BY <1>2, <2>4, EndsIs
    <3>2. \A x \in Row : ~Inserted(x)
      BY <2>1, <2>2 DEF Inserted
    <3>3. pass[p].upgrade
      BY <1>2, <2>1, <2>2, <2>4, <3>2, EndsIs
    <3>4. pass[p].wanted \/ p \in overtaken
      BY <1>2, <2>1, <3>1, <3>3 DEF IntakeInv, ReadBeforeEdit
    <3> QED
      BY <3>1, <3>4 DEF ByOvertaken
  <2>5. ASSUME NEW q \in RowId, UpdateItems(q) \/ Discard(q) \/ RetryParse(q)
        PROVE  FALSE
    <3>1. q \in Open /\ rows[q] \in Row
      BY <2>5 DEF UpdateItems, Discard, RetryParse, Open, Stored
    <3>2. q = r
      BY <1>2, <3>1 DEF IntakeInv, OneOpen
    <3>3. rows'[r] \in {[rows[r] EXCEPT !.items = "edited"], [rows[r] EXCEPT !.discarded = TRUE],
                        [rows[r] EXCEPT !.retry = TRUE]}
      BY <2>1, <2>5, <3>2 DEF UpdateItems, Discard, RetryParse, IntakeTyped
    <3>4. rows'[r] \in Row /\ rows'[r].items = "edited"
      BY <2>1, <3>3 DEF Row
    <3> QED
      BY <1>2, <3>4, IntakeAssumption
  <2>6. ASSUME ConfirmWrites PROVE FALSE
    <3>1. rows'[r] = [rows[r] EXCEPT !.confirmed = TRUE]
      BY <2>1, <2>2, <2>6 DEF ConfirmWrites
    <3>2. rows'[r] \in Row /\ rows'[r].items = "edited"
      BY <2>1, <3>1 DEF Row
    <3> QED
      BY <1>2, <3>2, IntakeAssumption
  <2>7. ASSUME \/ Reprocess \/ Attach \/ UNCHANGED intakeVars
               \/ \E q \in RowId : ConfirmReads(q)
        PROVE  FALSE
    BY <2>2, <2>7 DEF Reprocess, Attach, ConfirmReads, intakeVars
  <2> QED
    BY <1>2, <2>3, <2>4, <2>5, <2>6, <2>7 DEF IntakeNext
<1>3. ASSUME IntakeInv, [IntakeNext]_intakeVars
      PROVE  /\ \A r \in Open : rows[r].items = "edited" /\ ~booked
                  /\ (rows'[r] = Deleted \/ (rows'[r] \in Row /\ rows'[r].items # "edited"))
                  => \/ ByOvertaken
                     \/ \E p \in Pass : pass'[p] # pass[p] /\ pass[p].at = "parsing" /\ pass[p].wanted
             /\ \A r \in Confirmed : rows'[r] # Deleted
  BY <1>1, <1>2, <1>3
<1> QED
  BY <1>3, IntakeHolds, PTL DEF IntakeSpec, OperatorsWorkKept
=============================================================================
