---------------------------- MODULE PurchaseOrder ----------------------------
(***************************************************************************)
(* The weekly purchase order and the shopping list made of it: what the    *)
(* handlers of internal/purchasing and its cutoff scheduler do to          *)
(* purchase_orders, po_line_items and shopping_lists when several of them  *)
(* are under way.  Postgres runs them READ COMMITTED: a statement sees     *)
(* what is committed when it starts, an UPDATE waits for the row, and the  *)
(* writes of a transaction appear when it commits.                         *)
(*                                                                         *)
(* A request is an element of one of the sets opening, cutting, saving,    *)
(* approving and completing from its first statement to its last; one with *)
(* a single statement that matters is an action.  A line is the item on    *)
(* it, without quantity and unit.  The column version is never compared.   *)
(***************************************************************************)
EXTENDS Integers, FiniteSets

CONSTANTS
  Goods,       \* the items a line can be of
  Vendors,     \* who they are bought from, "Unassigned" included
  VendorOf,    \* the vendor of an item
  Nothing,     \* no list, nothing picked or deleted yet
  LastWeek,    \* bound: the last week that has an order
  MaxSaves,    \* bound: saves of line items
  MaxUnlocks,  \* bound: orders unlocked
  MaxAtOnce    \* bound: requests under way at once

Weeks == 1..LastWeek

\* A shopping list: its vendor sections, those pending, and its items.  beside and
\* overlap are history, see ApprovePO and CompleteVendorSection.
Lists == [active : BOOLEAN, pending : SUBSET Vendors, sections : SUBSET Vendors,
          items : SUBSET Goods, beside : SUBSET Weeks, overlap : BOOLEAN]

ASSUME OrderAssumption ==
  /\ VendorOf \in [Goods -> Vendors]
  /\ LastWeek \in Nat /\ LastWeek > 1
  /\ MaxSaves \in Nat /\ MaxUnlocks \in Nat /\ MaxAtOnce \in Nat
  /\ Nothing \notin Weeks /\ Nothing \notin Lists
  /\ \A S \in SUBSET Goods : S # Nothing

VARIABLES
  status,      \* the status of each week's order, "none" without a row
  lines,       \* the items on it
  list,        \* the shopping list made of it, or Nothing
  week,        \* CurrentWeekStart
  opening,     \* GetOrCreateOrder calls that found no draft
  cutting,     \* cutoff checks that found no locked order: the draft picked, or Nothing
  saving,      \* UpsertLineItems calls that found the order open
  approving,   \* ApprovePO calls that found no active list
  completing,  \* CompleteVendorSection calls that hold their section
  saves, unlocks   \* history: what the bounds count

orderVars == <<status, lines, list, week, opening, cutting, saving, approving,
               completing, saves, unlocks>>

OrderStatuses == {"none", "draft", "locked", "shopping_active", "completed"}
Orders == {w \in Weeks : status[w] # "none"}
Drafts == {w \in Weeks : status[w] = "draft"}
ActiveLists == {w \in Weeks : list[w] # Nothing /\ list[w].active}
Room == Cardinality(opening) + Cardinality(cutting) + Cardinality(saving)
          + Cardinality(approving) + Cardinality(completing) < MaxAtOnce
Latest(S) == CHOOSE w \in S : \A v \in S : v <= w

OrderInit ==
  /\ status = [w \in Weeks |-> "none"]
  /\ lines = [w \in Weeks |-> {}]
  /\ list = [w \in Weeks |-> Nothing]
  /\ week = 1
  /\ opening = {} /\ cutting = {} /\ saving = {} /\ approving = {} /\ completing = {}
  /\ saves = 0 /\ unlocks = 0

-----------------------------------------------------------------------------
(* Drafts.                                                                 *)

\* The clock; bounded so that the week after it has an order.
NextWeek ==
  /\ week < LastWeek - 1
  /\ week' = week + 1
  /\ UNCHANGED <<status, lines, list, opening, cutting, saving, approving,
                 completing, saves, unlocks>>

\* A page, or a simulated cutoff, which locks what it gets, finds no draft.
FindNoDraft(thenLock) ==
  opening' = opening \cup {[week |-> week, thenLock |-> thenLock]}

OpenPage ==
  /\ Room /\ Drafts = {}
  /\ FindNoDraft(FALSE)
  /\ UNCHANGED <<status, lines, list, week, cutting, saving, approving,
                 completing, saves, unlocks>>

\* The current week's row is inserted, or the next week's when there is one
\* already, or the draft somebody else made is taken.
GetOrCreateOrder(o) ==
  LET free == {w \in {o.week, o.week + 1} : status[w] = "none"}
      mine == IF o.week \in free THEN o.week ELSE o.week + 1
      got == IF free # {} THEN {mine} ELSE IF Drafts # {} THEN {Latest(Drafts)} ELSE {}
  IN  /\ o \in opening
      /\ opening' = opening \ {o}
      /\ status' = IF free # {} THEN [status EXCEPT ![mine] = "draft"] ELSE status
      /\ cutting' = IF o.thenLock THEN cutting \cup got ELSE cutting
      /\ UNCHANGED <<lines, list, week, saving, approving, completing, saves, unlocks>>

\* A page sends all the lines it shows; draft and, for an admin, locked orders
\* take them.  The status is read without a lock.
StartSave(w, keep) ==
  /\ Room /\ saves < MaxSaves
  /\ status[w] \in {"draft", "locked"}
  /\ saving' = saving \cup {[week |-> w, keep |-> keep, gone |-> Nothing]}
  /\ saves' = saves + 1
  /\ UNCHANGED <<status, lines, list, week, opening, cutting, approving,
                 completing, unlocks>>

\* The DELETE sees the lines committed so far, not those of another save.
SaveDeletes(s) ==
  /\ s \in saving /\ s.gone = Nothing
  /\ saving' = (saving \ {s}) \cup {[s EXCEPT !.gone = lines[s.week] \ s.keep]}
  /\ UNCHANGED <<status, lines, list, week, opening, cutting, approving,
                 completing, saves, unlocks>>

SaveCommits(s) ==
  /\ s \in saving /\ s.gone # Nothing
  /\ lines' = [lines EXCEPT ![s.week] = (@ \ s.gone) \cup s.keep]
  /\ saving' = saving \ {s}
  /\ UNCHANGED <<status, list, week, opening, cutting, approving, completing,
                 saves, unlocks>>

-----------------------------------------------------------------------------
(* Lock and unlock.                                                        *)

\* A bug: the next week's draft is left to whoever opens the page.
LockedAlone(w) == [status EXCEPT ![w] = "locked"]

\* LockPO: one UPDATE with the status in its WHERE, and the next week's draft.
Locked(w) ==
  [status EXCEPT ![w] = "locked",
                 ![w + 1] = IF @ = "none" THEN "draft" ELSE @]

LockPO(w) ==
  /\ status[w] = "draft" /\ w < LastWeek
  /\ status' = Locked(w)
  /\ UNCHANGED <<lines, list, week, opening, cutting, saving, approving,
                 completing, saves, unlocks>>

\* The scheduler's tick, or an admin's simulated cutoff: count, pick, lock.  The
\* cutoff has passed at every tick but those before it on its own weekday.
CutoffCheck ==
  /\ Room
  /\ \A w \in Weeks : status[w] # "locked"
  /\ cutting' = cutting \cup {Nothing}
  /\ UNCHANGED <<status, lines, list, week, opening, saving, approving,
                 completing, saves, unlocks>>

CutoffPicks ==
  /\ Nothing \in cutting
  /\ \/ /\ Drafts # {}
        /\ cutting' = (cutting \ {Nothing}) \cup {Latest(Drafts)}
        /\ UNCHANGED opening
     \/ /\ Drafts = {}
        /\ cutting' = cutting \ {Nothing}
        /\ FindNoDraft(TRUE) \/ UNCHANGED opening
  /\ UNCHANGED <<status, lines, list, week, saving, approving, completing,
                 saves, unlocks>>

CutoffLocks(w) ==
  /\ w \in cutting /\ w < LastWeek
  /\ cutting' = cutting \ {w}
  /\ status' = IF status[w] = "draft" THEN Locked(w) ELSE status
  /\ UNCHANGED <<lines, list, week, opening, saving, approving, completing,
                 saves, unlocks>>

\* The row an approval has updated is locked until it commits.
Held(w) == \E a \in approving : a.week = w /\ a.step = "updated"

UnlockPO(w) ==
  /\ unlocks < MaxUnlocks
  /\ status[w] = "locked" /\ ~Held(w)
  /\ status' = [status EXCEPT ![w] = "draft"]
  /\ unlocks' = unlocks + 1
  /\ UNCHANGED <<lines, list, week, opening, cutting, saving, approving,
                 completing, saves>>

-----------------------------------------------------------------------------
(* ApprovePO: no active list, then the order, then the list and its lines. *)

\* A bug: the count of active lists is not asked for.
NoCount(w) == TRUE

MayApprove(w) == ActiveLists = {}

\* beside: history, the approvals committed since this one counted.
StartApproval(w) ==
  /\ Room
  /\ status[w] = "locked" /\ MayApprove(w)
  /\ \A a \in approving : a.week # w
  /\ approving' = approving \cup
       {[week |-> w, step |-> "counted", vendors |-> {}, beside |-> {}]}
  /\ UNCHANGED <<status, lines, list, week, opening, cutting, saving,
                 completing, saves, unlocks>>

ApprovalUpdates(a) ==
  /\ a \in approving /\ a.step = "counted"
  /\ approving' =
       IF status[a.week] = "locked"
       THEN (approving \ {a}) \cup
              {[a EXCEPT !.step = "updated",
                         !.vendors = {VendorOf[g] : g \in lines[a.week]}]}
       ELSE approving \ {a}
  /\ UNCHANGED <<status, lines, list, week, opening, cutting, saving,
                 completing, saves, unlocks>>

NewList(a) ==
  [active |-> TRUE, pending |-> a.vendors, sections |-> a.vendors,
   items |-> {g \in lines[a.week] : VendorOf[g] \in a.vendors},
   beside |-> a.beside, overlap |-> FALSE]

ApprovalCommits(a) ==
  /\ a \in approving /\ a.step = "updated"
  /\ status' = [status EXCEPT ![a.week] = "shopping_active"]
  /\ list' = [list EXCEPT ![a.week] = NewList(a)]
  /\ approving' = {[b EXCEPT !.beside = @ \cup {a.week}] : b \in approving \ {a}}
  /\ UNCHANGED <<lines, week, opening, cutting, saving, completing, saves, unlocks>>

-----------------------------------------------------------------------------
(* CompleteVendorSection: the section, then the count of those pending.    *)

\* A bug: the section of this transaction is counted with the rest.
LastWithItself(w, v) == list[w].pending = {}

\* The count sees the transaction's own section as completed, and no other's.
IsLast(w, v) == list[w].pending = {v}

\* beside: history, another section was completed since this one counted.
StartCompletion(w, v) ==
  /\ Room
  /\ list[w] # Nothing /\ v \in list[w].pending
  /\ \A c \in completing : <<c.week, c.vendor>> # <<w, v>>
  /\ completing' = completing \cup
       {[week |-> w, vendor |-> v, last |-> IsLast(w, v), beside |-> FALSE]}
  /\ UNCHANGED <<status, lines, list, week, opening, cutting, saving, approving,
                 saves, unlocks>>

Beside(d, w) == [d EXCEPT !.beside = @ \/ d.week = w]

\* With the last section the list is completed, and with the list its order.
\* overlap: history, the section left pending had been counted beside another.
CompletionCommits(c) ==
  /\ c \in completing
  /\ completing' = {Beside(d, c.week) : d \in completing \ {c}}
  /\ list' = [list EXCEPT ![c.week].pending = @ \ {c.vendor},
                          ![c.week].active = @ /\ ~c.last,
                          ![c.week].overlap =
                            c.beside /\ list[c.week].pending = {c.vendor}]
  /\ status' = IF c.last THEN [status EXCEPT ![c.week] = "completed"] ELSE status
  /\ UNCHANGED <<lines, week, opening, cutting, saving, approving, saves, unlocks>>

OrderNext ==
  \/ NextWeek \/ OpenPage \/ CutoffCheck \/ CutoffPicks
  \/ \E o \in opening : GetOrCreateOrder(o)
  \/ \E w \in Weeks : \/ LockPO(w) \/ UnlockPO(w) \/ CutoffLocks(w) \/ StartApproval(w)
                      \/ \E keep \in SUBSET Goods : StartSave(w, keep)
                      \/ \E v \in Vendors : StartCompletion(w, v)
  \/ \E s \in saving : SaveDeletes(s) \/ SaveCommits(s)
  \/ \E a \in approving : ApprovalUpdates(a) \/ ApprovalCommits(a)
  \/ \E c \in completing : CompletionCommits(c)

OrderSpec == OrderInit /\ [][OrderNext]_orderVars

-----------------------------------------------------------------------------
\* The type of every variable.
OrderTypeOK ==
  /\ status \in [Weeks -> OrderStatuses]
  /\ lines \in [Weeks -> SUBSET Goods]
  /\ list \in [Weeks -> {Nothing} \cup Lists]
  /\ week \in 1..(LastWeek - 1)
  /\ opening \subseteq [week : 1..(LastWeek - 1), thenLock : BOOLEAN]
  /\ cutting \subseteq Weeks \cup {Nothing}
  /\ saving \subseteq [week : Weeks, keep : SUBSET Goods, gone : {Nothing} \cup SUBSET Goods]
  /\ approving \subseteq [week : Weeks, step : {"counted", "updated"},
                          vendors : SUBSET Vendors, beside : SUBSET Weeks]
  /\ completing \subseteq [week : Weeks, vendor : Vendors, last : BOOLEAN,
                           beside : BOOLEAN]
  /\ saves \in 0..MaxSaves /\ unlocks \in 0..MaxUnlocks

\* The Order tab always has a draft to show (GetOrCreateOrder's comment): once
\* there is an order, the latest is a draft, whatever is locked, unlocked,
\* simulated and created meanwhile.
LatestIsDraft == Orders # {} => status[Latest(Orders)] = "draft"

\* Two shopping lists are active only when their approvals overlapped: each had
\* counted before the other committed (ErrActiveShoppingListExists).
ActiveTogetherOverlapped ==
  \A v, w \in ActiveLists :
    v # w => v \in list[w].beside \/ w \in list[v].beside

\* A list whose sections are all completed is completed, and its order with it:
\* no list stays active with nothing to complete, which would have every later
\* approval refused.  Excepted are a list whose last section had been counted
\* before the one completed next to last was committed, and an order approved
\* without lines, which has no section to complete.
DoneListIsClosed ==
  \A w \in Weeks : list[w] # Nothing =>
    /\ list[w].active <=> status[w] = "shopping_active"
    /\ list[w].pending = {} =>
         ~list[w].active \/ list[w].overlap \/ list[w].sections = {}
=============================================================================
