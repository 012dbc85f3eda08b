----------------------------- MODULE PullProofs -----------------------------
(***************************************************************************)
(* Proofs about what comes down from the server: the keyset walk of the    *)
(* pull replicas, for any rows, expiry times, batch size, clocks and       *)
(* numbers of transactions and failures; and the scopes of the fill view,  *)
(* the page's entries with the registry and what the replications pull,    *)
(* for any crew, checklists, field sets, rows and numbers of visits,       *)
(* failures and writes.                                                    *)
(***************************************************************************)
EXTENDS PullReplica, ScopeRegistry, NumberLemmas, FiniteSetTheorems

-----------------------------------------------------------------------------
(* The pull replicas.                                                      *)

\* The keys of rows are in one order.
LEMMA KeyOrder ==
  ASSUME updatedAt \in [AllRows -> Nat]
  PROVE  /\ \A r \in AllRows : ~Before(Key(r), Key(r))
         /\ \A q, r \in AllRows : q = r \/ Before(Key(q), Key(r)) \/ Before(Key(r), Key(q))
         /\ \A p, q, r \in AllRows :
              Before(Key(p), Key(q)) /\ Before(Key(q), Key(r)) => Before(Key(p), Key(r))
<1>1. \A r \in AllRows : updatedAt[r] \in Nat /\ r \in Nat
  BY PullAssumption
<1>2. \A r \in AllRows : Key(r)[1] = updatedAt[r] /\ Key(r)[2] = r
  BY DEF Key
<1>3. \A q, r \in AllRows : Before(Key(q), Key(r)) <=>
        updatedAt[q] < updatedAt[r] \/ (updatedAt[q] = updatedAt[r] /\ q < r)
  BY <1>2 DEF Before
<1> QED
  BY <1>1, <1>3

\* The rows before a row of a set.
Below(S, r) == {q \in S : Before(Key(q), Key(r))}

LEMMA BelowCounts ==
  ASSUME NEW S \in SUBSET AllRows, NEW r \in AllRows
  PROVE  IsFiniteSet(Below(S, r)) /\ Cardinality(Below(S, r)) \in Nat
<1>1. IsFiniteSet(S)
  BY PullAssumption, FS_Subset
<1>2. Below(S, r) \subseteq S
  BY DEF Below
<1> QED
  BY <1>1, <1>2, FS_Subset, FS_CardinalityType

\* A later row has more rows before it.
LEMMA BelowGrows ==
  ASSUME updatedAt \in [AllRows -> Nat],
         NEW S \in SUBSET AllRows, NEW q \in AllRows, NEW r \in AllRows,
         Before(Key(q), Key(r))
  PROVE  /\ Cardinality(Below(S, q)) <= Cardinality(Below(S, r))
         /\ q \in S => Cardinality(Below(S, q)) < Cardinality(Below(S, r))
<1>1. Below(S, q) \subseteq Below(S, r)
  BY KeyOrder DEF Below
<1>2. IsFiniteSet(Below(S, r)) /\ Cardinality(Below(S, r)) \in Nat
  BY BelowCounts
<1>3. Cardinality(Below(S, q)) <= Cardinality(Below(S, r))
  BY <1>1, <1>2, FS_Subset
<1>4. ASSUME q \in S PROVE Cardinality(Below(S, q)) < Cardinality(Below(S, r))
  <2>1. q \in Below(S, r) /\ q \notin Below(S, q)
    BY <1>4, KeyOrder DEF Below
  <2>2. IsFiniteSet(Below(S, q)) /\ Cardinality(Below(S, q)) \in Nat
    BY BelowCounts
  <2>3. Cardinality(Below(S, q)) # Cardinality(Below(S, r))
    BY <1>1, <1>2, <2>1, FS_Subset
  <2> QED
    BY <1>2, <1>3, <2>2, <2>3
<1> QED
  BY <1>3, <1>4

\* A set of rows has a last one.
LEMMA LastRow ==
  ASSUME updatedAt \in [AllRows -> Nat], NEW S \in SUBSET AllRows, S # {}
  PROVE  \E m \in S : \A r \in S : ~Before(Key(m), Key(r))
<1> DEFINE size == Cardinality(S)
           Rest(r) == size - Cardinality(Below(S, r))
           T == {Rest(r) : r \in S}
<1>1. IsFiniteSet(S) /\ size \in Nat
  BY PullAssumption, FS_Subset, FS_CardinalityType
<1>2. \A r \in S : Cardinality(Below(S, r)) \in 0..size
  <2> TAKE r \in S
  <2>1. Below(S, r) \subseteq S
    BY DEF Below
  <2>2. Cardinality(Below(S, r)) <= size
    BY <1>1, <2>1, FS_Subset
  <2> QED
    BY <1>1, <2>2, BelowCounts
<1>3. T \subseteq Nat /\ T # {}
  BY <1>1, <1>2
<1>4. PICK n \in T : \A k \in T : n <= k
  <2> HIDE DEF T
  <2> QED
    BY <1>3, LeastExists
<1>5. PICK m \in S : n = Rest(m)
  OBVIOUS
<1>6. ASSUME NEW r \in S, Before(Key(m), Key(r)) PROVE FALSE
  <2>1. Cardinality(Below(S, m)) < Cardinality(Below(S, r))
    BY <1>6, BelowGrows
  <2>2. Rest(r) < n /\ Rest(r) \in Nat /\ n \in Nat
    BY <1>1, <1>2, <1>5, <2>1
  <2>3. n <= Rest(r)
    BY <1>4
  <2> HIDE DEF Rest, T
  <2> QED
    BY <2>2, <2>3
<1> QED
  BY <1>6

-----------------------------------------------------------------------------
(* One batch.                                                              *)

Found(rep) ==
  {r \in AllRows : updatedAt[r] # 0 /\ InWindow(rep, r) /\ After(r, cursor[rep])}

\* The rows of a batch come before the others that were found.
LEMMA BatchIsFirst ==
  ASSUME updatedAt \in [AllRows -> Nat], NEW rep,
         NEW m \in Batch(rep), NEW r \in Found(rep), ~Before(Key(m), Key(r))
  PROVE  r \in Batch(rep)
<1> DEFINE S == Found(rep)
<1>1. S \subseteq AllRows /\ Batch(rep) = {x \in S : Cardinality(Below(S, x)) < BatchSize}
  BY DEF Batch, Found, Below
<1>2. m \in AllRows /\ r \in AllRows
  BY <1>1
<1>3. r = m \/ Before(Key(r), Key(m))
  BY <1>2, KeyOrder
<1>4. CASE Before(Key(r), Key(m))
  <2> HIDE DEF S
  <2>1. Cardinality(Below(S, r)) <= Cardinality(Below(S, m))
    BY <1>1, <1>2, <1>4, BelowGrows
  <2>2. Cardinality(Below(S, m)) < BatchSize /\ BatchSize \in Nat
    BY <1>1, PullAssumption
  <2>3. Cardinality(Below(S, r)) \in Nat /\ Cardinality(Below(S, m)) \in Nat
    BY <1>1, <1>2, BelowCounts
  <2>4. Cardinality(Below(S, r)) < BatchSize
    BY <2>1, <2>2, <2>3
  <2> QED
    BY <1>1, <2>4 DEF S
<1> QED
  BY <1>3, <1>4

\* Where a batch leaves the checkpoint: at its last row, or where it was.
Moved(rep) ==
  IF Batch(rep) = {} THEN cursor[rep]
  ELSE CHOOSE k \in {Key(r) : r \in Batch(rep)} : \A r \in Batch(rep) : ~Before(k, Key(r))

LEMMA MovedToLast ==
  ASSUME updatedAt \in [AllRows -> Nat], NEW rep, Batch(rep) # {}
  PROVE  \E m \in Batch(rep) : Moved(rep) = Key(m) /\ \A r \in Batch(rep) : ~Before(Key(m), Key(r))
<1>1. Batch(rep) \subseteq AllRows
  BY DEF Batch
<1> DEFINE K == {Key(r) : r \in Batch(rep)}
           Last(k) == \A r \in Batch(rep) : ~Before(k, Key(r))
<1>2. \E k \in K : Last(k)
  BY <1>1, LastRow
<1>3. Moved(rep) \in K /\ Last(Moved(rep))
  BY <1>2, Zenon DEF Moved
<1> QED
  BY <1>3
-----------------------------------------------------------------------------
(* The inductive invariant.                                                *)

\* Inductive: nothing was written, or is passed, later than the last transaction,
\* so what a transaction writes is ahead of every checkpoint.
PullInv ==
  /\ PullTypeOK
  /\ \A r \in AllRows : updatedAt[r] <= transactions
  /\ \A rep \in Replicas : cursor[rep][1] <= transactions
  /\ KeysetSkipsNothing

LEMMA InitPull == PullInit => PullInv
<1> SUFFICES ASSUME PullInit PROVE PullInv
  OBVIOUS
<1> USE PullAssumption
<1>1. PullTypeOK
  <2>1. updatedAt \in [AllRows -> 0..MaxTransactions]
    BY DEF PullInit
  <2>2. local \in [Replicas -> [AllRows -> 0..MaxTransactions]]
    BY <2>1 DEF PullInit
  <2>3. cursor \in [Replicas -> (0..MaxTransactions) \X (AllRows \cup {0})]
    BY DEF PullInit
  <2>4. armed \in BOOLEAN /\ lastError \in BOOLEAN
    BY Zenon DEF PullInit
  <2>5. time \in 0..MaxTime /\ transactions \in 0..MaxTransactions /\ mishaps \in 0..MaxMishaps
    BY DEF PullInit
  <2>6. /\ skew \in Skews /\ clockOffset \in {0, 0 - skew} /\ pulling \subseteq Replicas
        /\ source \in {"awaiting", "settling", "ready"}
    BY DEF PullInit
  <2> QED
    BY <2>1, <2>2, <2>3, <2>4, <2>5, <2>6, Zenon DEF PullTypeOK
<1>2. KeysetSkipsNothing
  BY DEF PullInit, KeysetSkipsNothing
<1>3. \A rep \in Replicas : cursor[rep][1] <= transactions
  BY DEF PullInit
<1> QED
  BY <1>1, <1>2, <1>3 DEF PullInit, PullInv

\* What has not expired is in the window of every replica that is not exempt.
LEMMA UnexpiredInWindow ==
  ASSUME PullTypeOK, NEW rep \in {"codes", "offers"}, NEW r \in CodeRows,
         ExpiresAt[r] > time, rep = "offers" => skew <= 0
  PROVE  InWindow(rep, r)
<1>1. /\ time \in Int /\ skew \in Int /\ ExpiresAt[r] \in Int
      /\ CODES_WINDOW \in Nat /\ skew <= CODES_WINDOW
      /\ clockOffset = 0 \/ clockOffset = 0 - skew
  BY PullAssumption DEF PullTypeOK
<1>2. CASE rep = "codes"
  BY <1>1, <1>2 DEF InWindow, ClockNow
<1>3. CASE rep = "offers"
  BY <1>1, <1>3 DEF InWindow, ClockNow
<1> QED
  BY <1>2, <1>3

\* A batch keeps the invariant: of what it finds, whatever its last row passes is
\* in it.
LEMMA BatchKeeps ==
  ASSUME PullInv, NEW rep \in Replicas, PullBatch(rep)
  PROVE  PullInv'
<1> DEFINE B == Batch(rep)
<1>0. /\ PullTypeOK /\ KeysetSkipsNothing
      /\ updatedAt \in [AllRows -> Nat]
  BY PullAssumption DEF PullInv, PullTypeOK
<1>1. /\ B \subseteq AllRows
      /\ local' = [local EXCEPT ![rep] =
                     [r \in AllRows |-> IF r \in B THEN updatedAt[r] ELSE @[r]]]
      /\ cursor' = [cursor EXCEPT ![rep] = Moved(rep)]
      /\ pulling' \subseteq Replicas
      /\ lastError' \in BOOLEAN
      /\ source' \in {"awaiting", "settling", "ready"}
      /\ clockOffset' = 0 - skew
      /\ UNCHANGED <<time, skew, updatedAt, armed, transactions, mishaps>>
  <2>1. B \subseteq AllRows
    BY DEF Batch
  <2>2. cursor' = [cursor EXCEPT ![rep] = Moved(rep)]
    BY DEF PullBatch, Moved
  <2>3. lastError' \in BOOLEAN
    BY <1>0, Zenon DEF PullBatch, StillLatched, PullTypeOK
  <2>4. local' = [local EXCEPT ![rep] =
                     [r \in AllRows |-> IF r \in B THEN updatedAt[r] ELSE @[r]]]
    BY DEF PullBatch
  <2> HIDE DEF B
  <2> QED
    BY <1>0, <2>1, <2>2, <2>3, <2>4 DEF PullBatch, PullTypeOK, Captured
<1> HIDE DEF B
<1>2. /\ Moved(rep) \in (0..MaxTransactions) \X (AllRows \cup {0})
      /\ Moved(rep)[1] <= transactions
  <2>1. CASE B = {}
    BY <2>1 DEF B, Moved, PullInv, PullTypeOK
  <2>2. CASE B # {}
    <3>1. PICK m \in AllRows : Moved(rep) = Key(m)
      BY <1>0, <1>1, <2>2, MovedToLast DEF B
    <3>2. updatedAt[m] \in 0..MaxTransactions /\ updatedAt[m] <= transactions
      BY DEF PullInv, PullTypeOK
    <3> QED
      BY <3>1, <3>2 DEF Key
  <2> QED
    BY <2>1, <2>2
<1>3. PullTypeOK'
  <2>1. cursor' \in [Replicas -> (0..MaxTransactions) \X (AllRows \cup {0})]
    BY <1>0, <1>1, <1>2 DEF PullTypeOK
  <2>2. local' \in [Replicas -> [AllRows -> 0..MaxTransactions]]
    BY <1>0, <1>1 DEF PullTypeOK
  <2> QED
    BY <1>0, <1>1, <2>1, <2>2 DEF PullTypeOK
<1>4. \A x \in Replicas : cursor'[x][1] <= transactions'
  BY <1>0, <1>1, <1>2 DEF PullInv, PullTypeOK
<1>5. KeysetSkipsNothing'
  <2> SUFFICES ASSUME NEW x \in Replicas, NEW r \in AllRows,
                      updatedAt[r] # 0, ~Before(cursor'[x], Key(r)),
                      IF x = "campaigns" THEN r \in PolicyRows
                      ELSE r \in CodeRows /\ ExpiresAt[r] > time /\ (x = "offers" => skew <= 0)
               PROVE  local'[x][r] = updatedAt[r]
    BY <1>1 DEF KeysetSkipsNothing, Passed, Key
  <2>1. Passed(x, r) => local[x][r] = updatedAt[r]
    BY <1>0 DEF KeysetSkipsNothing
  <2>2. CASE x # rep
    BY <1>0, <1>1, <2>1, <2>2 DEF Passed, PullTypeOK
  <2>3. CASE x = rep
    <3>1. /\ cursor'[x] = Moved(rep)
          /\ local'[x][r] = IF r \in B THEN updatedAt[r] ELSE local[x][r]
      BY <1>0, <1>1, <2>3 DEF PullTypeOK
    <3>2. CASE Passed(x, r)
      BY <2>1, <3>1, <3>2
    <3>3. CASE ~Passed(x, r)
      <4>1. InWindow(x, r)
        <5>1. CASE x = "campaigns"
          BY <5>1 DEF InWindow
        <5>2. CASE x # "campaigns"
          BY <1>0, <5>2, UnexpiredInWindow DEF Replicas
        <5> QED
          BY <5>1, <5>2
      <4>2. r \in Found(rep)
        BY <2>3, <3>3, <4>1 DEF Found, After, Passed
      <4>3. B # {}
        BY <3>1, <3>3, <2>3 DEF Moved, Passed, B
      <4>4. PICK m \in B : Moved(rep) = Key(m)
        BY <1>0, <4>3, MovedToLast DEF B
      <4>5. r \in B
        BY <1>0, <3>1, <4>2, <4>4, BatchIsFirst DEF B
      <4> QED
        BY <3>1, <4>5
    <3> QED
      BY <3>2, <3>3
  <2> QED
    BY <2>2, <2>3
<1> QED
  BY <1>1, <1>3, <1>4, <1>5 DEF PullInv

\* So does a transaction: what it writes is ahead of every checkpoint.
LEMMA TransactionKeeps ==
  ASSUME PullInv, NEW S \in SUBSET AllRows, Transaction(S)
  PROVE  PullInv'
<1>0. /\ PullTypeOK /\ KeysetSkipsNothing
      /\ transactions' = transactions + 1 /\ transactions < MaxTransactions
      /\ transactions \in Nat /\ MaxTransactions \in Nat
      /\ updatedAt' = [r \in AllRows |-> IF r \in S THEN transactions' ELSE updatedAt[r]]
      /\ UNCHANGED <<time, skew, clockOffset, local, cursor, pulling, armed, source,
                     lastError, mishaps>>
  BY PullAssumption DEF PullInv, PullTypeOK, Transaction
<1>1. PullTypeOK'
  BY <1>0 DEF PullTypeOK
<1>2. /\ \A r \in AllRows : updatedAt'[r] <= transactions'
      /\ \A rep \in Replicas : cursor'[rep][1] <= transactions'
  BY <1>0 DEF PullInv, PullTypeOK
<1>3. ASSUME NEW rep \in Replicas, NEW r \in S PROVE Before(cursor[rep], <<updatedAt'[r], r>>)
  <2>1. cursor[rep][1] \in Nat /\ cursor[rep][1] <= transactions /\ updatedAt'[r] = transactions + 1
    BY <1>0, <1>3 DEF PullInv, PullTypeOK
  <2> QED
    BY <1>0, <2>1 DEF Before
<1>4. KeysetSkipsNothing'
  <2> SUFFICES ASSUME NEW x \in Replicas, NEW r \in AllRows,
                      updatedAt'[r] # 0, ~Before(cursor[x], <<updatedAt'[r], r>>),
                      IF x = "campaigns" THEN r \in PolicyRows
                      ELSE r \in CodeRows /\ ExpiresAt[r] > time /\ (x = "offers" => skew <= 0)
               PROVE  local[x][r] = updatedAt'[r]
    BY <1>0 DEF KeysetSkipsNothing, Passed, Key
  <2>1. updatedAt'[r] = updatedAt[r]
    BY <1>0, <1>3
  <2> QED
    BY <1>0, <2>1 DEF KeysetSkipsNothing, Passed, Key
<1> QED
  BY <1>1, <1>2, <1>4 DEF PullInv

LEMMA NextPull ==
  ASSUME PullInv, [PullNext]_pullVars
  PROVE  PullInv'
<1>0. PullTypeOK /\ KeysetSkipsNothing
  BY DEF PullInv
<1>1. ASSUME NEW S \in ((SUBSET CodeRows) \cup (SUBSET PolicyRows)) \ {{}}, Transaction(S)
      PROVE  PullInv'
  <2>1. S \in SUBSET AllRows
    BY DEF AllRows
  <2> QED
    BY <1>1, <2>1, TransactionKeeps, Zenon
<1>2. ASSUME NEW rep \in Replicas, PullBatch(rep) PROVE PullInv'
  BY <1>2, BatchKeeps
<1>3. CASE TimePasses
  <2>1. /\ time' = time + 1 /\ time \in Int
        /\ UNCHANGED <<skew, clockOffset, updatedAt, local, cursor, pulling, armed, source,
                       lastError, transactions, mishaps>>
    BY <1>0, <1>3 DEF TimePasses, PullTypeOK
  <2>2. PullTypeOK'
    BY <1>0, <1>3, PullAssumption DEF TimePasses, PullTypeOK
  <2>3. \A r \in CodeRows : ExpiresAt[r] > time' => ExpiresAt[r] > time
    BY <2>1, PullAssumption
  <2>4. KeysetSkipsNothing'
    BY <1>0, <2>1, <2>3 DEF KeysetSkipsNothing, Passed, Key
  <2> QED
    BY <2>1, <2>2, <2>4 DEF PullInv
<1>4. ASSUME \/ Arm \/ Resynced \/ Settles \/ ReloadScanner
             \/ \E rep \in Replicas : PullFails(rep)
             \/ UNCHANGED pullVars
      PROVE  PullInv'
  <2>1. UNCHANGED <<time, skew, clockOffset, updatedAt, local, cursor, transactions>>
    BY <1>4 DEF Arm, Resynced, Settles, ReloadScanner, PullFails, pullVars
  <2>2. lastError' \in BOOLEAN
    BY <1>0, <1>4 DEF Arm, Resynced, Settles, ReloadScanner, PullFails, pullVars, PullTypeOK
  <2>3. PullTypeOK'
    <3>1. /\ pulling' \subseteq Replicas /\ armed' \in BOOLEAN
          /\ source' \in {"awaiting", "settling", "ready"}
          /\ UNCHANGED skew
      BY <1>0, <1>4
      DEF Arm, Resynced, Settles, ReloadScanner, PullFails, pullVars, PullTypeOK
    <3>2. mishaps' \in 0..MaxMishaps
      BY <1>0, <1>4, PullAssumption
      DEF Arm, Resynced, Settles, ReloadScanner, PullFails, pullVars, PullTypeOK
    <3> QED
      BY <1>0, <2>1, <2>2, <3>1, <3>2 DEF PullTypeOK
  <2>4. KeysetSkipsNothing'
    BY <1>0, <2>1 DEF KeysetSkipsNothing, Passed, Key
  <2> QED
    BY <2>1, <2>3, <2>4 DEF PullInv
<1> QED
  BY <1>1, <1>2, <1>3, <1>4 DEF PullNext

LEMMA PullHolds == PullSpec => []PullInv
BY InitPull, NextPull, PTL DEF PullSpec

\* Every variable has its type, the checkpoints too.
THEOREM PullTypeCorrect == PullSpec => []PullTypeOK
<1>1. PullInv => PullTypeOK
  BY DEF PullInv
<1> QED
  BY <1>1, PullHolds, PTL

\* No checkpoint passes an unexpired row that the replica does not hold, whatever
\* ties, batches, clocks and failures there are.
THEOREM NothingSkipped == PullSpec => []KeysetSkipsNothing
<1>1. PullInv => KeysetSkipsNothing
  BY DEF PullInv
<1> QED
  BY <1>1, PullHolds, PTL

-----------------------------------------------------------------------------
(* The scopes.                                                             *)

Alive(h) == h.state \in {"opening", "live"}

\* The page's part of a state: its handles, the registry, the entries and the
\* closes that wait.
Typed(hs, reg, ent, cls) ==
  /\ hs \in Seq(Handles)
  /\ reg \in [Scopes -> 0..Len(hs)]
  /\ ent \in [Checklist -> 0..Len(hs)]
  /\ cls \subseteq Checklist \X (1..Len(hs))

\* An entry holds a live handle of its checklist that the registry holds too; a
\* live handle is registered and held, or about to be cancelled; nothing dead is
\* registered or about to be cancelled.
EntriesHold(hs, reg, ent) ==
  \A c \in Checklist : ent[c] # 0 =>
    /\ Alive(hs[ent[c]]) /\ hs[ent[c]].scope.checklist = c
    /\ reg[hs[ent[c]].scope] = ent[c]

HandlesHeld(hs, reg, ent, cls) ==
  \A i \in 1..Len(hs) : Alive(hs[i]) =>
    /\ reg[hs[i].scope] = i
    /\ ent[hs[i].scope.checklist] = i \/ <<hs[i].scope.checklist, i>> \in cls

ClosesFit(hs, cls) ==
  \A x \in cls : Alive(hs[x[2]]) /\ hs[x[2]].scope.checklist = x[1]

RegisteredAlive(hs, reg) ==
  \A s \in Scopes : reg[s] # 0 => Alive(hs[reg[s]]) /\ hs[reg[s]].scope = s

Agrees(hs, reg, ent, cls) ==
  /\ EntriesHold(hs, reg, ent)
  /\ HandlesHeld(hs, reg, ent, cls)
  /\ ClosesFit(hs, cls)
  /\ RegisteredAlive(hs, reg)

\* A handle waits for a database that is being made, and lives on one that is there.
StatesFit(hs, db) ==
  \A i \in 1..Len(hs) : /\ hs[i].state = "opening" => db \in {"creating", "ready"}
                        /\ hs[i].state = "live" => db = "ready"

\* Inductive.
PageInv ==
  /\ database \in {"none", "creating", "ready"} /\ crew \in Crew
  /\ Typed(handles, openScopes, fillEntry, closing)
  /\ Agrees(handles, openScopes, fillEntry, closing)
  /\ StatesFit(handles, database)
  /\ database = "ready" =>
       closing = {} /\ \A i \in 1..Len(handles) : handles[i].state # "opening"

LEMMA HandleScope ==
  ASSUME NEW hs \in Seq(Handles), NEW i \in 1..Len(hs)
  PROVE  hs[i].scope \in Scopes /\ hs[i].scope.checklist \in Checklist
<1>1. hs[i] \in Handles
  OBVIOUS
<1>2. hs[i].scope \in Scopes
  BY <1>1 DEF Handles
<1>3. \A s \in Scopes : s.checklist \in Checklist
  BY DEF Scopes
<1> QED
  BY <1>2, <1>3

-----------------------------------------------------------------------------
\* The promise reactions: what is cancelled leaves the registry, what waited lives,
\* and a handle a newer entry holds is not cancelled.
LEMMA SettleAgrees ==
  ASSUME NEW hs, NEW reg, NEW ent, NEW cls,
         Typed(hs, reg, ent, cls), Agrees(hs, reg, ent, cls),
         Settle(hs, reg, ent, cls)
  PROVE  /\ Typed(handles', openScopes', ent, closing')
         /\ Agrees(handles', openScopes', ent, closing')
         /\ closing' = {}
         /\ \A i \in 1..Len(handles') : handles'[i].state # "opening"
<1> DEFINE gone == Cancelled(ent, cls)
           starts == {i \in DOMAIN hs \ gone : hs[i].state = "opening"}
           New(i) == IF i \in gone THEN "cancelled" ELSE IF i \in starts THEN "live" ELSE hs[i].state
<1>1. DOMAIN hs = 1..Len(hs) /\ Len(hs) \in Nat
      /\ \A i \in 1..Len(hs) : hs[i] \in Handles
  BY DEF Typed
<1>2. /\ handles' = [i \in DOMAIN hs |->
                      [hs[i] EXCEPT !.state = IF i \in gone THEN "cancelled"
                                              ELSE IF i \in starts THEN "live" ELSE @]]
      /\ openScopes' = [s \in Scopes |->
                         IF \E i \in gone : hs[i].scope = s THEN 0 ELSE reg[s]]
      /\ closing' = {}
  BY DEF Settle
<1>3. /\ DOMAIN handles' = 1..Len(hs)
      /\ \A i \in 1..Len(hs) : /\ handles'[i].scope = hs[i].scope
                               /\ handles'[i].state = New(i)
                               /\ handles'[i] \in Handles
  <2>1. DOMAIN handles' = 1..Len(hs)
    BY <1>1, <1>2
  <2>2. ASSUME NEW i \in 1..Len(hs)
        PROVE  /\ handles'[i].scope = hs[i].scope
               /\ handles'[i].state = New(i)
               /\ handles'[i] \in Handles
    <3>1. hs[i] \in Handles /\ i \in DOMAIN hs
      BY <1>1
    <3>2. New(i) \in {"opening", "live", "cancelled", "rejected"}
      BY <3>1 DEF Handles
    <3>3. handles'[i] = [hs[i] EXCEPT !.state = New(i)]
      BY <1>2, <3>1
    <3> HIDE DEF New
    <3> QED
      BY <3>1, <3>2, <3>3 DEF Handles
  <2> QED
    BY <2>1, <2>2
<1> HIDE DEF New
<1>4. handles' \in Seq(Handles) /\ Len(handles') = Len(hs)
  <2>1. \E F : handles' = [i \in 1..Len(hs) |-> F[i]]
    <3>1. handles' = [i \in 1..Len(hs) |-> handles'[i]]
      BY <1>1, <1>2
    <3> QED
      BY <3>1
  <2>2. handles' \in [1..Len(hs) -> Handles]
    BY <1>3, <2>1
  <2> QED
    BY <1>1, <2>2
<1>5. \A i \in 1..Len(hs) : i \in gone <=>
        \E y \in cls : y[2] = i /\ ent[y[1]] # i
  BY DEF Cancelled
<1> HIDE DEF gone
\* a handle that is cancelled was alive, and no entry holds it
<1>6. ASSUME NEW i \in 1..Len(hs), i \in gone
      PROVE  Alive(hs[i]) /\ ent[hs[i].scope.checklist] # i /\ reg[hs[i].scope] = i
  <2>1. PICK y \in cls : y[2] = i /\ ent[y[1]] # i
    BY <1>5, <1>6
  <2>2. Alive(hs[i]) /\ hs[i].scope.checklist = y[1]
    BY <2>1 DEF Agrees, ClosesFit
  <2>3. reg[hs[i].scope] = i
    BY <2>2 DEF Agrees, HandlesHeld
  <2> QED
    BY <2>1, <2>2, <2>3
<1>7. gone \subseteq 1..Len(hs)
  BY DEF gone, Cancelled, Typed
\* what is alive afterwards was, and is not cancelled
<1>8. ASSUME NEW i \in 1..Len(hs)
      PROVE  Alive(handles'[i]) <=> Alive(hs[i]) /\ i \notin gone
  <2>1. hs[i].state \in {"opening", "live", "cancelled", "rejected"}
    BY <1>1 DEF Handles
  <2> QED
    BY <1>1, <1>3, <2>1 DEF Alive, New
\* and is registered still
<1>9. ASSUME NEW i \in 1..Len(hs), Alive(hs[i]), i \notin gone
      PROVE  openScopes'[hs[i].scope] = i
  <2>1. hs[i].scope \in Scopes /\ reg[hs[i].scope] = i
    BY <1>1, <1>9 DEF Handles, Agrees, HandlesHeld
  <2>2. ~ \E j \in gone : hs[j].scope = hs[i].scope
    BY <1>6, <1>7, <1>9, <2>1
  <2> QED
    BY <1>2, <2>1, <2>2
<1>10. Typed(handles', openScopes', ent, closing')
  BY <1>1, <1>2, <1>4 DEF Typed
<1>11. EntriesHold(handles', openScopes', ent)
  <2> SUFFICES ASSUME NEW c \in Checklist, ent[c] # 0
               PROVE  /\ Alive(handles'[ent[c]]) /\ handles'[ent[c]].scope.checklist = c
                      /\ openScopes'[handles'[ent[c]].scope] = ent[c]
    BY DEF EntriesHold
  <2>1. ent[c] \in 1..Len(hs) /\ Alive(hs[ent[c]]) /\ hs[ent[c]].scope.checklist = c
    BY <1>1 DEF Typed, Agrees, EntriesHold
  <2>2. ent[c] \notin gone
    BY <1>6, <2>1
  <2> QED
    BY <1>3, <1>8, <1>9, <2>1, <2>2
<1>12. HandlesHeld(handles', openScopes', ent, closing')
  <2> SUFFICES ASSUME NEW i \in 1..Len(hs), Alive(handles'[i])
               PROVE  /\ openScopes'[hs[i].scope] = i
                      /\ ent[hs[i].scope.checklist] = i
    <3>1. Len(handles') = Len(hs) /\ \A i \in 1..Len(hs) : handles'[i].scope = hs[i].scope
      BY <1>3, <1>4
    <3> QED
      BY <3>1, Zenon DEF HandlesHeld
  <2>1. Alive(hs[i]) /\ i \notin gone
    BY <1>8
  <2>2. ent[hs[i].scope.checklist] = i \/ <<hs[i].scope.checklist, i>> \in cls
    BY <2>1 DEF Agrees, HandlesHeld
  <2>3. ASSUME <<hs[i].scope.checklist, i>> \in cls PROVE ent[hs[i].scope.checklist] = i
    <3> DEFINE y == <<hs[i].scope.checklist, i>>
    <3>1. y \in cls /\ y[2] = i /\ y[1] = hs[i].scope.checklist
      BY <2>3
    <3> QED
      BY <1>5, <2>1, <3>1
  <2>4. openScopes'[hs[i].scope] = i
    BY <1>9, <2>1
  <2> QED
    BY <2>2, <2>3, <2>4
<1>13. ClosesFit(handles', closing')
  BY <1>2 DEF ClosesFit
<1>14. RegisteredAlive(handles', openScopes')
  <2> SUFFICES ASSUME NEW s \in Scopes, openScopes'[s] # 0
               PROVE  Alive(handles'[openScopes'[s]]) /\ handles'[openScopes'[s]].scope = s
    BY DEF RegisteredAlive
  <2>1. /\ openScopes'[s] = reg[s] /\ reg[s] # 0
        /\ ~ \E i \in gone : hs[i].scope = s
    BY <1>2
  <2>2. reg[s] \in 1..Len(hs) /\ Alive(hs[reg[s]]) /\ hs[reg[s]].scope = s
    BY <1>1, <2>1 DEF Typed, Agrees, RegisteredAlive
  <2> QED
    BY <1>3, <1>8, <2>1, <2>2
<1>15. \A i \in 1..Len(hs) : handles'[i].state # "opening"
  BY <1>1, <1>3 DEF New
<1> QED
  BY <1>2, <1>4, <1>10, <1>11, <1>12, <1>13, <1>14, <1>15 DEF Agrees

\* Where the page goes on, it leaves the invariant.
LEMMA RunKeeps ==
  ASSUME NEW hs, NEW reg, NEW ent, NEW cls,
         Typed(hs, reg, ent, cls), Agrees(hs, reg, ent, cls),
         StatesFit(hs, database'), Run(hs, reg, ent, cls),
         database' \in {"none", "creating", "ready"}, crew' \in Crew
  PROVE  PageInv'
<1>0. fillEntry' = ent
  BY DEF Run
<1>1. CASE database' = "ready"
  <2>1. Settle(hs, reg, ent, cls)
    BY <1>1 DEF Run
  <2>2. /\ Typed(handles', openScopes', fillEntry', closing')
        /\ Agrees(handles', openScopes', fillEntry', closing')
        /\ closing' = {}
        /\ \A i \in 1..Len(handles') : handles'[i].state # "opening"
    BY <1>0, <2>1, SettleAgrees
  <2>3. StatesFit(handles', database')
    BY <1>1 DEF StatesFit
  <2> QED
    BY <1>1, <2>2, <2>3 DEF PageInv
<1>2. CASE database' # "ready"
  BY <1>0, <1>2 DEF Run, PageInv
<1> QED
  BY <1>1, <1>2
-----------------------------------------------------------------------------
LEMMA InitPage == ScopeInit => PageInv
<1> SUFFICES ASSUME ScopeInit PROVE PageInv
  OBVIOUS
<1>1. handles = <<>> /\ handles \in Seq(Handles) /\ Len(handles) = 0
  BY DEF ScopeInit
<1>2. Typed(handles, openScopes, fillEntry, closing)
  BY <1>1 DEF ScopeInit, Typed
<1>3. Agrees(handles, openScopes, fillEntry, closing)
  BY <1>1 DEF ScopeInit, Agrees, EntriesHold, HandlesHeld, ClosesFit, RegisteredAlive
<1> QED
  BY <1>1, <1>2, <1>3 DEF ScopeInit, PageInv, StatesFit

\* What is closed had an entry; its handle waits for the cancel.
LEMMA ClosesAre ==
  ASSUME PageInv
  PROVE  /\ Closes \subseteq Checklist \X (1..Len(handles))
         /\ ClosesFit(handles, closing \cup Closes)
         /\ \A c \in Checklist, i \in 1..Len(handles) :
              fillEntry[c] = i => <<c, i>> \in Closes
<1>1. /\ Len(handles) \in Nat
      /\ \A c \in Checklist : fillEntry[c] \in 0..Len(handles)
  BY DEF PageInv, Typed
<1>2. Closes \subseteq Checklist \X (1..Len(handles))
  BY <1>1 DEF Closes
<1>3. ASSUME NEW x \in Closes
      PROVE  Alive(handles[x[2]]) /\ handles[x[2]].scope.checklist = x[1]
  BY DEF Closes, PageInv, Agrees, EntriesHold
<1>4. ClosesFit(handles, closing \cup Closes)
  BY <1>3 DEF PageInv, Agrees, ClosesFit
<1>5. \A c \in Checklist, i \in 1..Len(handles) : fillEntry[c] = i => <<c, i>> \in Closes
  BY <1>1 DEF Closes
<1> QED
  BY <1>2, <1>4, <1>5

\* A visit gets an entry: what it joins is not rejected, and what it makes waits.
LEMMA VisitGetsEntry ==
  ASSUME PageInv, NEW s \in Scopes
  PROVE  EntryOf(s) = HandleOf(s) /\ HandleOf(s) # 0
<1>1. Len(handles) \in Nat /\ handles \in Seq(Handles) /\ openScopes[s] \in 0..Len(handles)
  BY DEF PageInv, Typed
<1>2. CASE openScopes[s] # 0
  <2>1. handles[openScopes[s]].state \in {"opening", "live"}
    BY <1>2 DEF PageInv, Agrees, RegisteredAlive, Alive
  <2> QED
    BY <1>2, <2>1 DEF EntryOf, HandleOf, HandlesWith
<1>3. CASE openScopes[s] = 0
  <2> DEFINE new == [scope |-> s, state |-> "opening"]
  <2>1. new \in Handles /\ new.state = "opening"
    BY DEF Handles
  <2>2. HandlesWith(s) = Append(handles, new) /\ HandleOf(s) = Len(handles) + 1
    BY <1>3 DEF HandlesWith, HandleOf
  <2> HIDE DEF new
  <2>3. HandlesWith(s)[HandleOf(s)] = new
    BY <1>1, <2>1, <2>2
  <2>4. EntryOf(s) = HandleOf(s)
    BY <2>1, <2>3 DEF EntryOf
  <2> QED
    BY <1>1, <2>2, <2>4
<1> QED
  BY <1>2, <1>3

LEMMA VisitKeeps ==
  ASSUME PageInv, NEW c \in Checklist, NEW fields \in FieldSet, Visit(c, fields)
  PROVE  PageInv'
<1> DEFINE s == [user |-> crew, checklist |-> c, fields |-> fields]
           h == HandleOf(s)
           hs == HandlesWith(s)
           reg == [openScopes EXCEPT ![s] = h]
           ent == [NoEntries EXCEPT ![c] = h]
           cls == closing \cup Closes
<1>1. /\ s \in Scopes /\ s.checklist = c
      /\ Len(handles) \in Nat /\ handles \in Seq(Handles)
      /\ openScopes \in [Scopes -> 0..Len(handles)]
      /\ closing \subseteq Checklist \X (1..Len(handles))
  BY DEF PageInv, Typed, Scopes
<1>2. Run(hs, reg, ent, cls) /\ crew' \in Crew
      /\ database' = IF openScopes[s] = 0 /\ database = "none" THEN "creating"
                     ELSE database
  <2>1. EntryOf(s) = h
    BY <1>1, VisitGetsEntry
  <2> QED
    BY <2>1 DEF Visit, PageInv
<1> HIDE DEF s
<1> DEFINE new == [scope |-> s, state |-> "opening"]
<1>3. new \in Handles
  BY <1>1 DEF Handles
<1>4. CASE openScopes[s] # 0
  <2>1. h = openScopes[s] /\ hs = handles /\ h \in 1..Len(handles) /\ reg = openScopes
    BY <1>1, <1>4 DEF HandleOf, HandlesWith
  <2>2. Alive(handles[h]) /\ handles[h].scope = s
    BY <1>1, <1>4, <2>1 DEF PageInv, Agrees, RegisteredAlive
  <2>3. /\ ent \in [Checklist -> 0..Len(handles)]
        /\ \A d \in Checklist : ent[d] = IF d = c THEN h ELSE 0
    BY <1>1, <2>1 DEF NoEntries
  <2> HIDE DEF h, hs, reg, ent
  <2>4. Typed(hs, reg, ent, cls)
    BY <1>1, <2>1, <2>3, ClosesAre DEF Typed
  <2>5. EntriesHold(hs, reg, ent)
    BY <1>1, <2>1, <2>2, <2>3 DEF EntriesHold
  <2>6. HandlesHeld(hs, reg, ent, cls)
    <3>1. ASSUME NEW i \in 1..Len(handles), Alive(handles[i])
          PROVE  /\ openScopes[handles[i].scope] = i
                 /\ <<handles[i].scope.checklist, i>> \in cls
      <4>1. handles[i].scope.checklist \in Checklist
        BY <1>1, HandleScope
      <4> QED
        BY <3>1, <4>1, ClosesAre DEF PageInv, Agrees, HandlesHeld
    <3> QED
      BY <2>1, <3>1, Zenon DEF HandlesHeld
  <2>7. ClosesFit(hs, cls) /\ RegisteredAlive(hs, reg)
    BY <2>1, ClosesAre DEF PageInv, Agrees
  <2>8. StatesFit(hs, database')
    BY <1>2, <2>1 DEF PageInv, StatesFit
  <2> QED
    BY <1>2, <2>4, <2>5, <2>6, <2>7, <2>8, RunKeeps DEF Agrees, PageInv
<1>5. CASE openScopes[s] = 0
  <2>1. /\ h = Len(handles) + 1 /\ hs = Append(handles, new)
        /\ hs \in Seq(Handles) /\ Len(hs) = Len(handles) + 1
        /\ hs[h] = new
        /\ \A i \in 1..Len(handles) : hs[i] = handles[i]
    <3>1. h = Len(handles) + 1 /\ hs = Append(handles, new)
      BY <1>5 DEF HandleOf, HandlesWith
    <3> HIDE DEF new, h, hs
    <3> QED
      BY <1>1, <1>3, <3>1
  <2>2. /\ reg \in [Scopes -> 0..Len(hs)]
        /\ reg[s] = h /\ \A x \in Scopes : x # s => reg[x] = openScopes[x]
    BY <1>1, <2>1
  <2>3. /\ ent \in [Checklist -> 0..Len(hs)]
        /\ \A d \in Checklist : ent[d] = IF d = c THEN h ELSE 0
    BY <1>1, <2>1 DEF NoEntries
  <2> HIDE DEF h, hs, reg, ent
  <2>4. Alive(hs[h]) /\ hs[h].scope = s /\ h # 0
    BY <1>1, <2>1 DEF Alive
  <2>5. Typed(hs, reg, ent, cls)
    BY <1>1, <2>1, <2>2, <2>3, ClosesAre DEF Typed
  <2>6. EntriesHold(hs, reg, ent)
    BY <1>1, <2>2, <2>3, <2>4 DEF EntriesHold
  <2>7. HandlesHeld(hs, reg, ent, cls)
    <3>1. ASSUME NEW i \in 1..Len(handles), Alive(hs[i])
          PROVE  /\ reg[hs[i].scope] = i
                 /\ <<hs[i].scope.checklist, i>> \in cls
      <4>1. hs[i] = handles[i] /\ handles[i].scope \in Scopes
            /\ handles[i].scope.checklist \in Checklist
        BY <1>1, <2>1, HandleScope
      <4>2. openScopes[handles[i].scope] = i
        BY <3>1, <4>1 DEF PageInv, Agrees, HandlesHeld
      <4>3. handles[i].scope # s
        BY <1>5, <4>2
      <4>4. <<handles[i].scope.checklist, i>> \in cls
        BY <3>1, <4>1, ClosesAre DEF PageInv, Agrees, HandlesHeld
      <4> QED
        BY <2>2, <4>1, <4>2, <4>3, <4>4
    <3>2. reg[hs[h].scope] = h /\ ent[hs[h].scope.checklist] = h
      BY <1>1, <2>2, <2>3, <2>4
    <3>3. \A i \in 1..Len(hs) : i \in 1..Len(handles) \/ i = h
      BY <1>1, <2>1
    <3> QED
      BY <3>1, <3>2, <3>3, Zenon DEF HandlesHeld
  <2>8. ClosesFit(hs, cls)
    <3>1. \A x \in cls : x[2] \in 1..Len(handles)
      BY <1>1, ClosesAre
    <3> QED
      BY <2>1, <3>1, ClosesAre DEF ClosesFit
  <2>9. RegisteredAlive(hs, reg)
    <3> SUFFICES ASSUME NEW x \in Scopes, reg[x] # 0
                 PROVE  Alive(hs[reg[x]]) /\ hs[reg[x]].scope = x
      BY DEF RegisteredAlive
    <3>1. CASE x = s
      BY <2>2, <2>4, <3>1
    <3>2. CASE x # s
      <4>1. reg[x] = openScopes[x] /\ openScopes[x] \in 1..Len(handles)
        BY <1>1, <2>2, <3>2
      <4> QED
        BY <2>1, <4>1 DEF PageInv, Agrees, RegisteredAlive
    <3> QED
      BY <3>1, <3>2
  <2>10. StatesFit(hs, database')
    <3>1. database' \in {"creating", "ready"} /\ (database = "ready" => database' = "ready")
      BY <1>2, <1>5 DEF PageInv
    <3>2. ASSUME NEW i \in 1..Len(handles)
          PROVE  hs[i].state = "live" => database' = "ready"
      BY <2>1, <3>1 DEF PageInv, StatesFit
    <3>3. hs[h].state = "opening"
      BY <2>1
    <3>4. \A i \in 1..Len(hs) : i \in 1..Len(handles) \/ i = h
      BY <1>1, <2>1
    <3> QED
      BY <3>1, <3>2, <3>3, <3>4 DEF StatesFit
  <2>11. database' \in {"none", "creating", "ready"}
    BY <1>2 DEF PageInv
  <2> QED
    BY <1>2, <2>5, <2>6, <2>7, <2>8, <2>9, <2>10, <2>11, RunKeeps DEF Agrees
<1> QED
  BY <1>4, <1>5

LEMMA LeaveKeeps ==
  ASSUME PageInv, Leave
  PROVE  PageInv'
<1>1. /\ Run(handles, openScopes, NoEntries, closing \cup Closes)
      /\ database' = database /\ crew' = crew
  BY DEF Leave
<1>2. /\ Len(handles) \in Nat /\ handles \in Seq(Handles)
      /\ openScopes \in [Scopes -> 0..Len(handles)]
      /\ closing \subseteq Checklist \X (1..Len(handles))
  BY DEF PageInv, Typed
<1>3. Typed(handles, openScopes, NoEntries, closing \cup Closes)
  BY <1>2, ClosesAre DEF Typed, NoEntries
<1>4. HandlesHeld(handles, openScopes, NoEntries, closing \cup Closes)
  <2> SUFFICES ASSUME NEW i \in 1..Len(handles), Alive(handles[i])
               PROVE  /\ openScopes[handles[i].scope] = i
                      /\ <<handles[i].scope.checklist, i>> \in closing \cup Closes
    BY Zenon DEF HandlesHeld
  <2>1. handles[i].scope.checklist \in Checklist
    BY <1>2, HandleScope
  <2> QED
    BY <2>1, ClosesAre DEF PageInv, Agrees, HandlesHeld
<1>5. Agrees(handles, openScopes, NoEntries, closing \cup Closes)
  BY <1>4, ClosesAre DEF PageInv, Agrees, EntriesHold, NoEntries
<1>6. StatesFit(handles, database')
  BY <1>1 DEF PageInv
<1> QED
  BY <1>1, <1>3, <1>5, <1>6, RunKeeps DEF PageInv

LEMMA DatabaseOpensKeeps ==
  ASSUME PageInv, DatabaseOpens
  PROVE  PageInv'
<1>1. /\ Run(handles, openScopes, fillEntry, closing)
      /\ database' = "ready" /\ crew' = crew
  BY DEF DatabaseOpens
<1>2. StatesFit(handles, database')
  BY <1>1 DEF StatesFit
<1> QED
  BY <1>1, <1>2, RunKeeps DEF PageInv

\* While the database is being made every live handle waits for it, so without one
\* none is left.
LEMMA DatabaseFailsKeeps ==
  ASSUME PageInv, DatabaseFails
  PROVE  PageInv'
<1>1. /\ database = "creating" /\ database' = "none" /\ crew' = crew
      /\ openScopes' = EvictRejected(openScopes) /\ fillEntry' = NoEntries
      /\ closing' = {}
      /\ handles' = [i \in DOMAIN handles |->
                      [handles[i] EXCEPT !.state = IF @ = "opening" THEN "rejected" ELSE @]]
  BY DEF DatabaseFails
<1>2. /\ Len(handles) \in Nat /\ DOMAIN handles = 1..Len(handles)
      /\ \A i \in 1..Len(handles) : handles[i] \in Handles
      /\ openScopes \in [Scopes -> 0..Len(handles)]
  BY DEF PageInv, Typed
<1>3. ASSUME NEW i \in 1..Len(handles)
      PROVE  handles'[i] \in Handles /\ ~Alive(handles'[i])
  <2>1. handles[i] \in Handles /\ handles[i].state # "live"
    BY <1>1, <1>2 DEF PageInv, StatesFit
  <2>2. handles'[i] = [handles[i] EXCEPT !.state = IF @ = "opening" THEN "rejected" ELSE @]
    BY <1>1, <1>2
  <2> QED
    BY <2>1, <2>2 DEF Handles, Alive
<1>4. handles' \in Seq(Handles) /\ Len(handles') = Len(handles)
  <2>1. handles' \in [1..Len(handles) -> Handles]
    <3>1. handles' = [i \in 1..Len(handles) |-> handles'[i]]
      BY <1>1, <1>2
    <3> QED
      BY <1>3, <3>1
  <2> QED
    BY <1>2, <2>1
<1>5. \A s \in Scopes : openScopes'[s] = 0
  <2> TAKE s \in Scopes
  <2>1. openScopes[s] # 0 => handles[openScopes[s]].state = "opening"
    <3> SUFFICES ASSUME openScopes[s] # 0 PROVE handles[openScopes[s]].state = "opening"
      OBVIOUS
    <3>1. openScopes[s] \in 1..Len(handles) /\ Alive(handles[openScopes[s]])
      BY <1>2 DEF PageInv, Agrees, RegisteredAlive
    <3> QED
      BY <1>1, <3>1 DEF PageInv, StatesFit, Alive
  <2> QED
    BY <1>1, <2>1 DEF EvictRejected
<1>6. openScopes' \in [Scopes -> 0..Len(handles')]
  BY <1>1, <1>2, <1>4, <1>5 DEF EvictRejected
<1>7. Typed(handles', openScopes', fillEntry', closing')
  BY <1>1, <1>2, <1>4, <1>6 DEF Typed, NoEntries
<1>8. Agrees(handles', openScopes', fillEntry', closing')
  <2>1. EntriesHold(handles', openScopes', fillEntry')
    BY <1>1 DEF EntriesHold, NoEntries
  <2>2. HandlesHeld(handles', openScopes', fillEntry', closing')
    <3>1. \A i \in 1..Len(handles') : ~Alive(handles'[i])
      BY <1>3, <1>4
    <3> QED
      BY <3>1, Zenon DEF HandlesHeld
  <2>3. ClosesFit(handles', closing') /\ RegisteredAlive(handles', openScopes')
    BY <1>1, <1>5 DEF ClosesFit, RegisteredAlive
  <2> QED
    BY <2>1, <2>2, <2>3 DEF Agrees
<1>9. StatesFit(handles', database')
  BY <1>3, <1>4 DEF StatesFit, Alive
<1> QED
  BY <1>1, <1>7, <1>8, <1>9 DEF PageInv

LEMMA ReloadKeeps ==
  ASSUME PageInv, NEW u \in Crew, Reload(u)
  PROVE  PageInv'
<1>1. /\ handles' = <<>> /\ Len(handles') = 0 /\ handles' \in Seq(Handles)
      /\ openScopes' = [s \in Scopes |-> 0] /\ fillEntry' = NoEntries /\ closing' = {}
      /\ database' = "none" /\ crew' \in Crew
  BY DEF Reload
<1>2. Typed(handles', openScopes', fillEntry', closing')
  BY <1>1 DEF Typed, NoEntries
<1>3. Agrees(handles', openScopes', fillEntry', closing')
  BY <1>1 DEF Agrees, EntriesHold, HandlesHeld, ClosesFit, RegisteredAlive, NoEntries
<1> QED
  BY <1>1, <1>2, <1>3 DEF PageInv, StatesFit

LEMMA NextPage ==
  ASSUME PageInv, [ScopeNext]_scopeVars
  PROVE  PageInv'
<1>1. CASE UNCHANGED pageVars
  BY <1>1 DEF pageVars, PageInv, Typed, Agrees, EntriesHold, HandlesHeld, ClosesFit,
              RegisteredAlive, StatesFit
<1>2. ASSUME \/ \E r \in SyncRow : ServerWrites(r)
             \/ \E id \in Identifiers : Resync(id) \/ Drop(id) \/ Rejoin(id)
             \/ \E id \in Identifiers, r \in SyncRow : Deliver(id, r)
             \/ UNCHANGED scopeVars
      PROVE  UNCHANGED pageVars
  BY <1>2 DEF ServerWrites, Resync, Deliver, Drop, Rejoin, scopeVars
<1> QED
  BY <1>1, <1>2, VisitKeeps, LeaveKeeps, DatabaseOpensKeeps, DatabaseFailsKeeps, ReloadKeeps
  DEF ScopeNext

LEMMA PageHolds == ScopeSpec => []PageInv
BY InitPage, NextPage, PTL DEF ScopeSpec

\* The page's entries and the registry agree, in whatever order checklists are
\* opened and closed, the database is made or fails, and the page is loaded again.
THEOREM RegistryNeverDisagrees == ScopeSpec => []RegistryAgrees
<1>1. PageInv => RegistryAgrees
  <2> SUFFICES ASSUME PageInv PROVE RegistryAgrees
    OBVIOUS
  <2>1. DOMAIN handles = 1..Len(handles)
    BY DEF PageInv, Typed
  <2>2. \A c \in Checklist : fillEntry[c] # 0 =>
          /\ handles[fillEntry[c]].state \in {"opening", "live"}
          /\ openScopes[handles[fillEntry[c]].scope] = fillEntry[c]
    BY DEF PageInv, Agrees, EntriesHold, Alive
  <2>3. \A i \in DOMAIN handles : handles[i].state \in {"opening", "live"} =>
          /\ openScopes[handles[i].scope] = i
          /\ \/ fillEntry[handles[i].scope.checklist] = i
             \/ <<handles[i].scope.checklist, i>> \in closing
    BY <2>1 DEF PageInv, Agrees, HandlesHeld, Alive
  <2>4. database = "ready" => closing = {}
    BY DEF PageInv
  <2> QED
    BY <2>2, <2>3, <2>4, Zenon DEF RegistryAgrees
<1> QED
  BY <1>1, PageHolds, PTL

\* Whoever opens a checklist gets an entry, whatever failed before: the registry
\* holds no handle that was rejected.
THEOREM VisitsTryAgain == ScopeSpec => RetryReopens
<1> DEFINE Gets == \A c \in Checklist, f \in FieldSet : Visit(c, f) => fillEntry'[c] # 0
<1>1. ASSUME PageInv PROVE Gets
  <2> SUFFICES ASSUME NEW c \in Checklist, NEW f \in FieldSet, Visit(c, f)
               PROVE  fillEntry'[c] # 0
    OBVIOUS
  <2> DEFINE s == [user |-> crew, checklist |-> c, fields |-> f]
  <2>1. fillEntry' = [NoEntries EXCEPT ![c] = EntryOf(s)]
    BY DEF Visit, Run
  <2>2. s \in Scopes
    BY <1>1 DEF PageInv, Scopes
  <2> HIDE DEF s
  <2>3. EntryOf(s) # 0
    BY <1>1, <2>2, VisitGetsEntry
  <2> QED
    BY <2>1, <2>3 DEF NoEntries
<1>2. ScopeSpec => [][Gets]_scopeVars
  BY <1>1, PageHolds, PTL DEF ScopeSpec
<1> QED
  BY <1>2 DEF RetryReopens


-----------------------------------------------------------------------------
(* What the replications have pulled.                                      *)

Legs == {"off", "resync", "stream", "lost"}

\* The types of what the page does not decide.
DataTyped ==
  /\ modified \in [SyncRow -> 0..MaxWrites] /\ replica \in [SyncRow -> 0..MaxWrites]
  /\ checkpoint \in [Identifiers -> 0..MaxWrites]
  /\ leg \in [Identifiers -> Legs]
  /\ events \in [Identifiers -> SUBSET SyncRow]

\* The page makes handles for the crew member who is signed in, and only their
\* replications run: nobody else's checkpoint moves.
OfTheCrew ==
  /\ \A i \in 1..Len(handles) : handles[i].scope.user = crew
  /\ \A id \in Identifiers : leg[id] # "off" => id.user = crew

\* A write has a version of its own, newer than all there were; only what was
\* written is on its way.
Versions ==
  /\ \A r \in SyncRow : modified[r] <= writes
  /\ \A r, q \in SyncRow : modified[r] = modified[q] /\ modified[r] # 0 => r = q
  /\ \A id \in Identifiers : /\ checkpoint[id] <= writes
                             /\ \A r \in events[id] : modified[r] # 0

Meant(id, r) == id.user \in r.readers /\ InFilter(id, r)

\* A checkpoint is never past a row of its scope that the phone does not have.
CheckpointSound ==
  \A id \in Identifiers, r \in SyncRow :
    Meant(id, r) /\ modified[r] <= checkpoint[id] => replica[r] = modified[r]

\* A replication that has pulled misses no more than what is on its way to it.
StreamSound ==
  \A id \in Identifiers, r \in SyncRow :
    leg[id] = "stream" /\ Meant(id, r) /\ r \notin events[id] => replica[r] = modified[r]

\* Inductive, beside PageInv.
PulledInv ==
  /\ DataTyped /\ writes \in 0..MaxWrites
  /\ OfTheCrew
  /\ Versions
  /\ CheckpointSound
  /\ StreamSound

LEMMA InitPulled == ScopeInit => PulledInv
<1> SUFFICES ASSUME ScopeInit PROVE PulledInv
  OBVIOUS
<1>1. DataTyped /\ writes \in 0..MaxWrites
  BY ScopeAssumption DEF ScopeInit, DataTyped, Legs
<1>2. Len(handles) = 0
  BY DEF ScopeInit
<1>3. OfTheCrew
  BY <1>2 DEF ScopeInit, OfTheCrew
<1>4. Versions /\ CheckpointSound /\ StreamSound
  BY DEF ScopeInit, Versions, CheckpointSound, StreamSound
<1> QED
  BY <1>1, <1>3, <1>4 DEF PulledInv

-----------------------------------------------------------------------------
(* The page's steps start and stop replications, and pull nothing.         *)

\* What a replication is known by names the crew member of its scope.
LEMMA IdentifiersName ==
  ASSUME NEW s \in Scopes, NEW id \in IdentifiersOf(s)
  PROVE  id \in Identifiers /\ id.user = s.user
<1>1. /\ s.user \in Crew /\ s.checklist \in Checklist /\ s.fields \in FieldSet
  BY DEF Scopes
<1>2. PICK coll \in Collections : id = Identifier(coll, s)
  BY DEF IdentifiersOf
<1>3. CASE coll = "checklists"
  BY <1>1, <1>2, <1>3 DEF Identifier, Identifiers
<1>4. CASE coll = "responses"
  BY <1>1, <1>2, <1>4 DEF Identifier, Identifiers
<1> QED
  BY <1>3, <1>4 DEF Collections

\* A step starts a leg only of the crew member, from a new pull, and puts nothing
\* on its way.
LegsKept ==
  /\ leg' \in [Identifiers -> Legs] /\ events' \in [Identifiers -> SUBSET SyncRow]
  /\ \A id \in Identifiers :
       /\ leg'[id] # "off" => id.user = crew'
       /\ events'[id] \subseteq events[id]
       /\ leg'[id] = "stream" => leg[id] = "stream" /\ events'[id] = events[id]

LEMMA SettleKeepsLegs ==
  ASSUME PulledInv, NEW hs \in Seq(Handles), NEW reg, NEW ent, NEW cls,
         cls \subseteq Checklist \X (1..Len(hs)),
         \A i \in 1..Len(hs) : hs[i].scope.user = crew,
         Settle(hs, reg, ent, cls), crew' = crew
  PROVE  /\ LegsKept
         /\ \A i \in 1..Len(handles') : handles'[i].scope.user = crew'
<1> DEFINE gone == Cancelled(ent, cls)
           starts == {i \in DOMAIN hs \ gone : hs[i].state = "opening"}
           Ids(is) == UNION {IdentifiersOf(hs[i].scope) : i \in is}
<1>1. DOMAIN hs = 1..Len(hs) /\ Len(hs) \in Nat
  OBVIOUS
<1>2. /\ handles' = [i \in DOMAIN hs |->
                      [hs[i] EXCEPT !.state = IF i \in gone THEN "cancelled"
                                              ELSE IF i \in starts THEN "live" ELSE @]]
      /\ leg' = [id \in Identifiers |-> IF id \in Ids(starts) THEN "resync"
                                        ELSE IF id \in Ids(gone) THEN "off" ELSE leg[id]]
      /\ events' = [id \in Identifiers |->
                      IF id \in Ids(starts \cup gone) THEN {} ELSE events[id]]
  BY DEF Settle
<1>3. starts \subseteq 1..Len(hs) /\ gone \subseteq 1..Len(hs)
  BY <1>1 DEF Cancelled
<1>4. ASSUME NEW id \in Ids(starts) PROVE id.user = crew
  <2>1. PICK i \in starts : id \in IdentifiersOf(hs[i].scope)
    OBVIOUS
  <2>2. hs[i].scope \in Scopes /\ hs[i].scope.user = crew
    BY <1>3, HandleScope
  <2> QED
    BY <2>1, <2>2, IdentifiersName
<1>5. Ids(starts \cup gone) = Ids(starts) \cup Ids(gone)
  OBVIOUS
<1>6. \A i \in 1..Len(handles') : handles'[i].scope.user = crew'
  <2> HIDE DEF gone, starts
  <2>1. DOMAIN handles' = 1..Len(hs)
    BY <1>1, <1>2
  <2>2. \E F : handles' = [i \in 1..Len(hs) |-> F[i]]
    <3>1. handles' = [i \in 1..Len(hs) |-> handles'[i]]
      BY <1>1, <1>2
    <3> QED
      BY <3>1
  <2>3. Len(handles') = Len(hs)
    BY <1>1, <2>1, <2>2
  <2>4. \A i \in 1..Len(hs) : hs[i] \in Handles
    OBVIOUS
  <2>5. \A i \in 1..Len(hs) : handles'[i].scope = hs[i].scope
    BY <1>1, <1>2, <2>4 DEF Handles
  <2> QED
    BY <2>3, <2>5
<1> DEFINE Started == Ids(starts)
           Stopped == Ids(gone)
           Cleared == Ids(starts \cup gone)
<1>7. /\ leg' = [id \in Identifiers |-> IF id \in Started THEN "resync"
                                        ELSE IF id \in Stopped THEN "off" ELSE leg[id]]
      /\ events' = [id \in Identifiers |-> IF id \in Cleared THEN {} ELSE events[id]]
      /\ Cleared = Started \cup Stopped
      /\ \A id \in Started : id.user = crew
  BY <1>2, <1>4, <1>5
<1> HIDE DEF Started, Stopped, Cleared
<1>8. /\ leg' \in [Identifiers -> Legs]
      /\ events' \in [Identifiers -> SUBSET SyncRow]
  BY <1>7 DEF PulledInv, DataTyped, Legs
<1>9. ASSUME NEW id \in Identifiers
      PROVE  /\ leg'[id] # "off" => id.user = crew'
             /\ events'[id] \subseteq events[id]
             /\ leg'[id] = "stream" => leg[id] = "stream" /\ events'[id] = events[id]
  BY <1>7 DEF PulledInv, OfTheCrew
<1>10. LegsKept
  BY <1>8, <1>9 DEF LegsKept
<1> QED
  BY <1>6, <1>10

LEMMA RunKeepsLegs ==
  ASSUME PulledInv, NEW hs \in Seq(Handles), NEW reg, NEW ent, NEW cls,
         cls \subseteq Checklist \X (1..Len(hs)),
         \A i \in 1..Len(hs) : hs[i].scope.user = crew,
         Run(hs, reg, ent, cls), crew' = crew
  PROVE  /\ LegsKept
         /\ \A i \in 1..Len(handles') : handles'[i].scope.user = crew'
<1>1. CASE database' = "ready"
  BY <1>1, SettleKeepsLegs DEF Run
<1>2. CASE database' # "ready"
  BY <1>2 DEF Run, LegsKept, PulledInv, DataTyped, OfTheCrew
<1> QED
  BY <1>1, <1>2

\* So every step of the page keeps the invariant.
LEMMA PageStepKeeps ==
  ASSUME PulledInv, LegsKept, UNCHANGED <<dataVars, writes>>,
         \A i \in 1..Len(handles') : handles'[i].scope.user = crew'
  PROVE  PulledInv'
<1>1. UNCHANGED <<modified, replica, checkpoint, writes>>
  BY DEF dataVars
<1>2. DataTyped' /\ writes' \in 0..MaxWrites
  BY <1>1 DEF PulledInv, DataTyped, LegsKept
<1>3. OfTheCrew'
  BY DEF LegsKept, OfTheCrew
<1>4. Versions' /\ CheckpointSound'
  BY <1>1 DEF PulledInv, Versions, CheckpointSound, LegsKept
<1>5. StreamSound'
  BY <1>1 DEF PulledInv, StreamSound, LegsKept
<1> QED
  BY <1>2, <1>3, <1>4, <1>5 DEF PulledInv

LEMMA PageActionPulls ==
  ASSUME PageInv, PulledInv,
         \/ \E c \in Checklist, fields \in FieldSet : Visit(c, fields)
         \/ Leave \/ DatabaseOpens \/ DatabaseFails
         \/ \E u \in Crew : Reload(u)
  PROVE  PulledInv'
<1>1. /\ Len(handles) \in Nat /\ handles \in Seq(Handles)
      /\ closing \subseteq Checklist \X (1..Len(handles))
      /\ Closes \subseteq Checklist \X (1..Len(handles))
      /\ \A i \in 1..Len(handles) : handles[i].scope.user = crew
      /\ crew \in Crew
  <2>1. Typed(handles, openScopes, fillEntry, closing) /\ crew \in Crew
    BY DEF PageInv
  <2>2. /\ handles \in Seq(Handles) /\ Len(handles) \in Nat
        /\ closing \subseteq Checklist \X (1..Len(handles))
    BY <2>1 DEF Typed
  <2>3. Closes \subseteq Checklist \X (1..Len(handles))
    BY <2>1, ClosesAre DEF Typed
  <2>4. \A i \in 1..Len(handles) : handles[i].scope.user = crew
    BY DEF PulledInv, OfTheCrew
  <2> QED
    BY <2>1, <2>2, <2>3, <2>4
<1>2. ASSUME NEW c \in Checklist, NEW fields \in FieldSet, Visit(c, fields)
      PROVE  PulledInv'
  <2> DEFINE s == [user |-> crew, checklist |-> c, fields |-> fields]
             h == HandleOf(s)
             new == [scope |-> s, state |-> "opening"]
             hs == HandlesWith(s)
             cls == closing \cup Closes
  <2>1. /\ Run(hs, [openScopes EXCEPT ![s] = h],
               [NoEntries EXCEPT ![c] = EntryOf(s)], cls)
        /\ crew' = crew /\ UNCHANGED <<dataVars, writes>>
    BY <1>2 DEF Visit
  <2>2. new \in Handles /\ new.scope.user = crew
    BY <1>1 DEF Handles, Scopes
  <2>3. hs \in Seq(Handles) /\ Len(hs) \in {Len(handles), Len(handles) + 1}
    <3>1. hs = handles \/ hs = Append(handles, new)
      BY DEF HandlesWith
    <3> HIDE DEF new, hs
    <3> QED
      BY <1>1, <2>2, <3>1
  <2>4. \A i \in 1..Len(hs) : hs[i].scope.user = crew
    <3>0. hs = IF openScopes[s] # 0 THEN handles ELSE Append(handles, new)
      BY DEF HandlesWith
    <3> HIDE DEF new, hs
    <3>1. CASE openScopes[s] # 0
      BY <1>1, <3>0, <3>1
    <3>2. CASE openScopes[s] = 0
      <4>1. hs = Append(handles, new) /\ Len(hs) = Len(handles) + 1
        BY <1>1, <2>2, <3>0, <3>2
      <4>2. \A i \in 1..Len(handles) : hs[i] = handles[i]
        BY <1>1, <2>2, <4>1
      <4>3. hs[Len(handles) + 1] = new
        BY <1>1, <2>2, <4>1
      <4>4. \A i \in 1..Len(hs) : i \in 1..Len(handles) \/ i = Len(handles) + 1
        BY <1>1, <4>1
      <4> QED
        BY <1>1, <2>2, <4>2, <4>3, <4>4
    <3> QED
      BY <3>1, <3>2
  <2>5. cls \subseteq Checklist \X (1..Len(hs))
    BY <1>1, <2>3
  <2> HIDE DEF hs, cls, h, s
  <2>6. LegsKept /\ \A i \in 1..Len(handles') : handles'[i].scope.user = crew'
    BY <2>1, <2>3, <2>4, <2>5, RunKeepsLegs
  <2> QED
    BY <2>1, <2>6, PageStepKeeps
<1>3. ASSUME Leave PROVE PulledInv'
  <2>1. /\ Run(handles, openScopes, NoEntries, closing \cup Closes)
        /\ crew' = crew /\ UNCHANGED <<dataVars, writes>>
    BY <1>3 DEF Leave
  <2>2. LegsKept /\ \A i \in 1..Len(handles') : handles'[i].scope.user = crew'
    BY <1>1, <2>1, RunKeepsLegs
  <2> QED
    BY <2>1, <2>2, PageStepKeeps
<1>4. ASSUME DatabaseOpens PROVE PulledInv'
  <2>1. /\ Run(handles, openScopes, fillEntry, closing)
        /\ crew' = crew /\ UNCHANGED <<dataVars, writes>>
    BY <1>4 DEF DatabaseOpens
  <2>2. LegsKept /\ \A i \in 1..Len(handles') : handles'[i].scope.user = crew'
    BY <1>1, <2>1, RunKeepsLegs
  <2> QED
    BY <2>1, <2>2, PageStepKeeps
<1>5. ASSUME DatabaseFails PROVE PulledInv'
  <2>1. /\ handles' = [i \in DOMAIN handles |->
                        [handles[i] EXCEPT !.state = IF @ = "opening" THEN "rejected" ELSE @]]
        /\ crew' = crew /\ UNCHANGED <<dataVars, writes, leg, events>>
    BY <1>5 DEF DatabaseFails
  <2>2. LegsKept
    BY <2>1 DEF LegsKept, PulledInv, DataTyped, OfTheCrew
  <2>3. DOMAIN handles = 1..Len(handles)
    BY <1>1
  <2>4. /\ Len(handles') = Len(handles)
        /\ \A i \in 1..Len(handles) : handles'[i].scope = handles[i].scope
    <3>1. \E F : handles' = [i \in 1..Len(handles) |-> F[i]]
      <4>1. handles' = [i \in 1..Len(handles) |-> handles'[i]]
        BY <2>1, <2>3
      <4> QED
        BY <4>1
    <3>2. \A i \in 1..Len(handles) : handles[i] \in Handles
      BY <1>1
    <3> QED
      BY <1>1, <2>1, <2>3, <3>1, <3>2 DEF Handles
  <2>5. \A i \in 1..Len(handles') : handles'[i].scope.user = crew'
    BY <1>1, <2>1, <2>4
  <2> QED
    BY <2>1, <2>2, <2>5, PageStepKeeps
<1>6. ASSUME NEW u \in Crew, Reload(u) PROVE PulledInv'
  <2>1. /\ leg' = [id \in Identifiers |-> "off"] /\ events' = [id \in Identifiers |-> {}]
        /\ Len(handles') = 0 /\ UNCHANGED <<dataVars, writes>>
    BY <1>6 DEF Reload
  <2>2. LegsKept
    BY <2>1 DEF LegsKept, Legs
  <2> QED
    BY <2>1, <2>2, PageStepKeeps
<1> QED
  BY <1>2, <1>3, <1>4, <1>5, <1>6

-----------------------------------------------------------------------------
(* The steps of the server and of the replications.                        *)

\* What is bounded has a greatest element.
LEMMA GreatestIs ==
  ASSUME NEW n \in Nat, NEW S \in SUBSET (0..n), S # {}
  PROVE  Max(S) \in S /\ \A x \in S : x <= Max(S)
<1>1. PICK m \in S : \A x \in S : x <= m
  BY GreatestExists
<1>2. \A y \in S, x \in S : (y >= x) <=> (x <= y)
  OBVIOUS
<1>3. \A x \in S : m >= x
  BY <1>1, <1>2
<1>4. Max(S) \in S /\ \A x \in S : Max(S) >= x
  BY <1>3 DEF Max
<1> QED
  BY <1>2, <1>4

\* The newest version of all: no checkpoint has reached it, and every leg that is
\* to tell of the row has it on its way.
LEMMA ServerWritesPulls ==
  ASSUME PulledInv, NEW row \in SyncRow, ServerWrites(row)
  PROVE  PulledInv'
<1> USE ScopeAssumption
<1>1. /\ modified \in [SyncRow -> 0..MaxWrites] /\ replica \in [SyncRow -> 0..MaxWrites]
      /\ checkpoint \in [Identifiers -> 0..MaxWrites]
      /\ leg \in [Identifiers -> Legs] /\ events \in [Identifiers -> SUBSET SyncRow]
      /\ writes \in Nat /\ writes < MaxWrites
  BY DEF PulledInv, DataTyped, ServerWrites
<1>2. /\ writes' = writes + 1
      /\ modified' = [modified EXCEPT ![row] = writes + 1]
      /\ UNCHANGED <<replica, checkpoint, leg, handles, crew>>
      /\ events' = [id \in Identifiers |->
                     IF leg[id] \in {"resync", "stream"} /\ crew \in row.readers /\ InRealtimeFilter(id, row)
                     THEN events[id] \cup {row} ELSE events[id]]
  BY DEF ServerWrites, pageVars
<1>3. /\ modified'[row] = writes + 1
      /\ \A r \in SyncRow : r # row => modified'[r] = modified[r]
      /\ \A r \in SyncRow : modified[r] \in 0..writes
      /\ \A id \in Identifiers : checkpoint[id] \in 0..writes
  BY <1>1, <1>2 DEF PulledInv, Versions
<1>4. DataTyped' /\ writes' \in 0..MaxWrites
  BY <1>1, <1>2 DEF DataTyped
<1>5. \A id \in Identifiers : events[id] \subseteq events'[id]
                           /\ events'[id] \subseteq events[id] \cup {row}
  BY <1>2
<1>6. Versions'
  <2>1. \A r \in SyncRow : modified'[r] <= writes'
    BY <1>1, <1>2, <1>3
  <2>2. \A r, q \in SyncRow : modified'[r] = modified'[q] /\ modified'[r] # 0 => r = q
    BY <1>1, <1>3 DEF PulledInv, Versions
  <2>3. \A id \in Identifiers : checkpoint'[id] <= writes'
    BY <1>1, <1>2, <1>3
  <2>4. \A id \in Identifiers : \A r \in events'[id] : modified'[r] # 0
    BY <1>1, <1>3, <1>5 DEF PulledInv, Versions
  <2> QED
    BY <2>1, <2>2, <2>3, <2>4 DEF Versions
<1>7. OfTheCrew'
  BY <1>2 DEF PulledInv, OfTheCrew
<1>8. CheckpointSound'
  BY <1>1, <1>2, <1>3 DEF PulledInv, CheckpointSound, Meant
<1>9. StreamSound'
  <2> SUFFICES ASSUME NEW id \in Identifiers, NEW r \in SyncRow,
                      leg[id] = "stream", Meant(id, r), r \notin events'[id]
               PROVE  replica[r] = modified'[r]
    BY <1>2 DEF StreamSound, Meant
  <2>1. InRealtimeFilter(id, r)
    BY DEF Meant, InFilter, InRealtimeFilter
  <2>2. id.user = crew
    BY DEF PulledInv, OfTheCrew
  <2>3. r # row
    BY <1>2, <2>1, <2>2 DEF Meant
  <2> QED
    BY <1>3, <1>5, <2>3 DEF PulledInv, StreamSound
<1> QED
  BY <1>4, <1>6, <1>7, <1>8, <1>9 DEF PulledInv

\* A pull leaves nothing of its scope behind its checkpoint.
LEMMA ResyncPulls ==
  ASSUME PulledInv, NEW id \in Identifiers, Resync(id)
  PROVE  PulledInv'
<1> USE ScopeAssumption
<1> DEFINE found == {modified[r] : r \in Newer(id)}
           top == Max({checkpoint[id]} \cup found)
<1>1. /\ modified \in [SyncRow -> 0..MaxWrites] /\ replica \in [SyncRow -> 0..MaxWrites]
      /\ checkpoint \in [Identifiers -> 0..MaxWrites]
      /\ leg \in [Identifiers -> Legs] /\ events \in [Identifiers -> SUBSET SyncRow]
      /\ writes \in 0..MaxWrites
      /\ \A r \in SyncRow : modified[r] \in 0..writes
      /\ checkpoint[id] \in 0..writes
  BY DEF PulledInv, DataTyped, Versions
<1>2. /\ leg[id] = "resync"
      /\ replica' = [r \in SyncRow |-> IF r \in Newer(id) THEN modified[r] ELSE replica[r]]
      /\ checkpoint' = [checkpoint EXCEPT ![id] = top]
      /\ leg' = [leg EXCEPT ![id] = "stream"]
      /\ UNCHANGED <<modified, events, writes, crew, handles>>
  BY DEF Resync, pageVars
<1>3. {checkpoint[id]} \cup found \in SUBSET (0..writes)
  BY <1>1 DEF Newer
<1>4. /\ top \in 0..writes /\ checkpoint[id] <= top
      /\ \A r \in Newer(id) : modified[r] <= top
  <2> DEFINE all == {checkpoint[id]} \cup found
  <2>1. all \in SUBSET (0..writes) /\ all # {} /\ writes \in Nat
    BY <1>1, <1>3
  <2>2. Max(all) \in all /\ \A x \in all : x <= Max(all)
    <3> HIDE DEF all
    <3> QED
      BY <2>1, GreatestIs
  <2> QED
    BY <2>1, <2>2
<1> HIDE DEF top, found
<1>5. id.user = crew
  BY <1>2 DEF PulledInv, OfTheCrew
<1>6. ASSUME NEW r \in SyncRow
      PROVE  /\ replica[r] = modified[r] => replica'[r] = modified[r]
             /\ Meant(id, r) => replica'[r] = modified[r]
  <2>1. Meant(id, r) /\ modified[r] > checkpoint[id] => r \in Newer(id)
    BY <1>5 DEF Meant, Newer
  <2>2. Meant(id, r) /\ modified[r] <= checkpoint[id] => replica[r] = modified[r]
    BY DEF PulledInv, CheckpointSound
  <2> QED
    BY <1>1, <1>2, <2>1, <2>2
<1>7. DataTyped'
  BY <1>1, <1>2, <1>4 DEF DataTyped, Legs
<1>8. OfTheCrew'
  BY <1>1, <1>2, <1>5 DEF PulledInv, OfTheCrew
<1>9. Versions'
  BY <1>1, <1>2, <1>4 DEF PulledInv, Versions
<1>10. CheckpointSound'
  <2> SUFFICES ASSUME NEW e \in Identifiers, NEW r \in SyncRow,
                      Meant(e, r), modified[r] <= checkpoint'[e]
               PROVE  replica'[r] = modified[r]
    BY <1>2 DEF CheckpointSound, Meant
  <2>1. CASE e = id
    BY <1>6, <2>1
  <2>2. CASE e # id
    BY <1>1, <1>2, <1>6, <2>2 DEF PulledInv, CheckpointSound
  <2> QED
    BY <2>1, <2>2
<1>11. StreamSound'
  <2> SUFFICES ASSUME NEW e \in Identifiers, NEW r \in SyncRow,
                      leg'[e] = "stream", Meant(e, r), r \notin events[e]
               PROVE  replica'[r] = modified[r]
    BY <1>2 DEF StreamSound, Meant
  <2>1. CASE e = id
    BY <1>6, <2>1
  <2>2. CASE e # id
    BY <1>1, <1>2, <1>6, <2>2 DEF PulledInv, StreamSound
  <2> QED
    BY <2>1, <2>2
<1> QED
  BY <1>1, <1>2, <1>7, <1>8, <1>9, <1>10, <1>11 DEF PulledInv

\* The oldest change on its way arrives: what it passes the phone has already.
LEMMA DeliverPulls ==
  ASSUME PulledInv, NEW id \in Identifiers, NEW row \in SyncRow, Deliver(id, row)
  PROVE  PulledInv'
<1> USE ScopeAssumption
<1>1. /\ modified \in [SyncRow -> 0..MaxWrites] /\ replica \in [SyncRow -> 0..MaxWrites]
      /\ checkpoint \in [Identifiers -> 0..MaxWrites]
      /\ leg \in [Identifiers -> Legs] /\ events \in [Identifiers -> SUBSET SyncRow]
      /\ writes \in 0..MaxWrites
      /\ \A r \in SyncRow : modified[r] \in 0..writes
  BY DEF PulledInv, DataTyped, Versions
<1>2. /\ leg[id] = "stream" /\ row \in events[id]
      /\ \A r \in events[id] : modified[r] >= modified[row]
      /\ replica' = [replica EXCEPT ![row] = modified[row]]
      /\ checkpoint' = [checkpoint EXCEPT ![id] = modified[row]]
      /\ events' = [events EXCEPT ![id] = @ \ {row}]
      /\ UNCHANGED <<modified, leg, writes, crew, handles>>
  BY DEF Deliver, pageVars
<1>3. ASSUME NEW r \in SyncRow, replica[r] = modified[r] \/ r = row
      PROVE  replica'[r] = modified[r]
  BY <1>1, <1>2, <1>3
<1>4. DataTyped'
  BY <1>1, <1>2 DEF DataTyped
<1>5. OfTheCrew'
  BY <1>2 DEF PulledInv, OfTheCrew
<1>6. Versions'
  BY <1>1, <1>2 DEF PulledInv, Versions
<1>7. CheckpointSound'
  <2> SUFFICES ASSUME NEW e \in Identifiers, NEW r \in SyncRow,
                      Meant(e, r), modified[r] <= checkpoint'[e]
               PROVE  replica'[r] = modified[r]
    BY <1>2 DEF CheckpointSound, Meant
  <2>1. CASE e = id /\ r \in events[id]
    <3>0. checkpoint'[id] = modified[row] /\ modified[r] >= modified[row]
          /\ modified[r] \in Nat /\ modified[row] \in Nat
      BY <1>1, <1>2, <2>1
    <3>1. modified[r] = modified[row] /\ modified[r] # 0
      BY <2>1, <3>0 DEF PulledInv, Versions
    <3> QED
      BY <1>3, <3>1 DEF PulledInv, Versions
  <2>2. CASE e = id /\ r \notin events[id]
    BY <1>2, <1>3, <2>2 DEF PulledInv, StreamSound
  <2>3. CASE e # id
    BY <1>1, <1>2, <1>3, <2>3 DEF PulledInv, CheckpointSound
  <2> QED
    BY <2>1, <2>2, <2>3
<1>8. StreamSound'
  <2> SUFFICES ASSUME NEW e \in Identifiers, NEW r \in SyncRow,
                      leg[e] = "stream", Meant(e, r), r \notin events'[e]
               PROVE  replica'[r] = modified[r]
    BY <1>2 DEF StreamSound, Meant
  <2>1. r \notin events[e] \/ r = row
    BY <1>1, <1>2
  <2> QED
    BY <1>3, <2>1 DEF PulledInv, StreamSound
<1> QED
  BY <1>1, <1>2, <1>4, <1>5, <1>6, <1>7, <1>8 DEF PulledInv

\* A channel that is lost, or joined again, is to be pulled from anew.
LEMMA ChannelPulls ==
  ASSUME PulledInv, NEW id \in Identifiers, Drop(id) \/ Rejoin(id)
  PROVE  PulledInv'
<1>1. LegsKept
  BY DEF Drop, Rejoin, LegsKept, PulledInv, DataTyped, OfTheCrew, Legs, pageVars
<1>2. UNCHANGED <<dataVars, writes>> /\ \A i \in 1..Len(handles') : handles'[i].scope.user = crew'
  BY DEF Drop, Rejoin, pageVars, PulledInv, OfTheCrew
<1> QED
  BY <1>1, <1>2, PageStepKeeps

LEMMA NextPulled ==
  ASSUME PageInv, PulledInv, [ScopeNext]_scopeVars
  PROVE  PulledInv'
<1>1. CASE UNCHANGED scopeVars
  <2>1. UNCHANGED <<modified, replica, checkpoint, leg, events, writes, crew, handles>>
    BY <1>1 DEF scopeVars, pageVars, dataVars
  <2> QED
    BY <2>1 DEF PulledInv, DataTyped, OfTheCrew, Versions, CheckpointSound, StreamSound
<1> QED
  BY <1>1, PageActionPulls, ServerWritesPulls, ResyncPulls, DeliverPulls, ChannelPulls
  DEF ScopeNext

LEMMA PulledHolds == ScopeSpec => []PulledInv
BY InitPage, NextPage, InitPulled, NextPulled, PTL DEF ScopeSpec

\* A replication that has pulled, with nothing on its way, has given the phone every
\* row of its scope that its user may read: whoever used the phone before, whatever
\* other scopes have pulled, and however often the channel was lost.
THEOREM ScopesPulledWhole == ScopeSpec => []ScopePulledWhole
<1>1. PulledInv => ScopePulledWhole
  <2> SUFFICES ASSUME PulledInv, NEW id \in Identifiers, NEW r \in SyncRow,
                      leg[id] = "stream", events[id] = {},
                      crew \in r.readers, InFilter(id, r)
               PROVE  replica[r] = modified[r]
    BY DEF ScopePulledWhole
  <2>1. id.user = crew
    BY DEF PulledInv, OfTheCrew
  <2> QED
    BY <2>1 DEF PulledInv, StreamSound, Meant
<1> QED
  BY <1>1, PulledHolds, PTL

\* What the bounds count stays within them.
CountsTyped ==
  /\ visits \in 0..MaxVisits /\ reloads \in 0..MaxReloads /\ fails \in 0..MaxFails

LEMMA NextCounts ==
  ASSUME CountsTyped, [ScopeNext]_scopeVars
  PROVE  CountsTyped'
<1> USE ScopeAssumption
<1>1. \/ visits' = visits
      \/ visits < MaxVisits /\ visits' = visits + 1
  BY DEF ScopeNext, Visit, Leave, DatabaseOpens, DatabaseFails, Reload, ServerWrites,
         Resync, Deliver, Drop, Rejoin, scopeVars
<1>2. \/ reloads' = reloads
      \/ reloads < MaxReloads /\ reloads' = reloads + 1
  BY DEF ScopeNext, Visit, Leave, DatabaseOpens, DatabaseFails, Reload, ServerWrites,
         Resync, Deliver, Drop, Rejoin, scopeVars
<1>3. \/ fails' = fails
      \/ fails < MaxFails /\ fails' = fails + 1
  BY DEF ScopeNext, Visit, Leave, DatabaseOpens, DatabaseFails, Reload, ServerWrites,
         Resync, Deliver, Drop, Rejoin, scopeVars
<1> QED
  BY <1>1, <1>2, <1>3 DEF CountsTyped

LEMMA InitCounts == ScopeInit => CountsTyped
BY ScopeAssumption DEF ScopeInit, CountsTyped

LEMMA ScopeTyped == PageInv /\ PulledInv /\ CountsTyped => ScopeTypeOK
BY DEF PageInv, Typed, PulledInv, DataTyped, Legs, CountsTyped, ScopeTypeOK

\* The type of every variable, in every state.
THEOREM ScopeTypeCorrect == ScopeSpec => []ScopeTypeOK
BY InitCounts, NextCounts, ScopeTyped, PageHolds, PulledHolds, PTL DEF ScopeSpec
=============================================================================
