----------------------------- MODULE PullReplica -----------------------------
(***************************************************************************)
(* The three pull replicas of the scanner page (marketing/sync): "codes"   *)
(* and "offers" pull the codes table behind different expiry windows,      *)
(* "campaigns" pulls the table of policies without one.  Each walks its    *)
(* table in batches behind a keyset checkpoint (pull-replication.js), with *)
(* the windows set by a clock calibrated from every answer (clock.js); the *)
(* policy source latches the last error of the campaigns replica           *)
(* (replicas.js).                                                          *)
(*                                                                         *)
(* Row ids are numbers in the order of the database.  A row is represented *)
(* by the number of the transaction that last wrote it, its updated_at;    *)
(* transactions commit in the order of their updated_at.                   *)
(***************************************************************************)
EXTENDS Integers, FiniteSets

CONSTANTS
  CodeRows,     \* rows of public.codes
  PolicyRows,   \* rows of public.campaigns
  ExpiresAt,    \* when a code expires
  CODES_WINDOW, \* how long the codes replica keeps an expired code
  Skews,        \* how far the device's clock may be ahead
  BatchSize,
  MaxTime,      \* bound: the server's clock
  MaxTransactions,  \* bound: transactions of the server
  MaxMishaps    \* bound: failed pulls and reloads

AllRows == CodeRows \cup PolicyRows

ASSUME PullAssumption ==
  /\ AllRows \subseteq Nat \ {0} /\ IsFiniteSet(AllRows)
  /\ CodeRows \cap PolicyRows = {}
  /\ ExpiresAt \in [CodeRows -> Nat] /\ CODES_WINDOW \in Nat
  /\ Skews \subseteq Int /\ \A d \in Skews : d <= CODES_WINDOW
  /\ BatchSize \in Nat \ {0}
  /\ MaxTime \in Nat /\ MaxTransactions \in Nat /\ MaxMishaps \in Nat

Replicas == {"codes", "offers", "campaigns"}

VARIABLES
  time, skew,      \* the server's clock, and what the device's is ahead of it
  clockOffset,     \* the clock's offset: serverNow - deviceNow when captured
  updatedAt,       \* server: the transaction that last wrote a row, or 0
  local,           \* per replica, the version of a row it holds, or 0
  cursor,          \* per replica, its checkpoint <<updated_at, id>>
  pulling,         \* the replicas that have a pull to make
  armed,           \* startSync ran
  source, lastError, \* the policy source: "awaiting", "settling" or "ready"
  transactions, mishaps  \* history: what the bounds count

pullVars == <<time, skew, clockOffset, updatedAt, local, cursor, pulling, armed,
              source, lastError, transactions, mishaps>>

-----------------------------------------------------------------------------
ClockNow == time + skew + clockOffset

(* captureFromResponse, on every answer of 200.                            *)
Captured == 0 - skew

(* The expiry bound of a request; the campaigns have none.                 *)
InWindow(rep, r) ==
  CASE rep = "codes" -> r \in CodeRows /\ ExpiresAt[r] > ClockNow - CODES_WINDOW
    [] rep = "offers" -> r \in CodeRows /\ ExpiresAt[r] > ClockNow
    [] OTHER -> r \in PolicyRows

Key(r) == <<updatedAt[r], r>>
Before(k, l) == k[1] < l[1] \/ (k[1] = l[1] /\ k[2] < l[2])

(* A bug: the bare cursor, which skips what shares its updated_at.         *)
AfterTime(r, cp) == updatedAt[r] > cp[1]

(* A bug: the last row again, so that a batch is never short.              *)
AfterOrAt(r, cp) == ~Before(Key(r), cp)

(* keysetPredicate                                                         *)
After(r, cp) == Before(cp, Key(r))

(* One request: the first in keyset order, no more than a batch.           *)
Batch(rep) ==
  LET found == {r \in AllRows : updatedAt[r] # 0 /\ InWindow(rep, r) /\ After(r, cursor[rep])}
  IN  {r \in found : Cardinality({q \in found : Before(Key(q), Key(r))}) < BatchSize}

-----------------------------------------------------------------------------
PullInit ==
  /\ time = 0 /\ skew \in Skews /\ clockOffset = 0
  /\ updatedAt = [r \in AllRows |-> 0]
  /\ local = [rep \in Replicas |-> updatedAt]
  /\ cursor = [rep \in Replicas |-> <<0, 0>>]
  /\ pulling = {} /\ armed = FALSE /\ source = "awaiting" /\ lastError = FALSE
  /\ transactions = 0 /\ mishaps = 0

(* A transaction writes rows of one table: codes issued, a policy set.     *)
Transaction(S) ==
  /\ transactions < MaxTransactions
  /\ transactions' = transactions + 1
  /\ updatedAt' = [r \in AllRows |-> IF r \in S THEN transactions' ELSE updatedAt[r]]
  /\ UNCHANGED <<time, skew, clockOffset, local, cursor, pulling, armed, source,
                 lastError, mishaps>>

TimePasses ==
  /\ time < MaxTime
  /\ time' = time + 1
  /\ UNCHANGED <<skew, clockOffset, updatedAt, local, cursor, pulling, armed, source,
                 lastError, transactions, mishaps>>

(* startSync: the replicas start with a pull, the policy source listens.   *)
Arm ==
  /\ ~armed
  /\ armed' = TRUE /\ pulling' = Replicas
  /\ UNCHANGED <<time, skew, clockOffset, updatedAt, local, cursor, source, lastError,
                 transactions, mishaps>>

(* reSync, on a reconnect or when the page is shown again.                 *)
Resynced ==
  /\ armed /\ pulling = {}
  /\ pulling' = Replicas
  /\ UNCHANGED <<time, skew, clockOffset, updatedAt, local, cursor, armed, source,
                 lastError, transactions, mishaps>>

(* A bug: only a pull that brings documents clears the latched error.      *)
ClearedByDocuments(rep, batch) == lastError /\ (rep = "campaigns" => batch = {})

(* onPullSuccess: any answer of 200 clears it.                             *)
StillLatched(rep, batch) == lastError /\ rep # "campaigns"

PullBatch(rep) ==
  /\ rep \in pulling
  /\ LET batch == Batch(rep)
     IN  /\ local' = [local EXCEPT ![rep] =
                        [r \in AllRows |-> IF r \in batch THEN updatedAt[r] ELSE @[r]]]
         /\ cursor' = [cursor EXCEPT ![rep] =
                         IF batch = {} THEN @
                         ELSE CHOOSE k \in {Key(r) : r \in batch} :
                                \A r \in batch : ~Before(k, Key(r))]
         /\ pulling' = IF Cardinality(batch) < BatchSize THEN pulling \ {rep} ELSE pulling
         /\ lastError' = StillLatched(rep, batch)
         /\ source' = IF rep = "campaigns" /\ source = "awaiting" /\ Cardinality(batch) < BatchSize
                      THEN "settling" ELSE source
  /\ clockOffset' = Captured
  /\ UNCHANGED <<time, skew, updatedAt, armed, transactions, mishaps>>

(* A pull that fails is made again.                                        *)
PullFails(rep) ==
  /\ rep \in pulling /\ mishaps < MaxMishaps
  /\ mishaps' = mishaps + 1
  /\ lastError' = (lastError \/ rep = "campaigns")
  /\ UNCHANGED <<time, skew, clockOffset, updatedAt, local, cursor, pulling, armed,
                 source, transactions>>

(* awaitInitialReplication resolved, and the settle tick is over.          *)
Settles ==
  /\ source = "settling"
  /\ source' = "ready" /\ lastError' = FALSE
  /\ UNCHANGED <<time, skew, clockOffset, updatedAt, local, cursor, pulling, armed,
                 transactions, mishaps>>

(* The replicas, the checkpoints and the offset outlive the page.          *)
ReloadScanner ==
  /\ armed /\ mishaps < MaxMishaps
  /\ mishaps' = mishaps + 1
  /\ armed' = FALSE /\ pulling' = {} /\ source' = "awaiting" /\ lastError' = FALSE
  /\ UNCHANGED <<time, skew, clockOffset, updatedAt, local, cursor, transactions>>

PullNext ==
  \/ \E S \in ((SUBSET CodeRows) \cup (SUBSET PolicyRows)) \ {{}} : Transaction(S)
  \/ TimePasses \/ Arm \/ Resynced \/ Settles \/ ReloadScanner
  \/ \E rep \in Replicas : PullBatch(rep) \/ PullFails(rep)

(* The page arms what it has coordinates for, and RxDB pulls and retries.  *)
PullSpec ==
  /\ PullInit /\ [][PullNext]_pullVars
  /\ WF_pullVars(Arm) /\ WF_pullVars(Settles)
  /\ \A rep \in Replicas : WF_pullVars(PullBatch(rep))

-----------------------------------------------------------------------------
(* The type of every variable, and the offset is none or the one that      *)
(* makes the device's clock the server's.                                  *)
PullTypeOK ==
  /\ time \in 0..MaxTime /\ skew \in Skews /\ clockOffset \in {0, 0 - skew}
  /\ updatedAt \in [AllRows -> 0..MaxTransactions]
  /\ local \in [Replicas -> [AllRows -> 0..MaxTransactions]]
  /\ cursor \in [Replicas -> (0..MaxTransactions) \X (AllRows \cup {0})]
  /\ pulling \subseteq Replicas /\ armed \in BOOLEAN /\ lastError \in BOOLEAN
  /\ source \in {"awaiting", "settling", "ready"}
  /\ transactions \in 0..MaxTransactions /\ mishaps \in 0..MaxMishaps

(* No checkpoint passes a row the replica does not hold: whatever shares   *)
(* an updated_at, wherever a batch ends and however the window slides, a   *)
(* row at or before the checkpoint that has not expired is held in its     *)
(* latest version (GAP-1 of pull-replication.js).  The offers replica is   *)
(* exempt on a device whose clock is ahead: its first request is made      *)
(* before the first calibration, see README.                               *)
Passed(rep, r) == ~Before(cursor[rep], Key(r))

KeysetSkipsNothing ==
  \A rep \in Replicas, r \in AllRows :
    (/\ updatedAt[r] # 0 /\ Passed(rep, r)
     /\ IF rep = "campaigns" THEN r \in PolicyRows
        ELSE r \in CodeRows /\ ExpiresAt[r] > time /\ (rep = "offers" => skew <= 0))
    => local[rep][r] = updatedAt[r]

(* A walk through the batches ends, whatever its tie groups are: the       *)
(* live-lock the keyset was chosen to avoid.                               *)
PullEnds == pulling # {} ~> pulling = {}

(* The policy source reports the replica as failing or undelivered no      *)
(* longer than it is (B-439 of replicas.js): when the failures are over it *)
(* answers, though no row changed.                                         *)
Unresolved == armed /\ (source # "ready" \/ lastError)
PolicyRecovers == <>[]~Unresolved
=============================================================================
