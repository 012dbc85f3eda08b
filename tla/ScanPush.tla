------------------------------ MODULE ScanPush ------------------------------
(***************************************************************************)
(* The offline door: a scan is recorded in the phone's scan_attempts       *)
(* collection and the push replica drains that queue. For every attempt it *)
(* burns the code with redeem(), waits for the codes replica to name the   *)
(* winner when the code is already used, persists the outcome, lands the   *)
(* attempt's row on the server, and only then resolves the local row.      *)
(*                                                                         *)
(* The page may die at any step, a request may be lost before or after the *)
(* server acts on it, and a request whose page is gone may still be served.*)
(* Between two loads of the page somebody else may sign in on the phone.   *)
(***************************************************************************)
EXTENDS Codes, Naturals

CONSTANTS Phone,        \* browsers with a local queue of their own
          User,         \* users.id, the sub of a minted token
          Attempt,      \* ids of scan attempts
          Door,         \* the other door: a client of HQ's arbitration endpoint
          Owner,        \* the user signed in on each phone at first
          MaySwitch,    \* whether another user may sign in on a phone
          MaySlip,      \* whether a code may leave the replicas' two-day window
          MaxCloses     \* bound: how often pages die or are closed

ASSUME ScanPushAssumption ==
  /\ Device = User \cup {Door}
  /\ Caller = Attempt \cup {Door}
  /\ Door \notin User
  /\ Door \notin Attempt
  /\ None \notin User \cup Attempt \cup Phone \cup Code
  /\ None \notin {Door, "accepted", "rejected"}
  /\ Owner \in [Phone -> User]
  /\ MaySwitch \in BOOLEAN
  /\ MaySlip \in BOOLEAN
  /\ MaxCloses \in Nat

VARIABLES doc,       \* the local scan_attempts rows, kept in IndexedDB
          rowStatus, \* status of the attempt's row in the server's scan_attempts
          replica,   \* redeemed_by in the phone's codes collection
          session,   \* the user of the phone's hq_session cookie
          stored,    \* deviceId of the coordinates under SYNC_KEY
          armed,     \* deviceId the running push handler was made with
          minting,   \* the load's one call for a token is unanswered
          due,       \* the codes replica is pulling, or about to
          cur,       \* the row the push handler is at
          pc,        \* where the push handler is with it
          got,       \* burn outcome the handler holds and has not persisted
          calls,     \* redeem() requests in flight
          lands,     \* scan_attempts inserts in flight
          closes     \* bound: page deaths so far

docVars == <<doc>>
pageVars == <<armed, minting, due, cur, pc, got, closes>>
netVars == <<calls, lands>>
idVars == <<session, stored>>
vars == <<codesVars, docVars, rowStatus, replica, idVars, pageVars, netVars>>

Blank == [phone |-> None, code |-> None, unverified |-> FALSE,
          status |-> "blank", burn |-> "none", winner |-> None]

Outcomes == {"won", "already_used", "expired"}
Docs == [phone: Phone \cup {None}, code: Code \cup {None}, unverified: BOOLEAN,
         status: {"blank", "pending", "accepted", "rejected"},
         burn: Outcomes \cup {"none"}, winner: Device \cup {None}]
Calls == [attempt: Attempt, device: User]
Lands == [attempt: Attempt, device: User, user: User,
          status: {"accepted", "rejected"}]
Steps == {"closed", "idle", "burning", "awaiting", "patching", "landing",
          "resolving", "backoff"}

TypeOK ==
  /\ CodesTypeOK
  /\ doc \in [Attempt -> Docs]
  /\ rowStatus \in [Attempt -> {None, "accepted", "rejected"}]
  /\ replica \in [Phone -> [Code -> Device \cup {None}]]
  /\ session \in [Phone -> User]
  /\ stored \in [Phone -> User \cup {None}]
  /\ armed \in [Phone -> User \cup {None}]
  /\ minting \in [Phone -> BOOLEAN]
  /\ due \in [Phone -> BOOLEAN]
  /\ cur \in [Phone -> Attempt \cup {None}]
  /\ pc \in [Phone -> Steps]
  /\ got \in [Phone -> Outcomes \cup {"none"}]
  /\ calls \in SUBSET Calls
  /\ lands \in SUBSET Lands
  /\ closes \in Nat

Init ==
  /\ CodesInit
  /\ doc = [a \in Attempt |-> Blank]
  /\ rowStatus = [a \in Attempt |-> None]
  /\ replica = [p \in Phone |-> [c \in Code |-> None]]
  /\ session = Owner
  /\ stored = [p \in Phone |-> None]
  /\ armed = [p \in Phone |-> None]
  /\ minting = [p \in Phone |-> FALSE]
  /\ due = [p \in Phone |-> FALSE]
  /\ cur = [p \in Phone |-> None]
  /\ pc = [p \in Phone |-> "closed"]
  /\ got = [p \in Phone |-> "none"]
  /\ calls = {}
  /\ lands = {}
  /\ closes = 0

----------------------------------------------------------------------------
(* The page: boot, provisioning, death, and who is signed in.              *)

\* boot(): stored coordinates arm the replicas at once, which starts with a pull,
\* and a token is asked for.
OpenPage(p) ==
  /\ pc[p] = "closed"
  /\ pc' = [pc EXCEPT ![p] = "idle"]
  /\ armed' = [armed EXCEPT ![p] = stored[p]]
  /\ minting' = [minting EXCEPT ![p] = TRUE]
  /\ due' = [due EXCEPT ![p] = stored[p] # None]
  /\ UNCHANGED <<codesVars, docVars, rowStatus, replica, idVars, netVars,
                 cur, got, closes>>

\* provisionSync(): the coordinates are stored; startSync() does nothing when
\* the replicas are armed already.
Provision(p) ==
  /\ minting[p]
  /\ minting' = [minting EXCEPT ![p] = FALSE]
  /\ stored' = [stored EXCEPT ![p] = session[p]]
  /\ armed' = [armed EXCEPT ![p] = IF @ = None THEN session[p] ELSE @]
  /\ due' = [due EXCEPT ![p] = @ \/ armed[p] = None]
  /\ UNCHANGED <<codesVars, docVars, rowStatus, replica, session, netVars,
                 cur, pc, got, closes>>

\* 401, 503 or no network: nothing is written, and this load asks no more.
MintFails(p) ==
  /\ minting[p]
  /\ minting' = [minting EXCEPT ![p] = FALSE]
  /\ UNCHANGED <<codesVars, docVars, rowStatus, replica, idVars, netVars,
                 armed, due, cur, pc, got, closes>>

\* A reload, a crash, the tab discarded: what is not in storage is gone.
ClosePage(p) ==
  /\ pc[p] # "closed"
  /\ closes < MaxCloses
  /\ closes' = closes + 1
  /\ pc' = [pc EXCEPT ![p] = "closed"]
  /\ armed' = [armed EXCEPT ![p] = None]
  /\ minting' = [minting EXCEPT ![p] = FALSE]
  /\ due' = [due EXCEPT ![p] = FALSE]
  /\ cur' = [cur EXCEPT ![p] = None]
  /\ got' = [got EXCEPT ![p] = "none"]
  /\ UNCHANGED <<codesVars, docVars, rowStatus, replica, idVars, netVars>>

\* Somebody else signs in; SYNC_KEY outlives the session.
SwitchUser(p, u) ==
  /\ MaySwitch
  /\ pc[p] = "closed"
  /\ session[p] # u
  /\ session' = [session EXCEPT ![p] = u]
  /\ UNCHANGED <<codesVars, docVars, rowStatus, replica, stored, pageVars,
                 netVars>>

----------------------------------------------------------------------------
(* The local collections.                                                  *)

\* The dedupe of enqueueAttempt(): an attempt that is not rejected answers a
\* second scan of its code. An unverified row holds a token hash where others
\* hold a code id, so it is found by unverified scans alone.
LiveAttempt(p, c, u) ==
  {a \in Attempt : /\ doc[a].phone = p
                   /\ doc[a].code = c
                   /\ doc[a].unverified = u
                   /\ doc[a].status \in {"pending", "accepted"}}

Enqueue(p, a, c, u) ==
  /\ pc[p] # "closed"
  /\ doc[a].status = "blank"
  /\ LiveAttempt(p, c, u) = {}
  /\ doc' = [doc EXCEPT ![a] = [phone |-> p, code |-> c, unverified |-> u,
                                status |-> "pending", burn |-> "none",
                                winner |-> None]]
  /\ UNCHANGED <<codesVars, rowStatus, replica, idVars, pageVars, netVars>>

\* resync() when the probe finds HQ again, or RxDB when the page gets visible: a
\* running replica pulls on these two occasions and on no other.
Nudge(p) ==
  /\ armed[p] # None
  /\ ~due[p]
  /\ due' = [due EXCEPT ![p] = TRUE]
  /\ UNCHANGED <<codesVars, docVars, rowStatus, replica, idVars, netVars,
                 armed, minting, cur, pc, got, closes>>

\* A pull walks the checkpoint to its end: every changed row whose expiry is
\* inside the window arrives.
PullCodes(p) ==
  /\ due[p]
  /\ due' = [due EXCEPT ![p] = FALSE]
  /\ replica' = [replica EXCEPT ![p] =
                   [c \in Code |-> IF age[c] = "outside" THEN @[c] ELSE redeemedBy[c]]]
  /\ UNCHANGED <<codesVars, docVars, rowStatus, idVars, netVars,
                 armed, minting, cur, pc, got, closes>>

----------------------------------------------------------------------------
(* The push handler, one pass over one row. A thrown error retries the      *)
(* batch, and the rows before the failing one are resolved by then: the     *)
(* retry comes back to the same row, and no other row is reached before it. *)

Pending(p) == {a \in Attempt : doc[a].phone = p /\ doc[a].status = "pending"}

\* A bug: the row lands with the reason where the status belongs.
LandsReason(a) == IF doc[a].unverified THEN "accepted" ELSE doc[a].burn

\* accepted or rejected, from the burn outcome (an unverified row burns nothing).
LandedStatus(a) ==
  IF doc[a].unverified \/ doc[a].burn = "won" THEN "accepted" ELSE "rejected"

Land(p, a, status) ==
  lands' = lands \cup {[attempt |-> a, device |-> armed[p],
                        user |-> session[p], status |-> status]}

\* A bug: belt 1 dropped, a retry burns again.
CallRedeemAgain(p, a) ==
  /\ ~doc[a].unverified
  /\ calls' = calls \cup {[attempt |-> a, device |-> armed[p]]}
  /\ pc' = [pc EXCEPT ![p] = "burning"]
  /\ UNCHANGED lands

\* Belt 1: redeem() is called only while no outcome is persisted.
CallRedeem(p, a) ==
  /\ ~doc[a].unverified
  /\ doc[a].burn = "none"
  /\ calls' = calls \cup {[attempt |-> a, device |-> armed[p]]}
  /\ pc' = [pc EXCEPT ![p] = "burning"]
  /\ UNCHANGED lands

CallLand(p, a) ==
  /\ doc[a].unverified \/ doc[a].burn # "none"
  /\ Land(p, a, LandedStatus(a))
  /\ pc' = [pc EXCEPT ![p] = "landing"]
  /\ UNCHANGED calls

HandleRow(p, a) ==
  /\ CallRedeem(p, a) \/ CallLand(p, a)
  /\ cur' = [cur EXCEPT ![p] = a]
  /\ UNCHANGED <<codesVars, docVars, rowStatus, replica, idVars, armed,
                 minting, due, got, closes>>

StartRow(p, a) ==
  /\ pc[p] = "idle"
  /\ armed[p] # None
  /\ a \in Pending(p)
  /\ HandleRow(p, a)

Retry(p) ==
  /\ pc[p] = "backoff"
  /\ HandleRow(p, cur[p])

CallOf(p) == [attempt |-> cur[p], device |-> armed[p]]

\* redeem() commits and its answer reaches the handler that waits for it.
AnswerRedeem(p) ==
  /\ pc[p] = "burning"
  /\ CallOf(p) \in calls
  /\ LET c == doc[cur[p]].code
         verdict == Verdict(c)
     IN  /\ Redeem(c, armed[p], cur[p])
         /\ pc' = [pc EXCEPT ![p] = IF verdict = "already_used"
                                    THEN "awaiting" ELSE "patching"]
         /\ got' = [got EXCEPT ![p] = CASE verdict = "ok" -> "won"
                                        [] verdict = "expired" -> "expired"
                                        [] OTHER -> "none"]
  /\ calls' = calls \ {CallOf(p)}
  /\ UNCHANGED <<age, docVars, rowStatus, replica, idVars, armed, minting,
                 due, cur, closes, lands>>

\* redeem() commits and nobody hears of it: the answer is lost, or the page is
\* gone. (A request that is never served needs no action: it stays in calls.)
ServeRedeemUnheard(r) ==
  /\ r \in calls
  /\ Redeem(doc[r.attempt].code, r.device, r.attempt)
  /\ calls' = calls \ {r}
  /\ UNCHANGED <<age, docVars, rowStatus, replica, idVars, pageVars, lands>>

\* fetch rejects, or redeem() answers something else than 200: the handler throws.
FailRedeem(p) ==
  /\ pc[p] = "burning"
  /\ pc' = [pc EXCEPT ![p] = "backoff"]
  /\ UNCHANGED <<codesVars, docVars, rowStatus, replica, idVars, netVars,
                 armed, minting, due, cur, got, closes>>

Winner(p) == replica[p][doc[cur[p]].code]

WinnerSeen(p, outcome) ==
  /\ pc[p] = "awaiting"
  /\ Winner(p) # None
  /\ got' = [got EXCEPT ![p] = outcome]
  /\ pc' = [pc EXCEPT ![p] = "patching"]
  /\ UNCHANGED <<codesVars, docVars, rowStatus, replica, idVars, netVars,
                 armed, minting, due, cur, closes>>

\* Bugs: belt 2 dropped, and belt 2 taken for every winner.
BeltTwoDropped(p) == WinnerSeen(p, "already_used")
BeltTwoForAll(p) == WinnerSeen(p, "won")

\* awaitWinner() finds a winner. Belt 2: if it is this device, the attempt won.
SeeWinner(p) ==
  WinnerSeen(p, IF Winner(p) = armed[p] THEN "won" ELSE "already_used")

\* A bug: past the deadline the attempt is rejected, winner or no winner.
WinnerGuessed(p) ==
  /\ pc[p] = "awaiting"
  /\ Winner(p) = None
  /\ got' = [got EXCEPT ![p] = "already_used"]
  /\ pc' = [pc EXCEPT ![p] = "patching"]
  /\ UNCHANGED <<codesVars, docVars, rowStatus, replica, idVars, netVars,
                 armed, minting, due, cur, closes>>

\* The deadline passes while the replica names no winner: the handler throws.
WinnerTimeout(p) ==
  /\ pc[p] = "awaiting"
  /\ Winner(p) = None
  /\ pc' = [pc EXCEPT ![p] = "backoff"]
  /\ UNCHANGED <<codesVars, docVars, rowStatus, replica, idVars, netVars,
                 armed, minting, due, cur, got, closes>>

\* Belt 1: the outcome is persisted before the landing insert is sent. The
\* winner is the one awaitWinner found: no redemption is ever undone.
PersistBurn(p) ==
  /\ pc[p] = "patching"
  /\ doc' = [doc EXCEPT ![cur[p]] =
                [@ EXCEPT !.burn = got[p],
                          !.winner = IF got[p] = "already_used"
                                     THEN Winner(p) ELSE None]]
  /\ got' = [got EXCEPT ![p] = "none"]
  /\ Land(p, cur[p], IF got[p] = "won" THEN "accepted" ELSE "rejected")
  /\ pc' = [pc EXCEPT ![p] = "landing"]
  /\ UNCHANGED <<codesVars, rowStatus, replica, idVars, armed, minting, due, cur,
                 closes, calls>>

\* Row level security: the row's device must be the user who inserts it.
Allowed(r) == r.device = r.user

\* The insert: refused, or the row is there (201, or 409 when it already was).
InsertRow(r) ==
  rowStatus' = IF Allowed(r) /\ rowStatus[r.attempt] = None
               THEN [rowStatus EXCEPT ![r.attempt] = r.status]
               ELSE rowStatus

\* The insert is answered, and the handler resolves the row or throws.
LandAnswered(p, r, landed) ==
  /\ pc[p] = "landing"
  /\ r \in lands
  /\ r.attempt = cur[p]
  /\ r.device = armed[p]
  /\ InsertRow(r)
  /\ pc' = [pc EXCEPT ![p] = IF landed THEN "resolving" ELSE "backoff"]
  /\ lands' = lands \ {r}
  /\ UNCHANGED <<codesVars, docVars, replica, idVars, armed, minting, due, cur,
                 got, closes, calls>>

\* Bugs: a refused row counts as landed, and a duplicate does not.
RefusalLands(p, r) == LandAnswered(p, r, TRUE)
DuplicateThrows(p, r) ==
  LandAnswered(p, r, Allowed(r) /\ rowStatus[r.attempt] = None)

\* 201 and 409 both count as landed, 403 throws.
AnswerLand(p, r) == LandAnswered(p, r, Allowed(r))

ServeLandUnheard(r) ==
  /\ r \in lands
  /\ InsertRow(r)
  /\ lands' = lands \ {r}
  /\ UNCHANGED <<codesVars, docVars, replica, idVars, pageVars, calls>>

FailLand(p) ==
  /\ pc[p] = "landing"
  /\ pc' = [pc EXCEPT ![p] = "backoff"]
  /\ UNCHANGED <<codesVars, docVars, rowStatus, replica, idVars, netVars,
                 armed, minting, due, cur, got, closes>>

\* The flip the scanner shows; the loop goes on to the next row.
Resolve(p) ==
  /\ pc[p] = "resolving"
  /\ doc' = [doc EXCEPT ![cur[p]].status = LandedStatus(cur[p])]
  /\ pc' = [pc EXCEPT ![p] = "idle"]
  /\ cur' = [cur EXCEPT ![p] = None]
  /\ UNCHANGED <<codesVars, rowStatus, replica, idVars, netVars, armed,
                 minting, due, got, closes>>

----------------------------------------------------------------------------
(* The rest of the world.                                                  *)

\* A submission through the other door burns the code.
OnlineBurn(c) ==
  /\ Burnable(c)
  /\ Redeem(c, Door, Door)
  /\ UNCHANGED <<age, docVars, rowStatus, replica, idVars, pageVars, netVars>>

CodeAges(c) ==
  /\ GrowOlder(c)
  /\ age'[c] = "outside" => MaySlip
  /\ UNCHANGED <<docVars, rowStatus, replica, idVars, pageVars, netVars>>

----------------------------------------------------------------------------

HandlerStep(p) ==
  \/ \E a \in Attempt : StartRow(p, a)
  \/ Retry(p)
  \/ FailRedeem(p)
  \/ SeeWinner(p)
  \/ WinnerTimeout(p)
  \/ PersistBurn(p)
  \/ FailLand(p)
  \/ Resolve(p)

Next ==
  \/ \E p \in Phone :
       \/ OpenPage(p) \/ Provision(p) \/ MintFails(p) \/ ClosePage(p)
       \/ \E u \in User : SwitchUser(p, u)
       \/ \E a \in Attempt, c \in Code, u \in BOOLEAN : Enqueue(p, a, c, u)
       \/ Nudge(p) \/ PullCodes(p)
       \/ HandlerStep(p)
       \/ AnswerRedeem(p)
       \/ \E r \in lands : AnswerLand(p, r)
  \/ \E r \in calls : ServeRedeemUnheard(r)
  \/ \E r \in lands : ServeLandUnheard(r)
  \/ \E c \in Code : OnlineBurn(c) \/ CodeAges(c)

Spec == Init /\ [][Next]_vars

\* The page is opened again, the handler's own steps and RxDB's retry happen, a
\* pull that has started ends, and a network that loses requests answers one of
\* the retries in the end. Nobody has to scan, sign in, submit or close.
Fairness ==
  /\ \A p \in Phone :
       /\ WF_vars(OpenPage(p))
       /\ WF_vars(HandlerStep(p))
       /\ SF_vars(AnswerRedeem(p))
       /\ SF_vars(\E r \in lands : AnswerLand(p, r))
       /\ WF_vars(PullCodes(p))

FairSpec == Spec /\ Fairness

\* Moreover the phone is put away and taken out again, or loses HQ and finds it.
NudgedSpec == FairSpec /\ \A p \in Phone : WF_vars(Nudge(p))

----------------------------------------------------------------------------
(* Properties.                                                             *)

\* GAP-1, belt 1: once an attempt's outcome is persisted, its phone never sends
\* redeem() for it again, whatever dies, is lost or is retried afterwards, and
\* the outcome stays what it was.
BeltOneHolds ==
  [][\A a \in Attempt : doc[a].burn # "none" =>
       /\ doc'[a].burn = doc[a].burn
       /\ \A r \in calls' \ calls : r.attempt # a]_vars

\* The audit row on the server and the row the crew sees never disagree: a
\* resolved attempt has landed, with the status that was shown.
ResolvedHasLanded ==
  \A a \in Attempt :
    doc[a].status \in {"accepted", "rejected"} => rowStatus[a] = doc[a].status

\* An attempt that lost the race names a winner, and it is the redeemer of the
\* code on the server: no rejection is a guess.
LoserNamesWinner ==
  \A a \in Attempt :
    doc[a].burn = "already_used" =>
      /\ doc[a].winner # None
      /\ doc[a].winner = redeemedBy[doc[a].code]

\* A verified attempt is accepted only if its own call burned the code, so no
\* code is ever accepted for two of them.
AcceptedOwnsBurn ==
  \A a \in Attempt :
    doc[a].status = "accepted" /\ ~doc[a].unverified => burner[doc[a].code] = a

\* GAP-1: the attempt that burned a code is never turned into a rejection, here
\* or on the server, though its answer was lost and it heard already_used.
BurnerNotRejected ==
  \A a \in Attempt, c \in Code :
    burner[c] = a => doc[a].status # "rejected" /\ rowStatus[a] # "rejected"

\* At most one verified attempt of all phones is accepted for a code.
OneAcceptedPerCode ==
  \A a, b \in Attempt :
    /\ doc[a].status = "accepted" /\ ~doc[a].unverified
    /\ doc[b].status = "accepted" /\ ~doc[b].unverified
    /\ doc[a].code = doc[b].code
    => a = b

\* The push replica drains the queue whenever connectivity exists: a phone that has
\* coordinates to sync with gets every attempt of its queue resolved, through lost
\* answers, retries and reloads.
QueueDrains ==
  \A p \in Phone, a \in Attempt :
    (a \in Pending(p) /\ stored[p] # None) ~> (a \notin Pending(p))

\* The offline door keeps the promise of SingleUse.
Single == INSTANCE SingleUse WITH
  Outsider <- Door,
  winner <- burner,
  target <- [a \in Attempt |-> IF doc[a].unverified THEN None ELSE doc[a].code],
  answer <- [a \in Attempt |-> CASE doc[a].burn = "won" -> "won"
                                 [] doc[a].burn = "none" -> "none"
                                 [] OTHER -> "lost"]

ImplementsSingleUse == Single!Spec
=============================================================================
