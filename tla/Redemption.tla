----------------------------- MODULE Redemption -----------------------------
(***************************************************************************)
(* The online door: HQ's POST /marketing/redeem. One request starts one    *)
(* arbitration: a statechart that calls redeem() with a bounded retry, an  *)
(* observer that settles on its terminal, and the awaiting goroutine that  *)
(* records a lost race before it answers, or answers that the budget is    *)
(* spent or the client gone. Any redeem() call may fail before or after    *)
(* the commit, and an abandoned one may commit later.                      *)
(***************************************************************************)
EXTENDS Codes, Naturals

CONSTANTS Client,     \* scanner pages, and syncing clients; one device each
          Request,    \* bound: the requests clients may make
          Unknown,    \* a token that names no code
          CodeOf,     \* the code each client's token names
          Override,   \* clients that sync an offline override
          MaxRetries  \* redeem() calls an arbitration may make after the first

ASSUME RedemptionAssumption ==
  /\ Device = Client
  /\ Caller = Request
  /\ None \notin Client \cup Request \cup Code
  /\ Unknown \notin Code \cup {None}
  /\ CodeOf \in [Client -> Code \cup {Unknown}]
  /\ Override \subseteq Client
  /\ MaxRetries \in Nat

VARIABLES by,      \* the client that made the request
          machine, \* state of the request's statechart
          retries, \* Attempt.Retries
          arb,     \* where the Arbitrate goroutine is
          reply,   \* what it answers
          calls,   \* redeem() calls in flight, numbered by the retry
          notes,   \* requests with a row in race_lost_notifications
          ask,     \* the request a client waits for
          page,    \* what a client's screen says
          told     \* history: everything a client was told

vars == <<codesVars, by, machine, retries, arb, reply, calls, notes,
          ask, page, told>>

Verdicts == {"redeemed", "already_used", "expired", "not_found"}
Errors == {"error", "notification_failed", "timeout", "cancelled"}
Terminals == {"redeemed", "already_used", "expired", "failed", "not_found"}
MachineStates == Terminals \cup {"none", "burning", "calling", "retry_wait", "stopped"}

TypeOK ==
  /\ CodesTypeOK
  /\ by \in [Request -> Client \cup {None}]
  /\ machine \in [Request -> MachineStates]
  /\ retries \in [Request -> 0..MaxRetries]
  /\ arb \in [Request -> {"none", "running", "emitting", "leaving", "done"}]
  /\ reply \in [Request -> Verdicts \cup Errors \cup {"none"}]
  /\ calls \subseteq Request \X (0..MaxRetries)
  /\ notes \subseteq Request
  /\ ask \in [Client -> Request \cup {None}]
  /\ page \in [Client -> {"ready", "submitting", "error"} \cup Verdicts]
  /\ told \in [Client -> SUBSET Verdicts]

Init ==
  /\ CodesInit
  /\ by = [r \in Request |-> None]
  /\ machine = [r \in Request |-> "none"]
  /\ retries = [r \in Request |-> 0]
  /\ arb = [r \in Request |-> "none"]
  /\ reply = [r \in Request |-> "none"]
  /\ calls = {}
  /\ notes = {}
  /\ ask = [k \in Client |-> None]
  /\ page = [k \in Client |-> "ready"]
  /\ told = [k \in Client |-> {}]

Token(r) == CodeOf[by[r]]

----------------------------------------------------------------------------
(* The client.                                                             *)

\* A submission: a fresh scan, or RETRY after an error. The handler starts the
\* machine, which validates the token and enters burning.
Submit(k, r) ==
  /\ page[k] # "submitting"
  /\ by[r] = None
  /\ by' = [by EXCEPT ![r] = k]
  /\ machine' = [machine EXCEPT ![r] = "burning"]
  /\ arb' = [arb EXCEPT ![r] = "running"]
  /\ ask' = [ask EXCEPT ![k] = r]
  /\ page' = [page EXCEPT ![k] = "submitting"]
  /\ UNCHANGED <<codesVars, retries, reply, calls, notes, told>>

\* The response arrives; whatever is not a verdict is an error on the screen.
Hear(k) ==
  /\ page[k] = "submitting"
  /\ arb[ask[k]] = "done"
  /\ LET answer == reply[ask[k]]
     IN IF answer \in Verdicts
        THEN /\ page' = [page EXCEPT ![k] = answer]
             /\ told' = [told EXCEPT ![k] = @ \cup {answer}]
        ELSE /\ page' = [page EXCEPT ![k] = "error"]
             /\ UNCHANGED told
  /\ UNCHANGED <<codesVars, by, machine, retries, arb, reply, calls, notes, ask>>

\* The network fails, or SUBMIT_TIMEOUT_MS passes.
GiveUp(k) ==
  /\ page[k] = "submitting"
  /\ page' = [page EXCEPT ![k] = "error"]
  /\ UNCHANGED <<codesVars, by, machine, retries, arb, reply, calls, notes,
                 ask, told>>

----------------------------------------------------------------------------
(* The statechart.                                                         *)

\* Identity resolution: the token's row is looked up. No row is a verdict; a row
\* is followed by the redeem() call.
ResolveCode(r) ==
  /\ machine[r] = "burning"
  /\ IF Token(r) \in Code
     THEN /\ calls' = calls \cup {<<r, retries[r]>>}
          /\ machine' = [machine EXCEPT ![r] = "calling"]
     ELSE /\ machine' = [machine EXCEPT ![r] = "not_found"]
          /\ UNCHANGED calls
  /\ UNCHANGED <<codesVars, by, retries, arb, reply, notes, ask, page, told>>

\* redeem() commits and answers: route_outcome goes to the verdict's terminal.
RouteOutcome(r) ==
  /\ machine[r] = "calling"
  /\ <<r, retries[r]>> \in calls
  /\ Redeem(Token(r), by[r], r)
  /\ machine' = [machine EXCEPT ![r] = IF Verdict(Token(r)) = "ok"
                                       THEN "redeemed" ELSE Verdict(Token(r))]
  /\ calls' = calls \ {<<r, retries[r]>>}
  /\ UNCHANGED <<age, by, retries, arb, reply, notes, ask, page, told>>

\* redeem() commits, and its answer is lost or its call was abandoned.
CommitUnheard(x) ==
  /\ x \in calls
  /\ Redeem(Token(x[1]), by[x[1]], x[1])
  /\ calls' = calls \ {x}
  /\ UNCHANGED <<age, by, machine, retries, arb, reply, notes, ask, page, told>>

\* A bug: one retry too many.
OneRetryMore(r) ==
  /\ machine[r] \in {"burning", "calling"}
  /\ IF retries[r] <= MaxRetries
     THEN /\ retries' = [retries EXCEPT ![r] = @ + 1]
          /\ machine' = [machine EXCEPT ![r] = "retry_wait"]
     ELSE /\ machine' = [machine EXCEPT ![r] = "failed"]
          /\ UNCHANGED retries
  /\ UNCHANGED <<codesVars, by, arb, reply, calls, notes, ask, page, told>>

\* The lookup or the call errs: route_failure spends the budget before the wait.
RouteFailure(r) ==
  /\ machine[r] \in {"burning", "calling"}
  /\ IF retries[r] < MaxRetries
     THEN /\ retries' = [retries EXCEPT ![r] = @ + 1]
          /\ machine' = [machine EXCEPT ![r] = "retry_wait"]
     ELSE /\ machine' = [machine EXCEPT ![r] = "failed"]
          /\ UNCHANGED retries
  /\ UNCHANGED <<codesVars, by, arb, reply, calls, notes, ask, page, told>>

RetryAfter(r) ==
  /\ machine[r] = "retry_wait"
  /\ machine' = [machine EXCEPT ![r] = "burning"]
  /\ UNCHANGED <<codesVars, by, retries, arb, reply, calls, notes, ask, page, told>>

----------------------------------------------------------------------------
(* The awaiting goroutine.                                                 *)

WireResult(r) == IF machine[r] = "failed" THEN "error" ELSE machine[r]

RaceLost(r) == machine[r] = "already_used" /\ by[r] \in Override

\* A bug: the verdict is answered before the lost race is recorded.
AnswersFirst(r) ==
  /\ arb[r] = "running"
  /\ machine[r] \in Terminals
  /\ arb' = [arb EXCEPT ![r] = IF RaceLost(r) THEN "emitting" ELSE "done"]
  /\ reply' = [reply EXCEPT ![r] = WireResult(r)]
  /\ UNCHANGED <<codesVars, by, machine, retries, calls, notes, ask, page, told>>

\* The observer has settled: a lost race is recorded first, others are answered.
AwaitVerdict(r) ==
  /\ arb[r] = "running"
  /\ machine[r] \in Terminals
  /\ IF RaceLost(r)
     THEN /\ arb' = [arb EXCEPT ![r] = "emitting"]
          /\ UNCHANGED reply
     ELSE /\ arb' = [arb EXCEPT ![r] = "done"]
          /\ reply' = [reply EXCEPT ![r] = WireResult(r)]
  /\ UNCHANGED <<codesVars, by, machine, retries, calls, notes, ask, page, told>>

Emit(r) ==
  /\ arb[r] = "emitting"
  /\ notes' = notes \cup {r}
  /\ reply' = [reply EXCEPT ![r] = WireResult(r)]
  /\ arb' = [arb EXCEPT ![r] = "done"]
  /\ UNCHANGED <<codesVars, by, machine, retries, calls, ask, page, told>>

\* The insert errs; it may have committed all the same.
EmitFails(r) ==
  /\ arb[r] = "emitting"
  /\ notes' \in {notes, notes \cup {r}}
  /\ reply' = [reply EXCEPT ![r] = "notification_failed"]
  /\ arb' = [arb EXCEPT ![r] = "done"]
  /\ UNCHANGED <<codesVars, by, machine, retries, calls, ask, page, told>>

\* A bug: the budget is looked at between calls only.
BudgetBetweenCalls(r) ==
  /\ machine[r] = "retry_wait"
  /\ arb[r] = "running"
  /\ reply' = [reply EXCEPT ![r] = "timeout"]
  /\ arb' = [arb EXCEPT ![r] = "leaving"]
  /\ UNCHANGED <<codesVars, by, machine, retries, calls, notes, ask, page, told>>

\* The select takes the timer, even when the observer has settled too. The actor
\* is stopped when Arbitrate returns, and may take steps until then.
TimesOut(r) ==
  /\ arb[r] = "running"
  /\ reply' = [reply EXCEPT ![r] = "timeout"]
  /\ arb' = [arb EXCEPT ![r] = "leaving"]
  /\ UNCHANGED <<codesVars, by, machine, retries, calls, notes, ask, page, told>>

\* The client went away, and its request's context with it.
Cancelled(r) ==
  /\ arb[r] = "running"
  /\ ~(page[by[r]] = "submitting" /\ ask[by[r]] = r)
  /\ reply' = [reply EXCEPT ![r] = "cancelled"]
  /\ arb' = [arb EXCEPT ![r] = "leaving"]
  /\ UNCHANGED <<codesVars, by, machine, retries, calls, notes, ask, page, told>>

\* A bug: Arbitrate returns and its actor lives on.
LeakActor(r) ==
  /\ arb[r] = "leaving"
  /\ arb' = [arb EXCEPT ![r] = "done"]
  /\ UNCHANGED <<codesVars, by, machine, retries, reply, calls, notes, ask, page, told>>

\* defer actor.Stop(): a call in flight is cancelled, which the database may not hear.
StopActor(r) ==
  /\ arb[r] = "leaving"
  /\ arb' = [arb EXCEPT ![r] = "done"]
  /\ machine' = [machine EXCEPT ![r] = "stopped"]
  /\ UNCHANGED <<codesVars, by, retries, reply, calls, notes, ask, page, told>>

CodeAges(c) ==
  /\ GrowOlder(c)
  /\ age'[c] = "expired"
  /\ UNCHANGED <<by, machine, retries, arb, reply, calls, notes, ask, page, told>>

----------------------------------------------------------------------------

Goroutine(r) == AwaitVerdict(r) \/ Emit(r) \/ EmitFails(r) \/ StopActor(r)

Next ==
  \/ \E k \in Client :
       \/ \E r \in Request : Submit(k, r)
       \/ Hear(k) \/ GiveUp(k)
  \/ \E r \in Request :
       \/ ResolveCode(r) \/ RouteOutcome(r) \/ RouteFailure(r) \/ RetryAfter(r)
       \/ Goroutine(r) \/ TimesOut(r) \/ Cancelled(r)
  \/ \E x \in calls : CommitUnheard(x)
  \/ \E c \in Code : CodeAges(c)

Spec == Init /\ [][Next]_vars

\* Goroutines are scheduled and the timer fires. The database need not answer.
Fairness ==
  \A r \in Request : WF_vars(Goroutine(r)) /\ WF_vars(TimesOut(r))

FairSpec == Spec /\ Fairness

----------------------------------------------------------------------------
(* Properties.                                                             *)

\* Nobody is told "redeemed" unless the request that says so burned the code: of
\* all requests, retries and clients, at most one hears it for a code.
RedeemedIsBurner ==
  \A r \in Request : reply[r] = "redeemed" => burner[Token(r)] = r

\* F4: an override hears already_used only after its lost race is recorded, and
\* nothing is recorded for a request that is not an override's lost race.
RaceLostOnRecord ==
  \A r \in Request :
    /\ reply[r] = "already_used" /\ by[r] \in Override => r \in notes
    /\ r \in notes => /\ by[r] \in Override
                      /\ reply[r] \in {"already_used", "notification_failed"}
                      /\ redeemedBy[Token(r)] # None

\* Arbitrating again is stable: a client told already_used, expired or not_found
\* hears nothing else afterwards but errors, and redeemed is followed only by
\* already_used.
VerdictsAreStable ==
  [][\A k \in Client :
       LET news == told'[k] \ told[k]
       IN  /\ told[k] # {} => news \subseteq {"already_used"}
           /\ told[k] \cap {"expired", "not_found"} # {} => news = {}]_vars

\* An arbitration that was answered makes no further call of redeem(), so a
\* timeout shown to a client is not followed by a new attempt to burn.
NoCallAfterReply ==
  [][\A r \in Request : arb[r] = "done" =>
       \A x \in calls' \ calls : x[1] # r]_vars

\* Every request is answered, however the database behaves.
EveryRequestAnswered ==
  \A r \in Request : (by[r] # None) ~> (arb[r] = "done")

\* The error card of the scanner: "Nothing was redeemed."
ErrorMeansNotRedeemed ==
  \A k \in Client :
    page[k] = "error" /\ CodeOf[k] \in Code => burner[CodeOf[k]] # ask[k]
=============================================================================
