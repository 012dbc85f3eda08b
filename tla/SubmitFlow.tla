----------------------------- MODULE SubmitFlow -----------------------------
(***************************************************************************)
(* The scanner screen: the statechart of submit-machine.js driven by the   *)
(* page. A scan is a task that awaits three times (the hash, the resolver, *)
(* the codes collection) while taps, the reachability probe, a verdict or  *)
(* another scan come in between, and each await may fail; the statechart   *)
(* has the regions conn, ov and sc, and every region reads the context as  *)
(* it was before the event.                                                *)
(*                                                                         *)
(* The probe sends CONN_UP and RESUBSCRIBED in one task, so "stale" lasts  *)
(* no longer than ProbeOk. Every pair of state and event is declared, so   *)
(* unexpectedEvent is never entered and is left out.                       *)
(***************************************************************************)
CONSTANTS Code,           \* token hashes that get scanned
          Source,         \* ways a scan starts: the camera, a picked file
          RequiresOnline, \* codes whose campaign refuses an override
          CanOverride,    \* the crew member may override offline
          None

ASSUME SubmitFlowAssumption ==
  /\ None \notin Code
  /\ RequiresOnline \subseteq Code
  /\ CanOverride \in BOOLEAN

VARIABLES conn,       \* connectivity region
          ov,         \* overlay region: the finish-first prompt
          sc,         \* scan region
          session,    \* context.sessionCode
          kind,       \* context.resolutionKind
          reqOnline,  \* context.requiresOnline
          override,   \* context.overrideAvailable
          gateReturn, \* context.gateReturn
          stash,      \* SUBMIT_CTX: the code the page would submit, and whether
                      \* it names a row of the replica (code_id is not null)
          orderOk,    \* ORDER_STATE.ok
          scan,       \* the last scan of each source
          flight,     \* the online submit whose verdict is awaited
          sent        \* the session's last effect: what was submitted or recorded

ctxVars == <<session, kind, reqOnline, override, gateReturn>>
pageVars == <<stash, orderOk>>
vars == <<conn, ov, sc, ctxVars, pageVars, scan, flight, sent>>

Kinds == {"offerReady", "spentLocally", "expiredLocally", "unknownCode"}
Served == {"redeemed", "alreadyUsed", "expired", "notFound", "error"}
Terminal == (Served \ {"error"}) \cup {"spentLocally", "expiredLocally", "overridePending"}
ScanStates == Served \cup Terminal \cup
  {"idle", "resolving", "offerReady", "readyToSubmit", "unknownCode",
   "blockedOffline", "overrideConfirm", "submitting"}

\* A bug: a submit in flight may be reset.
ResettableMidSubmit == ScanStates \ {"idle", "overrideConfirm"}

\* NEXT_CUSTOMER is a reset in these, and a different code prompts in the same
\* ones: not mid-submit, and not mid-confirmation.
Interruptible == ScanStates \ {"idle", "submitting", "overrideConfirm"}

NoStash == [code |-> None, named |-> FALSE]

\* A scan that is over, one whose doScan() threw, and a way to scan that the crew
\* member does not use.
NoScan == [step |-> "none", code |-> None]
Failed == [step |-> "failed", code |-> None]
Unused == [step |-> "unused", code |-> None]
Scans == [step: {"none", "failed", "unused", "hashing", "resolving", "finding"},
          code: Code \cup {None}]

TypeOK ==
  /\ conn \in {"online", "offline"}
  /\ ov \in {"none", "prompt"}
  /\ sc \in ScanStates
  /\ session \in Code \cup {None}
  /\ kind \in Kinds \cup {"none"}
  /\ reqOnline \in BOOLEAN
  /\ override \in BOOLEAN
  /\ gateReturn \in {"none", "readyToSubmit", "unknownCode"}
  /\ stash \in [code: Code \cup {None}, named: BOOLEAN]
  /\ orderOk \in BOOLEAN
  /\ scan \in [Source -> Scans]
  /\ flight \in Code \cup {None}
  /\ sent \in [type: {"none", "submit", "override"}, code: Code \cup {None},
               session: Code \cup {None}, unverified: BOOLEAN, named: BOOLEAN]

NothingSent == [type |-> "none", code |-> None, session |-> None,
                unverified |-> FALSE, named |-> FALSE]

ResetCtx ==
  /\ session' = None
  /\ kind' = "none"
  /\ reqOnline' = FALSE
  /\ override' = FALSE
  /\ gateReturn' = "none"

\* Boot claims no liveness before the first probe.
Init ==
  /\ conn = "offline"
  /\ ov = "none"
  /\ sc = "idle"
  /\ session = None
  /\ kind = "none"
  /\ reqOnline = FALSE
  /\ override = FALSE
  /\ gateReturn = "none"
  /\ stash = NoStash
  /\ orderOk = FALSE
  /\ scan \in [Source -> {NoScan, Unused}] \ {[s \in Source |-> Unused]}
  /\ flight = None
  /\ sent = NothingSent

----------------------------------------------------------------------------
(* Scanning.                                                               *)

\* A QR is decoded; doScan() asks the gate, which awaits the token's hash. The
\* camera drops a decode while its last one is in doScan(); a file does not wait
\* for the camera.
Decode(s, c) ==
  /\ scan[s] \in {NoScan, Failed}
  /\ scan' = [scan EXCEPT ![s] = [step |-> "hashing", code |-> c]]
  /\ UNCHANGED <<conn, ov, sc, ctxVars, pageVars, flight, sent>>

\* A bug: a different code takes the session over, whatever its state.
GateTakesOver(s) ==
  /\ scan[s].step = "hashing"
  /\ session' = scan[s].code
  /\ sc' = IF sc = "idle" THEN "resolving" ELSE sc
  /\ scan' = [scan EXCEPT ![s] = IF sc = "idle" THEN [@ EXCEPT !.step = "resolving"]
                                                 ELSE NoScan]
  /\ UNCHANGED <<conn, ov, kind, reqOnline, override, gateReturn, pageVars, flight, sent>>

\* A bug: a code that is being resolved already is not resolved again.
FreshOnly(s) == sc = "idle" /\ sc' = "resolving"

\* What the gate answers: the machine resolves this code, whoever began it.
Admits(s) == sc' = "resolving" /\ session' = scan[s].code

\* gate(): SCAN if idle, then QR_DECODED. The scan goes on when the machine is
\* resolving this code; a different code in a session brings up the prompt.
Gate(s) ==
  /\ scan[s].step = "hashing"
  /\ LET c == scan[s].code
     IN  /\ IF sc = "idle"
            THEN sc' = "resolving" /\ session' = c
            ELSE UNCHANGED <<sc, session>>
         /\ ov' = IF session \notin {None, c} /\ sc \in Interruptible
                  THEN "prompt" ELSE ov
         /\ scan' = [scan EXCEPT ![s] =
                       IF Admits(s) THEN [@ EXCEPT !.step = "resolving"] ELSE NoScan]
  /\ UNCHANGED <<conn, kind, reqOnline, override, gateReturn, pageVars, flight, sent>>

\* The digest or a read of the replica rejects, and doScan() throws: the machine is
\* told nothing. A gate that throws is passed over, and the resolver throws after it.
ScanFails(s) ==
  /\ scan[s].step \in {"hashing", "resolving"}
  /\ scan' = [scan EXCEPT ![s] = Failed]
  /\ UNCHANGED <<conn, ov, sc, ctxVars, pageVars, flight, sent>>

\* The end of onResult(): the stash is replaced, and RESOLVED moves a machine
\* that is resolving and shows no prompt. F3: online, the server decides.
Bind(c, k, named) ==
  /\ stash' = [code |-> c, named |-> named]
  /\ orderOk' = FALSE
  /\ IF sc = "resolving" /\ ov = "none"
     THEN /\ sc' = IF k = "spentLocally" /\ conn = "online" THEN "offerReady" ELSE k
          /\ kind' = k
          /\ reqOnline' = (named /\ c \in RequiresOnline)
     ELSE UNCHANGED <<sc, kind, reqOnline>>

\* resolve() answers and onResult() goes on if the machine is still resolving
\* something; a code the replica shows as redeemed is looked up once more.
ResolverDone(s, k) ==
  /\ scan[s].step = "resolving"
  /\ IF sc # "resolving"
     THEN /\ scan' = [scan EXCEPT ![s] = NoScan]
          /\ UNCHANGED <<sc, kind, reqOnline, pageVars>>
     ELSE IF k = "spentLocally"
     THEN /\ scan' = [scan EXCEPT ![s].step = "finding"]
          /\ UNCHANGED <<sc, kind, reqOnline, pageVars>>
     ELSE /\ scan' = [scan EXCEPT ![s] = NoScan]
          /\ Bind(scan[s].code, k, k = "offerReady")
  /\ UNCHANGED <<conn, ov, session, override, gateReturn, flight, sent>>

\* The lookup finds the row or not: it may reject, or the row may be gone, and then
\* the stash names none and no policy is asked. What the machine did meanwhile is
\* not asked again.
FindDone(s, found) ==
  /\ scan[s].step = "finding"
  /\ scan' = [scan EXCEPT ![s] = NoScan]
  /\ Bind(scan[s].code, "spentLocally", found)
  /\ UNCHANGED <<conn, ov, session, override, gateReturn, flight, sent>>

----------------------------------------------------------------------------
(* The crew member.                                                        *)

\* A bug: the prompt does not block the field under it.
TypeUnderPrompt(ok) ==
  /\ sc = "offerReady"
  /\ orderOk' = ok
  /\ sc' = IF ok THEN "readyToSubmit" ELSE sc
  /\ UNCHANGED <<conn, ov, ctxVars, stash, scan, flight, sent>>

\* The order number is typed, rightly or not; a right one arms the submit.
TypeOrder(ok) ==
  /\ sc \in {"offerReady", "readyToSubmit", "unknownCode", "blockedOffline",
             "overrideConfirm", "submitting"}
  /\ orderOk' = ok
  /\ sc' = IF ok /\ sc = "offerReady" /\ ov = "none" THEN "readyToSubmit" ELSE sc
  /\ UNCHANGED <<conn, ov, ctxVars, stash, scan, flight, sent>>

Send(type) ==
  sent' = [type |-> type, code |-> stash.code, session |-> session,
           unverified |-> type = "override" /\ kind = "unknownCode",
           named |-> stash.named]

\* SUBMIT online: the request is for what SUBMIT_CTX names.
SubmitOnline ==
  /\ sc \in {"readyToSubmit", "unknownCode"}
  /\ ov = "none"
  /\ orderOk
  /\ conn = "online"
  /\ IF stash.code = None THEN UNCHANGED sent ELSE Send("submit")
  /\ flight' = stash.code
  /\ sc' = IF stash.code = None THEN "error" ELSE "submitting"
  /\ UNCHANGED <<conn, ov, ctxVars, pageVars, scan>>

GateSubmit(mayOverride, returnTo) ==
  /\ sc \in {"readyToSubmit", "unknownCode"}
  /\ ov = "none"
  /\ orderOk
  /\ conn # "online"
  /\ sc' = "blockedOffline"
  /\ override' = mayOverride
  /\ gateReturn' = returnTo
  /\ UNCHANGED <<conn, ov, session, kind, reqOnline, pageVars, scan, flight, sent>>

\* Bugs: the campaign's policy is not asked, and the way back is forgotten.
PolicyNotAsked == GateSubmit(CanOverride, sc)
WayBackForgotten == GateSubmit(CanOverride /\ ~reqOnline, gateReturn)

\* SUBMIT offline: the gate, which remembers where it came from.
SubmitBlocked == GateSubmit(CanOverride /\ ~reqOnline, sc)

OverrideRequest ==
  /\ sc = "blockedOffline"
  /\ ov = "none"
  /\ override
  /\ sc' = "overrideConfirm"
  /\ UNCHANGED <<conn, ov, ctxVars, pageVars, scan, flight, sent>>

\* The attempt is recorded, of what SUBMIT_CTX names.
OverrideConfirm ==
  /\ sc = "overrideConfirm"
  /\ ov = "none"
  /\ orderOk
  /\ sc' = "overridePending"
  /\ IF stash.code = None THEN UNCHANGED sent ELSE Send("override")
  /\ UNCHANGED <<conn, ov, ctxVars, pageVars, scan, flight>>

OverrideCancel ==
  /\ sc = "overrideConfirm"
  /\ ov = "none"
  /\ sc' = "blockedOffline"
  /\ UNCHANGED <<conn, ov, ctxVars, pageVars, scan, flight, sent>>

Retry ==
  /\ sc = "error"
  /\ ov = "none"
  /\ sc' = "readyToSubmit"
  /\ UNCHANGED <<conn, ov, ctxVars, pageVars, scan, flight, sent>>

Dismiss ==
  /\ ov = "prompt"
  /\ ov' = "none"
  /\ UNCHANGED <<conn, sc, ctxVars, pageVars, scan, flight, sent>>

\* Next customer, or Scan next: a reset, and the page forgets its session.
NextCustomer ==
  /\ sc \in Interruptible
  /\ ov' = "none"
  /\ sc' = "idle"
  /\ ResetCtx
  /\ stash' = NoStash
  /\ orderOk' = FALSE
  /\ sent' = NothingSent
  /\ UNCHANGED <<conn, scan, flight>>

----------------------------------------------------------------------------
(* The network.                                                            *)

\* A bug: a failed request ends without a word to the machine.
ErrorUnsaid(v) ==
  /\ flight # None
  /\ flight' = None
  /\ sc' = IF sc = "submitting" /\ v # "error" THEN v ELSE sc
  /\ UNCHANGED <<conn, ov, ctxVars, pageVars, scan, sent>>

\* The server's verdict, or a failure of the request; the error card is one too.
Verdict(v) ==
  /\ flight # None
  /\ flight' = None
  /\ sc' = IF sc = "submitting" /\ ov = "none" THEN v ELSE sc
  /\ UNCHANGED <<conn, ov, ctxVars, pageVars, scan, sent>>

ProbeFails ==
  /\ conn = "online"
  /\ conn' = "offline"
  /\ UNCHANGED <<ov, sc, ctxVars, pageVars, scan, flight, sent>>

\* CONN_UP, then RESUBSCRIBED: the gate resumes, under the prompt too.
ProbeOk ==
  /\ conn = "offline"
  /\ conn' = "online"
  /\ sc' = IF sc = "blockedOffline" THEN gateReturn ELSE sc
  /\ UNCHANGED <<ov, ctxVars, pageVars, scan, flight, sent>>

----------------------------------------------------------------------------

ScanStep(s) ==
  \/ Gate(s)
  \/ \E k \in Kinds : ResolverDone(s, k)
  \/ \E found \in BOOLEAN : FindDone(s, found)
  \/ ScanFails(s)

Next ==
  \/ \E s \in Source :
       \/ \E c \in Code : Decode(s, c)
       \/ ScanStep(s)
  \/ \E ok \in BOOLEAN : TypeOrder(ok)
  \/ SubmitOnline \/ SubmitBlocked
  \/ OverrideRequest \/ OverrideConfirm \/ OverrideCancel
  \/ Retry \/ Dismiss \/ NextCustomer
  \/ \E v \in Served : Verdict(v)
  \/ ProbeFails \/ ProbeOk

Spec == Init /\ [][Next]_vars

\* What is awaited is answered or rejected, and a submit is answered or times out.
Fairness ==
  /\ \A s \in Source : WF_vars(ScanStep(s))
  /\ WF_vars(\E v \in Served : Verdict(v))

FairSpec == Spec /\ Fairness

----------------------------------------------------------------------------
(* Properties.                                                             *)

\* What is submitted or recorded is the code of the session on the screen, never
\* one that a scan of an earlier session left behind.
SentIsSession == sent.code = sent.session

\* The crew member uses one way to scan.
OneSource ==
  \A s, t \in Source : scan[s].step # "unused" /\ scan[t].step # "unused" => s = t

\* Whoever scans in one way only submits the code on the screen.
AloneSendsSession == OneSource => SentIsSession

\* Scanning in one way only, an override that names a row of the replica is of a
\* code whose campaign allows one, and is not marked as unverified: the push
\* replica burns what it names.
OverrideIsHonest ==
  OneSource /\ sent.type = "override" /\ sent.named =>
    sent.code \notin RequiresOnline /\ ~sent.unverified

\* Mid-submit protection: while a submit is in flight its session stays, so the
\* verdict always meets the machine that asked for it.
VerdictMeetsItsSession == (flight # None) <=> (sc = "submitting")

\* The finish-first prompt interrupts nothing: whatever is under it keeps its
\* session, and only a gate that resumes moves.
PromptKeepsProgress ==
  [][ov = "prompt" /\ sc' # "idle" =>
       /\ session' = session
       /\ sc' # sc => sc = "blockedOffline" /\ sc' = gateReturn]_vars

\* A scan of the code that is being resolved, its first or a later one, brings that
\* code's card unless it throws or the prompt comes up: the RESOLVED that the prompt
\* suppressed, or that a failed scan never sent, can be had by scanning again.
ScanBringsCard ==
  \A s \in Source :
    /\ sc = "resolving" /\ ov = "none"
    /\ scan[s].step \in {"hashing", "resolving", "finding"} /\ scan[s].code = session
    ~> sc # "resolving" \/ ov = "prompt" \/ scan[s] = Failed

\* A submit is answered on the screen.
SubmittingEnds == sc = "submitting" ~> sc # "submitting"

\* The gate's note: "Submit re-enables itself the moment the connection returns."
BlockedOnlyOffline == sc = "blockedOffline" => conn # "online"
=============================================================================
