-------------------------- MODULE SubmitFlowProofs --------------------------
(***************************************************************************)
(* Proofs about the scanner screen, for any codes. What holds of the       *)
(* machine alone holds for any ways to scan; what ties the page's stash to *)
(* the machine's session needs that the crew member uses one of them.      *)
(***************************************************************************)
EXTENDS SubmitFlow, TLAPS

States == {"idle", "resolving", "offerReady", "readyToSubmit", "unknownCode",
           "blockedOffline", "overrideConfirm", "submitting", "redeemed",
           "alreadyUsed", "expired", "notFound", "error", "spentLocally",
           "expiredLocally", "overridePending"}

LEMMA StatesAre ==
  /\ ScanStates = States
  /\ Interruptible = States \ {"idle", "submitting", "overrideConfirm"}
BY DEF ScanStates, Interruptible, Served, Terminal, States

-----------------------------------------------------------------------------
(* The machine.                                                            *)

\* Inductive: a submit in flight is the machine's, the prompt shows over what it
\* may interrupt, and a blocked gate knows where it came from.
MachineInv ==
  /\ TypeOK
  /\ VerdictMeetsItsSession
  /\ ov = "prompt" => sc \in Interruptible
  /\ sc \in {"blockedOffline", "overrideConfirm"} => gateReturn # "none"

LEMMA InitMachine == Init => MachineInv
<1> SUFFICES ASSUME Init PROVE MachineInv
  OBVIOUS
<1>1. scan \in [Source -> Scans]
  BY DEF Init, NoScan, Unused, Scans
<1>2. stash \in [code: Code \cup {None}, named: BOOLEAN]
  BY DEF Init, NoStash
<1>3. sent \in [type: {"none", "submit", "override"}, code: Code \cup {None},
                session: Code \cup {None}, unverified: BOOLEAN, named: BOOLEAN]
  BY DEF Init, NothingSent
<1>4. TypeOK
  BY <1>1, <1>2, <1>3, StatesAre DEF Init, TypeOK, States
<1> QED
  BY <1>4 DEF Init, MachineInv, VerdictMeetsItsSession

\* A scan moved on is a scan.
LEMMA ScanTyped ==
  ASSUME TypeOK, NEW s \in Source, NEW r,
         r \in Scans
  PROVE  [scan EXCEPT ![s] = r]
           \in [Source -> Scans]
BY DEF TypeOK

\* What is sent is typed.
LEMMA SentTyped ==
  ASSUME TypeOK, NEW type \in {"submit", "override"}, Send(type)
  PROVE  sent' \in [type: {"none", "submit", "override"}, code: Code \cup {None},
                    session: Code \cup {None}, unverified: BOOLEAN, named: BOOLEAN]
<1>1. /\ stash.code \in Code \cup {None} /\ session \in Code \cup {None}
      /\ stash.named \in BOOLEAN
  BY DEF TypeOK
<1> DEFINE unv == type = "override" /\ kind = "unknownCode"
<1>2. unv \in BOOLEAN
  OBVIOUS
<1>3. sent' = [type |-> type, code |-> stash.code, session |-> session,
               unverified |-> unv, named |-> stash.named]
  BY DEF Send
<1> HIDE DEF unv
<1> QED
  BY <1>1, <1>2, <1>3

\* The end of a scan: the stash holds its code, and the machine moves only from
\* resolving, to a card.
LEMMA BindIs ==
  ASSUME NEW c \in Code \cup {None}, NEW k \in Kinds, NEW named \in BOOLEAN,
         Bind(c, k, named), TypeOK
  PROVE  /\ stash' = [code |-> c, named |-> named]
         /\ orderOk' = FALSE
         /\ sc = "resolving" /\ ov = "none" =>
              /\ sc' \in Kinds
              /\ sc' = "expiredLocally" <=> k = "expiredLocally"
              /\ kind' = k
              /\ reqOnline' = (named /\ c \in RequiresOnline)
         /\ ~(sc = "resolving" /\ ov = "none") =>
              sc' = sc /\ kind' = kind /\ reqOnline' = reqOnline
         /\ stash' \in [code: Code \cup {None}, named: BOOLEAN]
         /\ kind' \in Kinds \cup {"none"}
         /\ reqOnline' \in BOOLEAN
         /\ sc' \in Kinds \cup {sc}
<1>1. stash' = [code |-> c, named |-> named] /\ orderOk' = FALSE
  BY DEF Bind
<1>2. stash' \in [code: Code \cup {None}, named: BOOLEAN]
  BY <1>1
<1>3. CASE sc = "resolving" /\ ov = "none"
  <2>1. /\ sc' = IF k = "spentLocally" /\ conn = "online" THEN "offerReady" ELSE k
        /\ kind' = k
    BY <1>3 DEF Bind
  <2>2. reqOnline' = (named /\ c \in RequiresOnline)
    BY <1>3, Zenon DEF Bind
  <2>3. (named /\ c \in RequiresOnline) \in BOOLEAN
    OBVIOUS
  <2>4. reqOnline' \in BOOLEAN
    BY <2>2, <2>3, Zenon
  <2>5. sc' \in Kinds /\ (sc' = "expiredLocally" <=> k = "expiredLocally")
    BY <2>1 DEF Kinds
  <2>6. kind' \in Kinds \cup {"none"}
    BY <2>1
  <2> QED
    BY <1>1, <1>2, <1>3, <2>1, <2>2, <2>4, <2>5, <2>6, Zenon
<1>4. CASE ~(sc = "resolving" /\ ov = "none")
  BY <1>1, <1>2, <1>4 DEF Bind, TypeOK
<1> QED
  BY <1>3, <1>4

\* Every step keeps it, one action at a time.
LEMMA NextMachine ==
  ASSUME MachineInv, [Next]_vars
  PROVE  MachineInv'
<1>0. TypeOK
  BY DEF MachineInv
<1> USE SubmitFlowAssumption, StatesAre
<1>1. ASSUME NEW s \in Source, NEW c \in Code, Decode(s, c) PROVE MachineInv'
  <2>1. scan' \in [Source -> Scans]
    BY <1>0, <1>1, ScanTyped DEF Decode, Scans
  <2> QED
    BY <1>1, <2>1 DEF Decode, MachineInv, TypeOK, VerdictMeetsItsSession, ctxVars, pageVars
<1>2. ASSUME NEW s \in Source, Gate(s) PROVE MachineInv'
  <2> DEFINE moved == [scan[s] EXCEPT !.step = "resolving"]
  <2>1. /\ moved \in Scans
        /\ NoScan \in Scans
    BY <1>0 DEF TypeOK, NoScan, Scans
  <2>2. \/ scan' = [scan EXCEPT ![s] = moved]
        \/ scan' = [scan EXCEPT ![s] = NoScan]
    BY <1>2 DEF Gate
  <2>3. scan' \in [Source -> Scans]
    BY <1>0, <2>1, <2>2, ScanTyped
  <2>4. scan[s].code \in Code \cup {None}
    BY <1>0 DEF TypeOK, Scans
  <2> QED
    BY <1>2, <2>3, <2>4
    DEF Gate, MachineInv, TypeOK, VerdictMeetsItsSession, pageVars, States
<1>3. ASSUME NEW s \in Source, NEW k \in Kinds, NEW f \in BOOLEAN,
             ResolverDone(s, k) \/ FindDone(s, f)
      PROVE  MachineInv'
  <2>0. UNCHANGED <<conn, ov, session, override, gateReturn, flight, sent>>
    BY <1>3 DEF ResolverDone, FindDone
  <2> DEFINE found == [scan[s] EXCEPT !.step = "finding"]
  <2>1. /\ found \in Scans
        /\ NoScan \in Scans
    BY <1>0 DEF TypeOK, NoScan, Scans
  <2>2. \/ scan' = [scan EXCEPT ![s] = found]
        \/ scan' = [scan EXCEPT ![s] = NoScan]
    BY <1>3 DEF ResolverDone, FindDone
  <2>3. scan' \in [Source -> Scans]
    BY <1>0, <2>1, <2>2, ScanTyped
  <2>4. CASE UNCHANGED <<sc, kind, reqOnline, pageVars>>
    BY <2>0, <2>3, <2>4 DEF MachineInv, TypeOK, VerdictMeetsItsSession, pageVars
  <2>5. ASSUME NEW x \in Kinds, NEW n \in BOOLEAN, Bind(scan[s].code, x, n)
        PROVE  MachineInv'
    <3>1. scan[s].code \in Code \cup {None}
      BY <1>0 DEF TypeOK, Scans
    <3>2. /\ stash' \in [code: Code \cup {None}, named: BOOLEAN]
          /\ kind' \in Kinds \cup {"none"}
          /\ reqOnline' \in BOOLEAN
          /\ orderOk' = FALSE
          /\ sc = "resolving" /\ ov = "none" => sc' \in Kinds
          /\ ~(sc = "resolving" /\ ov = "none") => sc' = sc
      BY <1>0, <2>5, <3>1, BindIs
    <3>3. \/ sc' = sc
          \/ sc = "resolving" /\ sc' \in Kinds
      BY <3>2
    <3>4. /\ sc' \in ScanStates
          /\ sc' = "submitting" <=> sc = "submitting"
          /\ ov = "prompt" => sc' \in Interruptible
          /\ sc' \in {"blockedOffline", "overrideConfirm"} => gateReturn # "none"
      BY <3>3 DEF MachineInv, TypeOK, States, Kinds
    <3>5. /\ conn' \in {"online", "offline"} /\ ov' \in {"none", "prompt"}
          /\ session' \in Code \cup {None} /\ override' \in BOOLEAN
          /\ gateReturn' \in {"none", "readyToSubmit", "unknownCode"}
          /\ flight' \in Code \cup {None}
      BY <1>0, <2>0 DEF TypeOK
    <3>6. sent' \in [type: {"none", "submit", "override"}, code: Code \cup {None},
                     session: Code \cup {None}, unverified: BOOLEAN, named: BOOLEAN]
      <4>1. sent' = sent
        BY <2>0
      <4> QED
        BY <1>0, <4>1 DEF TypeOK
    <3>7. orderOk' \in BOOLEAN
      BY <3>2
    <3>8. TypeOK'
      BY ONLY <2>3, <3>2, <3>4, <3>5, <3>6, <3>7, Zenon DEF TypeOK
    <3> QED
      BY <2>0, <3>4, <3>8 DEF MachineInv, VerdictMeetsItsSession
  <2>6. "spentLocally" \in Kinds /\ (k = "offerReady") \in BOOLEAN
    BY DEF Kinds
  <2> QED
    BY <1>3, <2>4, <2>5, <2>6 DEF ResolverDone, FindDone
<1>4. ASSUME NEW ok \in BOOLEAN, TypeOrder(ok) PROVE MachineInv'
  BY <1>4 DEF TypeOrder, MachineInv, TypeOK, VerdictMeetsItsSession, States, ctxVars
<1>5. ASSUME SubmitOnline PROVE MachineInv'
  <2>1. sent' \in [type: {"none", "submit", "override"}, code: Code \cup {None},
                   session: Code \cup {None}, unverified: BOOLEAN, named: BOOLEAN]
    <3>1. CASE Send("submit")
      BY <1>0, <3>1, SentTyped
    <3>2. CASE UNCHANGED sent
      BY <1>0, <3>2 DEF TypeOK
    <3> QED
      BY <1>5, <3>1, <3>2 DEF SubmitOnline
  <2> QED
    BY <1>5, <2>1 DEF SubmitOnline, MachineInv, TypeOK, VerdictMeetsItsSession, States,
                      ctxVars, pageVars
<1>6. ASSUME SubmitBlocked PROVE MachineInv'
  <2>1. override' \in BOOLEAN
    BY <1>0, <1>6, Zenon DEF SubmitBlocked, GateSubmit, TypeOK
  <2>2. gateReturn' = sc /\ sc \in {"readyToSubmit", "unknownCode"} /\ sc' = "blockedOffline"
    BY <1>6 DEF SubmitBlocked, GateSubmit
  <2>3. UNCHANGED <<conn, ov, session, kind, reqOnline, pageVars, scan, flight, sent>>
    BY <1>6 DEF SubmitBlocked, GateSubmit
  <2> QED
    BY <2>1, <2>2, <2>3 DEF MachineInv, TypeOK, VerdictMeetsItsSession, States, pageVars
<1>7. ASSUME OverrideRequest \/ OverrideCancel \/ Retry \/ Dismiss PROVE MachineInv'
  BY <1>7 DEF OverrideRequest, OverrideCancel, Retry, Dismiss, MachineInv, TypeOK,
              VerdictMeetsItsSession, States, ctxVars, pageVars
<1>8. ASSUME OverrideConfirm PROVE MachineInv'
  <2>1. sent' \in [type: {"none", "submit", "override"}, code: Code \cup {None},
                   session: Code \cup {None}, unverified: BOOLEAN, named: BOOLEAN]
    <3>1. CASE Send("override")
      BY <1>0, <3>1, SentTyped
    <3>2. CASE UNCHANGED sent
      BY <1>0, <3>2 DEF TypeOK
    <3> QED
      BY <1>8, <3>1, <3>2 DEF OverrideConfirm
  <2> QED
    BY <1>8, <2>1 DEF OverrideConfirm, MachineInv, TypeOK, VerdictMeetsItsSession, States,
                      ctxVars, pageVars
<1>9. ASSUME NextCustomer PROVE MachineInv'
  <2>1. stash' \in [code: Code \cup {None}, named: BOOLEAN]
    BY <1>9 DEF NextCustomer, NoStash
  <2>2. sent' \in [type: {"none", "submit", "override"}, code: Code \cup {None},
                   session: Code \cup {None}, unverified: BOOLEAN, named: BOOLEAN]
    BY <1>9 DEF NextCustomer, NothingSent
  <2> QED
    BY <1>9, <2>1, <2>2 DEF NextCustomer, ResetCtx, MachineInv, TypeOK, VerdictMeetsItsSession,
                      States
<1>10. ASSUME NEW v \in Served, Verdict(v) PROVE MachineInv'
  <2>1. v \in States /\ v \notin {"submitting", "blockedOffline", "overrideConfirm"}
    BY DEF Served, States
  <2>2. sc = "submitting" /\ ov = "none"
    BY <1>10 DEF Verdict, MachineInv, VerdictMeetsItsSession, TypeOK
  <2> QED
    BY <1>10, <2>1, <2>2 DEF Verdict, MachineInv, TypeOK, VerdictMeetsItsSession,
                             ctxVars, pageVars
<1>11. ASSUME ProbeFails \/ ProbeOk PROVE MachineInv'
  BY <1>11 DEF ProbeFails, ProbeOk, MachineInv, TypeOK, VerdictMeetsItsSession, States,
               ctxVars, pageVars
<1>12. CASE UNCHANGED vars
  BY <1>12 DEF vars, MachineInv, TypeOK, VerdictMeetsItsSession, ctxVars, pageVars
<1>13. ASSUME NEW s \in Source, ScanFails(s) PROVE MachineInv'
  <2>1. scan' \in [Source -> Scans]
    BY <1>0, <1>13, ScanTyped DEF ScanFails, Failed, Scans
  <2> QED
    BY <1>13, <2>1
    DEF ScanFails, MachineInv, TypeOK, VerdictMeetsItsSession, ctxVars, pageVars
<1> QED
  BY <1>1, <1>2, <1>3, <1>4, <1>5, <1>6, <1>7, <1>8, <1>9, <1>10, <1>11, <1>12, <1>13
  DEF Next, ScanStep, Kinds

LEMMA MachineHolds == Spec => []MachineInv
BY InitMachine, NextMachine, PTL DEF Spec

\* The state is typed.
THEOREM TypeCorrect == Spec => []TypeOK
<1>1. MachineInv => TypeOK
  BY DEF MachineInv
<1> QED
  BY <1>1, MachineHolds, PTL

\* A submit in flight meets the machine that asked for it.
THEOREM MidSubmitProtected == Spec => []VerdictMeetsItsSession
<1>1. MachineInv => VerdictMeetsItsSession
  BY DEF MachineInv
<1> QED
  BY <1>1, MachineHolds, PTL

\* The prompt keeps the session under it, and only a gate that resumes moves.
THEOREM PromptInterruptsNothing == Spec => PromptKeepsProgress
<1> DEFINE Kept == ov = "prompt" /\ sc' # "idle" =>
                     /\ session' = session
                     /\ sc' # sc => sc = "blockedOffline" /\ sc' = gateReturn
<1>1. ASSUME MachineInv, [Next]_vars PROVE Kept
  <2> SUFFICES ASSUME ov = "prompt", sc' # "idle"
               PROVE  /\ session' = session
                      /\ sc' # sc => sc = "blockedOffline" /\ sc' = gateReturn
    OBVIOUS
  <2>0. sc \in Interruptible /\ sc # "idle"
    BY <1>1, StatesAre DEF MachineInv
  <2>1. ASSUME NEW s \in Source, Gate(s) PROVE UNCHANGED <<sc, session>>
    BY <2>0, <2>1 DEF Gate
  <2>2. ASSUME NEW s \in Source, NEW k \in Kinds, NEW f \in BOOLEAN,
               ResolverDone(s, k) \/ FindDone(s, f)
        PROVE  UNCHANGED <<sc, session>>
    BY <2>2 DEF ResolverDone, FindDone, Bind
  <2>3. ASSUME NEW ok \in BOOLEAN, TypeOrder(ok) PROVE UNCHANGED <<sc, session>>
    BY <2>3 DEF TypeOrder, ctxVars
  <2>4. ASSUME NEW v \in Served, Verdict(v) PROVE UNCHANGED <<sc, session>>
    BY <2>4 DEF Verdict, ctxVars
  <2>5. ASSUME \/ SubmitOnline \/ SubmitBlocked \/ OverrideRequest \/ OverrideConfirm
               \/ OverrideCancel \/ Retry \/ NextCustomer
        PROVE  FALSE
    BY <2>5 DEF SubmitOnline, SubmitBlocked, GateSubmit, OverrideRequest, OverrideConfirm,
                OverrideCancel, Retry, NextCustomer
  <2>6. ASSUME \/ \E s \in Source, c \in Code : Decode(s, c)
               \/ \E s \in Source : ScanFails(s)
               \/ Dismiss \/ ProbeFails
               \/ UNCHANGED vars
        PROVE  UNCHANGED <<sc, session>>
    BY <2>6 DEF Decode, ScanFails, Dismiss, ProbeFails, vars, ctxVars
  <2>7. ASSUME ProbeOk
        PROVE  /\ session' = session
               /\ sc' # sc => sc = "blockedOffline" /\ sc' = gateReturn
    BY <2>7 DEF ProbeOk, ctxVars
  <2> QED
    BY <1>1, <2>1, <2>2, <2>3, <2>4, <2>5, <2>6, <2>7 DEF Next, ScanStep, Kinds
<1>2. Spec => [][Kept]_vars
  BY <1>1, MachineHolds, PTL DEF Spec
<1> QED
  BY <1>2 DEF PromptKeepsProgress

-----------------------------------------------------------------------------
(* The session and the page's stash.                                       *)

\* The page would submit the code of the session, and the machine knows the policy
\* of the row that the stash names.
Bound ==
  /\ stash.code = session
  /\ reqOnline <=> (stash.named /\ session \in RequiresOnline)
  /\ stash.named => kind # "unknownCode"

\* A scan past its gate is of the session that is resolving, or of none.
ScansFit ==
  \A s \in Source :
    /\ scan[s].step \in {"hashing", "resolving", "finding"} => scan[s].code \in Code
    /\ scan[s].step \in {"resolving", "finding"} =>
         /\ sc \in {"idle", "resolving"}
         /\ sc = "resolving" => scan[s].code = session

\* An override of a row of the replica is one its campaign allows.
Honest ==
  sent.type = "override" /\ sent.named =>
    sent.code \notin RequiresOnline /\ ~sent.unverified

\* Inductive where one way to scan is used: a gate that finds the machine idle then
\* knows that no other scan is past its own.
SessionInv ==
  /\ sc = "idle" <=> session = None
  /\ ScansFit
  /\ sc \notin {"idle", "resolving"} => Bound
  /\ sc = "blockedOffline" /\ override => ~reqOnline
  /\ sc = "overrideConfirm" => override /\ ~reqOnline
  /\ SentIsSession
  /\ Honest

LEMMA InitSession == Init => SessionInv
<1> SUFFICES ASSUME Init PROVE SessionInv
  OBVIOUS
<1>1. ScansFit
  BY DEF Init, ScansFit, NoScan, Unused
<1> QED
  BY <1>1 DEF Init, SessionInv, SentIsSession, Honest, NothingSent

\* The ways to scan that are in use stay the same ones.
LEMMA UseStays ==
  ASSUME TypeOK, [Next]_vars
  PROVE  OneSource' => OneSource
<1> SUFFICES \A s \in Source : scan'[s].step = "unused" => scan[s].step = "unused"
  BY DEF OneSource
<1>1. ASSUME NEW x \in Source, NEW r, r.step # "unused", scan' = [scan EXCEPT ![x] = r]
      PROVE  \A s \in Source : scan'[s].step = "unused" => scan[s].step = "unused"
  BY <1>1 DEF TypeOK
<1>2. ASSUME NEW x \in Source, NEW c \in Code, Decode(x, c)
      PROVE  \A s \in Source : scan'[s].step = "unused" => scan[s].step = "unused"
  BY <1>1, <1>2 DEF Decode
<1>3. ASSUME NEW x \in Source, ScanStep(x)
      PROVE  \A s \in Source : scan'[s].step = "unused" => scan[s].step = "unused"
  <2> DEFINE moved(step) == [scan[x] EXCEPT !.step = step]
  <2>1. /\ moved("resolving").step = "resolving" /\ moved("finding").step = "finding"
        /\ NoScan.step = "none" /\ Failed.step = "failed"
    BY DEF TypeOK, Scans, NoScan, Failed
  <2>2. \E r \in {moved("resolving"), moved("finding"), NoScan, Failed} :
          scan' = [scan EXCEPT ![x] = r]
    BY <1>3, Zenon DEF ScanStep, Gate, ResolverDone, FindDone, ScanFails
  <2> HIDE DEF moved
  <2> QED
    BY <1>1, <2>1, <2>2
<1>4. ASSUME UNCHANGED scan
      PROVE  \A s \in Source : scan'[s].step = "unused" => scan[s].step = "unused"
  BY <1>4
<1>5. ASSUME Next, \A x \in Source : ~ScanStep(x) /\ \A c \in Code : ~Decode(x, c)
      PROVE  UNCHANGED scan
  BY <1>5
  DEF Next, TypeOrder, SubmitOnline, SubmitBlocked, GateSubmit, OverrideRequest,
      OverrideConfirm, OverrideCancel, Retry, Dismiss, NextCustomer, Verdict, ProbeFails,
      ProbeOk
<1> QED
  BY <1>2, <1>3, <1>4, <1>5 DEF vars

\* What a step leaves of the scans and of the machine keeps the invariant.
LEMMA SessionKept ==
  ASSUME SessionInv, ScansFit', UNCHANGED <<session, sent>>,
         sc' = "idle" <=> session = None,
         sc' \notin {"idle", "resolving"} => Bound',
         sc' = "blockedOffline" /\ override' => ~reqOnline',
         sc' = "overrideConfirm" => override' /\ ~reqOnline'
  PROVE  SessionInv'
BY DEF SessionInv, SentIsSession, Honest

\* What is sent of a session that is bound is of that session, and an override of a
\* row is not of a code that needs the server, nor of one the replica does not know.
LEMMA SentOfTheSession ==
  ASSUME Bound, NEW type \in {"submit", "override"}, Send(type),
         type = "override" => ~reqOnline
  PROVE  SentIsSession' /\ Honest'
<1> DEFINE unv == type = "override" /\ kind = "unknownCode"
<1>1. sent' = [type |-> type, code |-> stash.code, session |-> session,
               unverified |-> unv, named |-> stash.named]
  BY DEF Send
<1> HIDE DEF unv
<1>2. /\ sent'.type = type /\ sent'.code = stash.code /\ sent'.session = session
      /\ sent'.unverified = unv /\ sent'.named = stash.named
  BY <1>1
<1>3. SentIsSession'
  BY <1>2 DEF Bound, SentIsSession
<1>4. type = "override" /\ stash.named => stash.code \notin RequiresOnline /\ ~unv
  BY DEF Bound, unv
<1> QED
  BY <1>2, <1>3, <1>4, Zenon DEF Honest

LEMMA NextSession ==
  ASSUME OneSource, MachineInv, SessionInv, [Next]_vars
  PROVE  SessionInv'
<1> USE SubmitFlowAssumption
<1>0. TypeOK /\ ScansFit
  BY DEF MachineInv, SessionInv
<1>1. ASSUME NEW s \in Source, NEW c \in Code, Decode(s, c) PROVE SessionInv'
  <2>1. UNCHANGED <<conn, ov, sc, ctxVars, pageVars, flight, sent>>
    BY <1>1 DEF Decode
  <2>2. ScansFit'
    BY <1>0, <1>1, <2>1 DEF Decode, ScansFit, TypeOK, ctxVars
  <2> QED
    BY <2>1, <2>2, SessionKept DEF SessionInv, Bound, ctxVars, pageVars
<1>2. ASSUME NEW s \in Source, Gate(s) PROVE SessionInv'
  <2>0. /\ scan[s].step = "hashing" /\ scan[s].code \in Code
        /\ UNCHANGED <<conn, kind, reqOnline, override, gateReturn, pageVars, flight, sent>>
    BY <1>0, <1>2 DEF Gate, ScansFit
  <2>1. CASE sc = "idle"
    <3>1. sc' = "resolving" /\ session' = scan[s].code /\ session = None
      BY <1>2, <2>1 DEF Gate, SessionInv
    <3>2. scan' = [scan EXCEPT ![s] = [@ EXCEPT !.step = "resolving"]]
      BY <1>2, <3>1 DEF Gate, Admits
    <3>3. scan'[s].step = "resolving" /\ scan'[s].code = scan[s].code
      BY <1>0, <3>2 DEF TypeOK, Scans
    <3>4. \A t \in Source \ {s} : scan'[t] = scan[t] /\ scan[t].step = "unused"
      BY <1>0, <2>0, <3>2 DEF TypeOK, OneSource
    <3>5. ScansFit'
      BY <2>0, <3>1, <3>3, <3>4 DEF ScansFit
    <3>6. sc' = "idle" <=> session' = None
      BY <2>0, <3>1
    <3> QED
      BY <2>0, <3>1, <3>5, <3>6 DEF SessionInv, SentIsSession, Honest
  <2>2. CASE sc # "idle"
    <3>1. UNCHANGED <<sc, session>>
      BY <1>2, <2>2 DEF Gate
    <3>2. ASSUME scan' = [scan EXCEPT ![s] = NoScan] PROVE ScansFit'
      <4>1. scan'[s] = NoScan /\ \A t \in Source \ {s} : scan'[t] = scan[t]
        BY <1>0, <3>2 DEF TypeOK
      <4>2. scan'[s].step = "none"
        BY <4>1 DEF NoScan
      <4> QED
        BY <1>0, <3>1, <4>1, <4>2 DEF ScansFit
    <3>3. ASSUME Admits(s), scan' = [scan EXCEPT ![s] = [@ EXCEPT !.step = "resolving"]]
          PROVE  ScansFit'
      <4>1. scan'[s] = [scan[s] EXCEPT !.step = "resolving"]
            /\ \A t \in Source \ {s} : scan'[t] = scan[t]
        BY <1>0, <3>3 DEF TypeOK
      <4>2. scan'[s].step = "resolving" /\ scan'[s].code = scan[s].code
        BY <1>0, <4>1 DEF TypeOK, Scans
      <4>3. sc' = "resolving" /\ session' = scan[s].code
        BY <3>3 DEF Admits
      <4> QED
        BY <1>0, <2>0, <3>1, <4>1, <4>2, <4>3 DEF ScansFit
    <3>4. ScansFit'
      BY <1>2, <3>2, <3>3, Zenon DEF Gate
    <3> QED
      BY <2>0, <2>2, <3>1, <3>4, SessionKept DEF SessionInv, Bound, pageVars
  <2> QED
    BY <2>1, <2>2
<1>3. ASSUME NEW s \in Source, NEW k \in Kinds, NEW f \in BOOLEAN,
             ResolverDone(s, k) \/ FindDone(s, f)
      PROVE  SessionInv'
  <2>0. /\ UNCHANGED <<conn, ov, session, override, gateReturn, flight, sent>>
        /\ scan[s].step \in {"resolving", "finding"} /\ scan[s].code \in Code
        /\ sc \in {"idle", "resolving"}
        /\ sc = "resolving" => scan[s].code = session
    BY <1>0, <1>3 DEF ResolverDone, FindDone, ScansFit
  <2>1. ASSUME scan' = [scan EXCEPT ![s] = NoScan] \/ scan' = [scan EXCEPT ![s].step = "finding"],
               UNCHANGED sc
        PROVE  ScansFit'
    BY <1>0, <2>0, <2>1 DEF ScansFit, TypeOK, NoScan, Scans
  <2>2. CASE UNCHANGED <<sc, kind, reqOnline, pageVars>>
    <3>1. ScansFit'
      BY <1>3, <2>1, <2>2 DEF ResolverDone, FindDone
    <3> QED
      BY <2>0, <2>2, <3>1, SessionKept DEF SessionInv, Bound, pageVars
  <2>3. ASSUME NEW x \in Kinds, NEW n \in BOOLEAN, Bind(scan[s].code, x, n),
               n => x # "unknownCode", scan' = [scan EXCEPT ![s] = NoScan]
        PROVE  SessionInv'
    <3>1. CASE UNCHANGED <<sc, kind, reqOnline>>
      <4>1. ScansFit'
        BY <2>1, <2>3, <3>1
      <4> QED
        BY <2>0, <3>1, <4>1, SessionKept DEF SessionInv
    <3>2. CASE sc = "resolving" /\ ov = "none"
      <4>1. /\ stash' = [code |-> session, named |-> n]
            /\ sc' \in Kinds
            /\ kind' = x
            /\ reqOnline' = (n /\ session \in RequiresOnline)
        <5>1. scan[s].code = session
          BY <2>0, <3>2
        <5>2. /\ stash' = [code |-> scan[s].code, named |-> n]
              /\ sc' \in {x, "offerReady"}
              /\ kind' = x
              /\ reqOnline' = (n /\ scan[s].code \in RequiresOnline)
          BY <2>3, <3>2, Zenon DEF Bind
        <5>3. sc' \in Kinds
          BY <5>2 DEF Kinds
        <5> QED
          BY <5>1, <5>2, <5>3, Zenon
      <4>2. /\ scan'[s] = NoScan
            /\ \A t \in Source \ {s} : scan'[t] = scan[t] /\ scan[t].step = "unused"
        <5>1. scan'[s] = NoScan /\ \A t \in Source \ {s} : scan'[t] = scan[t]
          BY <1>0, <2>3 DEF TypeOK
        <5>2. \A t \in Source \ {s} : scan[t].step = "unused"
          BY <2>0 DEF OneSource
        <5> QED
          BY <5>1, <5>2
      <4>3. ScansFit'
        <5>1. scan'[s].step = "none"
          BY <4>2 DEF NoScan
        <5> QED
          BY <4>2, <5>1 DEF ScansFit
      <4>4. stash'.code = session /\ stash'.named = n
        BY <4>1
      <4>5. reqOnline' <=> (stash'.named /\ session' \in RequiresOnline)
        BY <2>0, <4>1, <4>4, Zenon
      <4>6. Bound'
        BY <2>0, <2>3, <4>1, <4>4, <4>5, Zenon DEF Bound
      <4>7. sc' \notin {"idle", "resolving", "blockedOffline", "overrideConfirm"}
        BY <4>1 DEF Kinds
      <4>8. session # None
        BY <3>2 DEF SessionInv
      <4> QED
        BY <2>0, <4>3, <4>6, <4>7, <4>8, SessionKept
    <3> QED
      BY <2>3, <3>1, <3>2 DEF Bind
  <2>4. "spentLocally" \in Kinds /\ (k = "offerReady") \in BOOLEAN
    BY DEF Kinds
  <2> QED
    BY <1>3, <2>2, <2>3, <2>4 DEF ResolverDone, FindDone
<1>4. ASSUME NEW ok \in BOOLEAN, TypeOrder(ok) PROVE SessionInv'
  BY <1>0, <1>4, SessionKept DEF TypeOrder, SessionInv, ScansFit, Bound, ctxVars
<1>5. ASSUME SubmitOnline PROVE SessionInv'
  <2>1. Bound /\ session # None
    BY <1>0, <1>5 DEF SubmitOnline, SessionInv
  <2>2. Send("submit") /\ sc' = "submitting"
        /\ UNCHANGED <<ov, ctxVars, pageVars, scan>>
    BY <1>5, <2>1 DEF SubmitOnline, Bound
  <2>3. SentIsSession' /\ Honest'
    BY <2>1, <2>2, SentOfTheSession
  <2>4. ScansFit'
    BY <1>0, <1>5, <2>2 DEF ScansFit, SubmitOnline, ctxVars
  <2> QED
    BY <2>1, <2>2, <2>3, <2>4 DEF SessionInv, Bound, ctxVars, pageVars
<1>6. ASSUME SubmitBlocked PROVE SessionInv'
  <2>1. override' => ~reqOnline
    BY <1>6, Zenon DEF SubmitBlocked, GateSubmit
  <2>2. /\ sc \in {"readyToSubmit", "unknownCode"} /\ sc' = "blockedOffline"
        /\ UNCHANGED <<conn, ov, session, kind, reqOnline, pageVars, scan, flight, sent>>
    BY <1>6 DEF SubmitBlocked, GateSubmit
  <2> QED
    BY <1>0, <2>1, <2>2, SessionKept DEF SessionInv, ScansFit, Bound, pageVars
<1>7. ASSUME OverrideRequest \/ OverrideCancel \/ Retry \/ Dismiss PROVE SessionInv'
  BY <1>0, <1>7, SessionKept
  DEF OverrideRequest, OverrideCancel, Retry, Dismiss, SessionInv, ScansFit, Bound,
      ctxVars, pageVars
<1>8. ASSUME OverrideConfirm PROVE SessionInv'
  <2>1. Bound /\ session # None /\ ~reqOnline
    BY <1>0, <1>8 DEF OverrideConfirm, SessionInv
  <2>2. Send("override") /\ sc' = "overridePending"
        /\ UNCHANGED <<ov, ctxVars, pageVars, scan>>
    BY <1>8, <2>1 DEF OverrideConfirm, Bound
  <2>3. SentIsSession' /\ Honest'
    BY <2>1, <2>2, SentOfTheSession
  <2>4. ScansFit'
    BY <1>0, <1>8, <2>2 DEF ScansFit, OverrideConfirm, ctxVars
  <2> QED
    BY <2>1, <2>2, <2>3, <2>4 DEF SessionInv, Bound, ctxVars, pageVars
<1>9. ASSUME NextCustomer PROVE SessionInv'
  <2>1. ScansFit'
    BY <1>0, <1>9 DEF ScansFit, NextCustomer
  <2> QED
    BY <1>9, <2>1
    DEF NextCustomer, ResetCtx, NothingSent, SessionInv, SentIsSession, Honest
<1>10. ASSUME NEW v \in Served, Verdict(v) PROVE SessionInv'
  <2>1. sc = "submitting" /\ v \notin {"idle", "resolving", "blockedOffline",
                                       "overrideConfirm"}
    BY <1>10 DEF Verdict, MachineInv, VerdictMeetsItsSession, Served
  <2>2. ScansFit'
    BY <1>0, <1>10, <2>1 DEF ScansFit, Verdict, ctxVars
  <2> QED
    BY <1>10, <2>1, <2>2, SessionKept DEF Verdict, SessionInv, Bound, ctxVars, pageVars
<1>11. ASSUME ProbeFails \/ ProbeOk PROVE SessionInv'
  <2>1. sc' = sc \/ (sc = "blockedOffline" /\ sc' \in {"readyToSubmit", "unknownCode"})
    BY <1>0, <1>11 DEF ProbeFails, ProbeOk, MachineInv, TypeOK
  <2>2. UNCHANGED <<ov, ctxVars, pageVars, scan, flight, sent>>
    BY <1>11 DEF ProbeFails, ProbeOk
  <2> QED
    BY <1>0, <2>1, <2>2, SessionKept DEF SessionInv, ScansFit, Bound, ctxVars, pageVars
<1>12. ASSUME NEW s \in Source, ScanFails(s) PROVE SessionInv'
  <2>1. UNCHANGED <<conn, ov, sc, ctxVars, pageVars, flight, sent>>
    BY <1>12 DEF ScanFails
  <2>2. ScansFit'
    BY <1>0, <1>12, <2>1 DEF ScanFails, ScansFit, TypeOK, Failed, ctxVars
  <2> QED
    BY <2>1, <2>2, SessionKept DEF SessionInv, Bound, ctxVars, pageVars
<1>13. CASE UNCHANGED vars
  BY <1>0, <1>13, SessionKept DEF vars, SessionInv, ScansFit, Bound, ctxVars, pageVars
<1> QED
  BY <1>1, <1>2, <1>3, <1>4, <1>5, <1>6, <1>7, <1>8, <1>9, <1>10, <1>11, <1>12, <1>13
  DEF Next, ScanStep, Kinds

LEMMA AloneHolds == Spec => [](OneSource => SessionInv)
<1>1. Init => (OneSource => SessionInv)
  BY InitSession
<1>2. ASSUME MachineInv, OneSource => SessionInv, [Next]_vars
      PROVE  OneSource' => SessionInv'
  <2>1. OneSource' => OneSource
    BY <1>2, UseStays DEF MachineInv
  <2> QED
    BY <1>2, <2>1, NextSession
<1> QED
  BY <1>1, <1>2, MachineHolds, PTL DEF Spec

\* Where one way to scan is used, what is submitted or recorded is the code of the
\* session on the screen.
THEOREM OneSourceSendsSession == Spec => []AloneSendsSession
<1>1. (OneSource => SessionInv) => AloneSendsSession
  BY DEF SessionInv, AloneSendsSession
<1> QED
  BY <1>1, AloneHolds, PTL

\* There, an override that names a row of the replica is of a code that may be
\* overridden, and is not marked as unverified.
THEOREM OneSourceOverridesHonestly == Spec => []OverrideIsHonest
<1>1. (OneSource => SessionInv) => OverrideIsHonest
  BY DEF SessionInv, Honest, OverrideIsHonest
<1> QED
  BY <1>1, AloneHolds, PTL
=============================================================================
