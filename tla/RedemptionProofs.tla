-------------------------- MODULE RedemptionProofs --------------------------
(***************************************************************************)
(* Proofs about the online door, for any number of clients, requests and   *)
(* codes and any retry budget.                                             *)
(***************************************************************************)
EXTENDS Redemption, TLAPS

\* A state of Init is one of the type.
LEMMA InitTypeOK == Init => TypeOK
BY RedemptionAssumption
   DEF Init, TypeOK, CodesInit, CodesTypeOK, Ages, MachineStates, Terminals,
       Verdicts, Errors

\* redeem() keeps the table's type for whoever may call it.
LEMMA RedeemTypeOK ==
  ASSUME CodesTypeOK, NEW c, NEW d \in Device, NEW k \in Caller,
         Redeem(c, d, k), UNCHANGED age
  PROVE  CodesTypeOK'
BY DEF CodesTypeOK, Redeem, Verdict, Burnable, Ages

----------------------------------------------------------------------------
(* The inductive invariant.                                                *)

\* Nothing happens to a request before a client makes it.
Asked ==
  \A r \in Request :
    by[r] = None => /\ machine[r] = "none"
                    /\ arb[r] = "none"
                    /\ reply[r] = "none"
                    /\ r \notin notes
                    /\ \A i \in 0..MaxRetries : <<r, i>> \notin calls

\* The history of burns is the table's, and names requests that were made.
Booked ==
  \A c \in Code :
    /\ burner[c] = None <=> redeemedBy[c] = None
    /\ burner[c] # None => by[burner[c]] # None

\* What a statechart or an answer says of the code is so, and stays so.
Truthful ==
  \A r \in Request : \A v \in {machine[r], reply[r]} :
    /\ v = "redeemed" => Token(r) \in Code /\ burner[Token(r)] = r
    /\ v = "already_used" => Token(r) \in Code /\ redeemedBy[Token(r)] # None
    /\ v = "expired" => /\ Token(r) \in Code
                        /\ redeemedBy[Token(r)] = None
                        /\ age[Token(r)] # "live"
    /\ v = "not_found" => Token(r) \notin Code

\* The goroutine answers once, settles on a terminal only, and is done with
\* its statechart when it has answered.
Settled ==
  \A r \in Request :
    /\ arb[r] = "emitting" => RaceLost(r)
    /\ arb[r] \in {"none", "running", "emitting"} => reply[r] = "none"
    /\ arb[r] = "done" => machine[r] \in Terminals \cup {"stopped"}
    /\ r \in notes => arb[r] = "done" /\ RaceLost(r)

\* What a client was told stays so, and a client that has heard already_used does
\* not wait for a request that burned the code.
Heard ==
  \A k \in Client :
    /\ page[k] = "submitting" => ask[k] \in Request /\ by[ask[k]] = k
    /\ "redeemed" \in told[k] \/ "already_used" \in told[k] =>
         CodeOf[k] \in Code /\ redeemedBy[CodeOf[k]] # None
    /\ "expired" \in told[k] => /\ CodeOf[k] \in Code
                                /\ redeemedBy[CodeOf[k]] = None
                                /\ age[CodeOf[k]] # "live"
    /\ "not_found" \in told[k] => CodeOf[k] \notin Code
    /\ page[k] = "submitting" /\ "already_used" \in told[k] =>
         burner[CodeOf[k]] # ask[k]

\* Inductive: every answer, given or heard, is backed by the codes table.
IInv ==
  /\ TypeOK
  /\ Asked
  /\ Booked
  /\ Truthful
  /\ Settled
  /\ Heard
  /\ RaceLostOnRecord

\* The invariant holds at the start.
LEMMA InitIInv == Init => IInv
<1> SUFFICES ASSUME Init PROVE IInv
  OBVIOUS
<1>1. TypeOK
  BY InitTypeOK
<1> QED
  BY <1>1, RedemptionAssumption
     DEF Init, CodesInit, IInv, Asked, Booked, Truthful, Settled, Heard,
         RaceLostOnRecord

\* A verdict but ok tells of the code as it is.
LEMMA VerdictTells ==
  ASSUME CodesTypeOK, NEW c
  PROVE  /\ Verdict(c) \in {"ok", "already_used", "expired", "not_found"}
         /\ Verdict(c) = "ok" => c \in Code
         /\ Verdict(c) = "already_used" => c \in Code /\ redeemedBy[c] # None
         /\ Verdict(c) = "expired" =>
              c \in Code /\ redeemedBy[c] = None /\ age[c] # "live"
         /\ Verdict(c) = "not_found" => c \notin Code
BY DEF CodesTypeOK, Verdict, Burnable

\* Every step keeps the invariant, one action at a time.
LEMMA NextIInv ==
  ASSUME IInv, [Next]_vars
  PROVE  IInv'
<1> USE RedemptionAssumption
<1>1. ASSUME NEW k \in Client, NEW r \in Request, Submit(k, r)
      PROVE  IInv'
  BY <1>1 DEF Submit, IInv, TypeOK, Asked, Booked, Truthful, Settled, Heard,
              RaceLostOnRecord, CodesTypeOK, codesVars, Token, RaceLost,
              MachineStates, Terminals
<1>2. ASSUME NEW k \in Client, Hear(k)
      PROVE  IInv'
  BY <1>2 DEF Hear, IInv, TypeOK, Asked, Booked, Truthful, Settled, Heard,
              RaceLostOnRecord, CodesTypeOK, codesVars, Token, RaceLost
<1>3. ASSUME NEW k \in Client, GiveUp(k)
      PROVE  IInv'
  BY <1>3 DEF GiveUp, IInv, TypeOK, Asked, Booked, Truthful, Settled, Heard,
              RaceLostOnRecord, CodesTypeOK, codesVars, Token, RaceLost
<1>4. ASSUME NEW r \in Request, ResolveCode(r)
      PROVE  IInv'
  BY <1>4 DEF ResolveCode, IInv, TypeOK, Asked, Booked, Truthful, Settled,
              Heard, RaceLostOnRecord, CodesTypeOK, codesVars, Token, RaceLost,
              MachineStates, Terminals
<1>5. ASSUME NEW r \in Request, RouteOutcome(r)
      PROVE  IInv'
  <2>1. by[r] \in Client /\ None \notin Device /\ r \in Caller /\ Device = Client
    BY <1>5 DEF RouteOutcome, IInv, TypeOK, Asked
  <2>2. CodesTypeOK' /\ Redeem(Token(r), by[r], r) /\ CodesTypeOK
    BY <1>5, <2>1, RedeemTypeOK DEF RouteOutcome, IInv, TypeOK
  <2>3. machine'[r] \in Terminals
    BY <1>5, <2>2, VerdictTells DEF RouteOutcome, IInv, TypeOK, Terminals
  <2>4. \A e \in Code :
           \/ redeemedBy'[e] = redeemedBy[e] /\ burner'[e] = burner[e]
           \/ /\ e = Token(r) /\ redeemedBy[e] = None /\ burner[e] = None
              /\ age[e] = "live"
              /\ redeemedBy'[e] # None /\ burner'[e] = r
    BY <2>1, <2>2 DEF Redeem, Verdict, Burnable, CodesTypeOK, IInv, Booked
  <2>5. LET v == machine'[r] IN
           /\ v \in {"redeemed", "already_used", "expired", "not_found"}
           /\ v = "redeemed" => Token(r) \in Code /\ burner'[Token(r)] = r
           /\ v = "already_used" => Token(r) \in Code /\ redeemedBy'[Token(r)] # None
           /\ v = "expired" => Token(r) \in Code /\ redeemedBy'[Token(r)] = None
                               /\ age'[Token(r)] # "live"
           /\ v = "not_found" => Token(r) \notin Code
    BY <1>5, <2>2, <2>1, VerdictTells
       DEF RouteOutcome, Redeem, IInv, TypeOK, CodesTypeOK
  <2>6. TypeOK' /\ Asked'
    BY <1>5, <2>1, <2>2, <2>3
       DEF RouteOutcome, IInv, TypeOK, Asked, MachineStates
  <2>7. Booked'
    BY <1>5, <2>1, <2>2, <2>4, RedemptionAssumption
       DEF RouteOutcome, IInv, TypeOK, Booked, CodesTypeOK
  <2>8. Truthful'
    BY <1>5, <2>2, <2>4, <2>5
       DEF RouteOutcome, IInv, TypeOK, Truthful, Booked, CodesTypeOK, Token
  <2>9. Settled'
    BY <1>5, <2>3
       DEF RouteOutcome, IInv, TypeOK, Settled, RaceLost, Token
  <2>10. Heard'
    BY <1>5, <2>2, <2>4
       DEF RouteOutcome, IInv, TypeOK, Heard, Settled, Booked, CodesTypeOK,
           Token
  <2>11. RaceLostOnRecord'
    BY <1>5, <2>8, <2>9
       DEF RouteOutcome, IInv, RaceLostOnRecord, Truthful, Settled, RaceLost
  <2> QED
    BY <2>6, <2>7, <2>8, <2>9, <2>10, <2>11 DEF IInv
<1>6. ASSUME NEW r \in Request, RouteFailure(r)
      PROVE  IInv'
  BY <1>6 DEF RouteFailure, IInv, TypeOK, Asked, Booked, Truthful, Settled,
              Heard, RaceLostOnRecord, CodesTypeOK, codesVars, Token, RaceLost,
              MachineStates, Terminals
<1>7. ASSUME NEW r \in Request, RetryAfter(r)
      PROVE  IInv'
  BY <1>7 DEF RetryAfter, IInv, TypeOK, Asked, Booked, Truthful, Settled,
              Heard, RaceLostOnRecord, CodesTypeOK, codesVars, Token, RaceLost,
              MachineStates, Terminals
<1>8. ASSUME NEW r \in Request, AwaitVerdict(r) \/ Emit(r) \/ EmitFails(r)
      PROVE  IInv'
  BY <1>8 DEF AwaitVerdict, Emit, EmitFails, WireResult, Verdicts, Errors,
              IInv, TypeOK, Asked, Booked, Truthful, Settled, Heard,
              RaceLostOnRecord, CodesTypeOK, codesVars, Token, RaceLost,
              MachineStates, Terminals
<1>9. ASSUME NEW r \in Request, TimesOut(r) \/ Cancelled(r) \/ StopActor(r)
      PROVE  IInv'
  BY <1>9 DEF TimesOut, Cancelled, StopActor, Errors, Verdicts, IInv, TypeOK,
              Asked, Booked, Truthful, Settled, Heard, RaceLostOnRecord,
              CodesTypeOK, codesVars, Token, RaceLost, MachineStates, Terminals
<1>10. ASSUME NEW x \in calls, CommitUnheard(x)
       PROVE  IInv'
  <2>1. x[1] \in Request /\ by[x[1]] \in Client /\ None \notin Device
    BY <1>10 DEF IInv, TypeOK, Asked
  <2>2. CodesTypeOK' /\ Redeem(Token(x[1]), by[x[1]], x[1]) /\ CodesTypeOK
    BY <1>10, <2>1, RedeemTypeOK DEF CommitUnheard, IInv, TypeOK
  <2>3. \A e \in Code :
           \/ redeemedBy'[e] = redeemedBy[e] /\ burner'[e] = burner[e]
           \/ /\ e = Token(x[1]) /\ redeemedBy[e] = None /\ burner[e] = None
              /\ age[e] = "live"
              /\ redeemedBy'[e] # None /\ burner'[e] = x[1]
    BY <2>1, <2>2 DEF Redeem, Verdict, Burnable, CodesTypeOK, IInv, Booked
  <2>4. TypeOK' /\ Asked'
    BY <1>10, <2>1, <2>2 DEF CommitUnheard, IInv, TypeOK, Asked
  <2>5. Booked'
    BY <1>10, <2>1, <2>2, <2>3, RedemptionAssumption
       DEF CommitUnheard, IInv, TypeOK, Booked, CodesTypeOK
  <2>6. Truthful'
    BY <1>10, <2>2, <2>3
       DEF CommitUnheard, IInv, TypeOK, Truthful, Booked, CodesTypeOK, Token
  <2>7. Settled'
    BY <1>10 DEF CommitUnheard, IInv, Settled, RaceLost
  <2>8. Heard'
    BY <1>10, <2>1, <2>2, <2>3
       DEF CommitUnheard, IInv, TypeOK, Heard, Booked, CodesTypeOK, Token
  <2>9. RaceLostOnRecord'
    BY <1>10, <2>6, <2>7
       DEF CommitUnheard, IInv, RaceLostOnRecord, Truthful, Settled, RaceLost
  <2> QED
    BY <2>4, <2>5, <2>6, <2>7, <2>8, <2>9 DEF IInv
<1>11. ASSUME NEW c \in Code, CodeAges(c)
       PROVE  IInv'
  BY <1>11 DEF CodeAges, GrowOlder, Ages, IInv, TypeOK, Asked, Booked,
               Truthful, Settled, Heard, RaceLostOnRecord, CodesTypeOK,
               codesVars, Token, RaceLost
<1>12. CASE UNCHANGED vars
  BY <1>12 DEF vars, IInv, TypeOK, Asked, Booked, Truthful, Settled, Heard,
               RaceLostOnRecord, CodesTypeOK, codesVars, Token, RaceLost
<1> QED
  BY <1>1, <1>2, <1>3, <1>4, <1>5, <1>6, <1>7, <1>8, <1>9, <1>10, <1>11, <1>12
     DEF Next, Goroutine

\* The invariant is one of the specification.
LEMMA Invariant == Spec => []IInv
BY InitIInv, NextIInv, PTL DEF Spec

----------------------------------------------------------------------------
(* Theorems.                                                               *)

\* Every variable of the door keeps its type.
THEOREM TypeCorrect == Spec => []TypeOK
<1>1. IInv => TypeOK
  BY DEF IInv
<1> QED
  BY <1>1, Invariant, PTL

\* Single use at the online door: an answer "redeemed" is the burner's own, so no
\* two requests are answered "redeemed" for one code.
THEOREM RedeemedOnce == Spec => []RedeemedIsBurner
<1>1. IInv => RedeemedIsBurner
  BY DEF IInv, Truthful, RedeemedIsBurner
<1> QED
  BY <1>1, Invariant, PTL

\* A lost race is on record before the override that lost it is answered.
THEOREM LostRacesRecorded == Spec => []RaceLostOnRecord
<1>1. IInv => RaceLostOnRecord
  BY DEF IInv
<1> QED
  BY <1>1, Invariant, PTL

\* An arbitration that was answered calls redeem() no more.
THEOREM AnsweredCallsNoMore == Spec => NoCallAfterReply
<1> DEFINE Quiet == \A r \in Request : arb[r] = "done" =>
                      \A x \in calls' \ calls : x[1] # r
<1>1. ASSUME IInv, [Next]_vars
      PROVE  Quiet
  <2> SUFFICES ASSUME NEW r \in Request, arb[r] = "done",
                      NEW x \in calls' \ calls
               PROVE  x[1] # r
    OBVIOUS
  <2>1. machine[r] # "burning"
    BY <1>1 DEF IInv, Settled, Terminals
  <2>2. PICK s \in Request : ResolveCode(s)
    BY <1>1 DEF Next, Goroutine, vars, Submit, Hear, GiveUp, RouteOutcome,
                RouteFailure, RetryAfter, AwaitVerdict, Emit, EmitFails,
                StopActor, TimesOut, Cancelled, CommitUnheard, CodeAges
  <2>3. x = <<s, retries[s]>> /\ machine[s] = "burning"
    BY <2>2 DEF ResolveCode
  <2> QED
    BY <2>1, <2>3
<1>2. Quiet => [Quiet]_vars
  OBVIOUS
<1> QED
  BY <1>1, Invariant, PTL DEF Spec, NoCallAfterReply

\* Arbitrating a code again is stable for the client that asks.
THEOREM StableVerdicts == Spec => VerdictsAreStable
<1> DEFINE Stable ==
      \A k \in Client :
        LET news == told'[k] \ told[k]
        IN  /\ told[k] # {} => news \subseteq {"already_used"}
            /\ told[k] \cap {"expired", "not_found"} # {} => news = {}
<1>1. ASSUME IInv, [Next]_vars
      PROVE  Stable
  <2> SUFFICES ASSUME NEW k \in Client, told'[k] # told[k]
               PROVE  LET news == told'[k] \ told[k]
                      IN  /\ told[k] # {} => news \subseteq {"already_used"}
                          /\ told[k] \cap {"expired", "not_found"} # {} => news = {}
    OBVIOUS
  <2>1. PICK j \in Client : Hear(j)
    BY <1>1 DEF Next, Goroutine, vars, Submit, GiveUp, ResolveCode,
                RouteOutcome, RouteFailure, RetryAfter, AwaitVerdict, Emit,
                EmitFails, StopActor, TimesOut, Cancelled, CommitUnheard,
                CodeAges
  <2>2. j = k /\ told'[k] = told[k] \cup {reply[ask[k]]} /\ reply[ask[k]] \in Verdicts
    BY <1>1, <2>1 DEF Hear, IInv, TypeOK
  <2>3. ask[k] \in Request /\ Token(ask[k]) = CodeOf[k]
    BY <1>1, <2>1, <2>2 DEF Hear, IInv, Heard, Token
  <2> QED
    <3> DEFINE v == reply[ask[k]]
    <3>1. /\ v = "redeemed" \/ v = "already_used" =>
               CodeOf[k] \in Code /\ redeemedBy[CodeOf[k]] # None
          /\ v = "expired" => /\ CodeOf[k] \in Code
                              /\ redeemedBy[CodeOf[k]] = None
                              /\ age[CodeOf[k]] # "live"
          /\ v = "not_found" => CodeOf[k] \notin Code
          /\ v = "redeemed" => burner[CodeOf[k]] = ask[k]
      BY <1>1, <2>3, RedemptionAssumption DEF IInv, Truthful, Booked
    <3>2. told[k] \subseteq Verdicts /\ v \in Verdicts /\ v \notin told[k]
      BY <1>1, <2>2 DEF IInv, TypeOK
    <3>3. page[k] = "submitting"
      BY <2>1, <2>2 DEF Hear
    <3>4. "expired" \notin told[k] /\ "not_found" \notin told[k]
      BY <1>1, <3>1, <3>2 DEF IInv, Heard, Verdicts
    <3>5. told[k] # {} => v = "already_used"
      <4> SUFFICES ASSUME NEW w \in told[k]
                   PROVE  v = "already_used"
        OBVIOUS
      <4>1. w \in {"redeemed", "already_used"}
        BY <3>2, <3>4 DEF Verdicts
      <4> QED
        BY <1>1, <3>1, <3>2, <3>3, <4>1 DEF IInv, Heard, Verdicts
    <3> QED
      BY <2>2, <3>4, <3>5
<1> QED
  BY <1>1, Invariant, PTL DEF Spec, VerdictsAreStable
=============================================================================
