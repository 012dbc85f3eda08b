--------------------------- MODULE ScanPushProofs ---------------------------
(***************************************************************************)
(* Proofs about the offline door, for any number of phones, users, codes,  *)
(* attempts and page deaths, whoever signs in on which phone.              *)
(* The second half is about phones with a user of their own.               *)
(***************************************************************************)
EXTENDS ScanPush, TLAPS

\* redeem() keeps the table's type for whoever may call it.
LEMMA RedeemTypeOK ==
  ASSUME CodesTypeOK, NEW c, NEW d \in Device, NEW k \in Caller,
         Redeem(c, d, k), UNCHANGED age
  PROVE  CodesTypeOK'
BY DEF CodesTypeOK, Redeem, Verdict, Burnable, Ages

----------------------------------------------------------------------------
(* The inductive invariant, whoever signs in.                              *)

\* Where the handler is, it has an id and a pending row of its own phone; it
\* holds an outcome exactly while it persists it, and lands outcomes only.
Handling ==
  \A p \in Phone :
    /\ cur[p] = None <=> pc[p] \in {"closed", "idle"}
    /\ got[p] = "none" <=> pc[p] # "patching"
    /\ cur[p] # None =>
         /\ armed[p] # None
         /\ doc[cur[p]].phone = p
         /\ doc[cur[p]].status = "pending"
    /\ pc[p] \in {"burning", "awaiting", "patching"} =>
         /\ ~doc[cur[p]].unverified
         /\ doc[cur[p]].burn = "none"
    /\ pc[p] \in {"landing", "resolving"} =>
         doc[cur[p]].unverified \/ doc[cur[p]].burn # "none"
    /\ got[p] = "already_used" => Winner(p) # None
    /\ pc[p] = "resolving" => rowStatus[cur[p]] = LandedStatus(cur[p])

\* An attempt that was made has a phone and a code, and burns only if verified.
Made ==
  \A a \in Attempt :
    IF doc[a].status = "blank"
    THEN doc[a] = Blank
    ELSE /\ doc[a].phone \in Phone
         /\ doc[a].code \in Code
         /\ doc[a].unverified => doc[a].burn = "none"

\* What an attempt may land once it has an outcome to land.
Landable(a, status) ==
  /\ doc[a].unverified \/ doc[a].burn # "none"
  /\ status = LandedStatus(a)

\* Every row on the server, and every insert on its way, is landable.
Landed ==
  /\ \A a \in Attempt : rowStatus[a] # None => Landable(a, rowStatus[a])
  /\ \A r \in lands : Landable(r.attempt, r.status)

\* A call of redeem() is for a verified attempt that was made.
Called ==
  \A r \in calls : /\ doc[r.attempt].status # "blank"
                   /\ ~doc[r.attempt].unverified

\* A replica may be behind, and is never wrong.
Seen ==
  \A p \in Phone, c \in Code : replica[p][c] \in {None, redeemedBy[c]}

\* Inductive: what the rows and the server show of an outcome rests on the
\* outcomes and the requests on their way to them.
IInv ==
  /\ TypeOK
  /\ Handling
  /\ Made
  /\ Landed
  /\ Called
  /\ Seen
  /\ ResolvedHasLanded
  /\ LoserNamesWinner

\* The invariant holds at the start.
LEMMA InitIInv == Init => IInv
<1> SUFFICES ASSUME Init PROVE IInv
  OBVIOUS
<1>1. TypeOK
  BY ScanPushAssumption
     DEF Init, TypeOK, CodesInit, CodesTypeOK, Ages, Blank, Docs, Outcomes,
         Steps
<1> QED
  BY <1>1, ScanPushAssumption
     DEF Init, CodesInit, IInv, Handling, Made, Landed, Landable, Called, Seen,
         ResolvedHasLanded, LoserNamesWinner, Blank, LandedStatus, Winner

\* A handler that is at work has an id and a pending row of its phone.
LEMMA AtWork ==
  ASSUME IInv, NEW p \in Phone, pc[p] \notin {"closed", "idle"}
  PROVE  /\ cur[p] \in Attempt
         /\ armed[p] \in User
         /\ doc[cur[p]].phone = p
         /\ doc[cur[p]].status = "pending"
         /\ doc[cur[p]].code \in Code
<1>1. cur[p] # None
  BY DEF IInv, Handling
<1>2. cur[p] \in Attempt
  BY <1>1 DEF IInv, TypeOK
<1>3. armed[p] # None /\ doc[cur[p]].phone = p /\ doc[cur[p]].status = "pending"
  BY <1>1 DEF IInv, Handling
<1> QED
  BY <1>2, <1>3 DEF IInv, TypeOK, Made

\* A persisted outcome is of an attempt that names a code.
LEMMA DocCodes ==
  ASSUME IInv, NEW a \in Attempt, doc[a].burn # "none"
  PROVE  doc[a].code \in Code
BY DEF IInv, Made, Blank

\* What moves a page and its handler alone leaves the records as they are.
LEMMA RecordsKept ==
  ASSUME IInv, UNCHANGED <<redeemedBy, doc, rowStatus, replica, calls, lands>>,
         TypeOK', Handling'
  PROVE  IInv'
BY DEF IInv, Made, Landed, Landable, LandedStatus, Called, Seen,
       ResolvedHasLanded, LoserNamesWinner

\* The invariant is kept by what happens to the table alone: a redemption is never
\* undone, and calls may have been served.
LEMMA Kept ==
  ASSUME IInv, CodesTypeOK',
         \A e \in Code : redeemedBy[e] # None => redeemedBy'[e] = redeemedBy[e],
         calls' \subseteq calls,
         UNCHANGED <<docVars, rowStatus, replica, idVars, pageVars, lands>>
  PROVE  IInv'
<1>1. TypeOK'
  BY DEF IInv, TypeOK, docVars, idVars, pageVars
<1>2. Handling'
  BY DEF IInv, Handling, LandedStatus, Winner, docVars, pageVars
<1>3. Made' /\ Landed' /\ Called' /\ ResolvedHasLanded'
  BY DEF IInv, Made, Landed, Landable, LandedStatus, Called, ResolvedHasLanded,
         docVars
<1>4. Seen'
  BY DEF IInv, TypeOK, Seen
<1>5. LoserNamesWinner'
  BY DocCodes DEF IInv, LoserNamesWinner, docVars
<1> QED
  BY <1>1, <1>2, <1>3, <1>4, <1>5 DEF IInv

\* What the head of the handler's loop does with a pending row.
LEMMA HandleRowIInv ==
  ASSUME IInv, NEW p \in Phone, NEW a \in Attempt,
         pc[p] \in {"idle", "backoff"}, cur[p] \in {None, a},
         armed[p] \in User, doc[a].phone = p, doc[a].status = "pending",
         HandleRow(p, a)
  PROVE  IInv'
<1> USE ScanPushAssumption
<1>1. TypeOK'
  <2>1. calls' \in SUBSET Calls
    BY DEF HandleRow, CallRedeem, CallLand, IInv, TypeOK, Calls
  <2>2. lands' \in SUBSET Lands
    BY DEF HandleRow, CallRedeem, CallLand, Land, LandedStatus, IInv, TypeOK,
           Lands
  <2>3. pc' = [pc EXCEPT ![p] = "burning"] \/ pc' = [pc EXCEPT ![p] = "landing"]
    BY DEF HandleRow, CallRedeem, CallLand
  <2>4. pc' \in [Phone -> Steps]
    BY <2>3 DEF IInv, TypeOK, Steps
  <2>5. cur' \in [Phone -> Attempt \cup {None}]
    BY DEF HandleRow, IInv, TypeOK
  <2> QED
    BY <2>1, <2>2, <2>4, <2>5
       DEF HandleRow, IInv, TypeOK, CodesTypeOK, codesVars, docVars, idVars
<1>2. Handling'
  BY DEF HandleRow, CallRedeem, CallLand, IInv, TypeOK, Handling, LandedStatus,
         Winner, docVars
<1>3. Landed'
  BY DEF HandleRow, CallRedeem, CallLand, Land, IInv, TypeOK, Landed, Landable,
         LandedStatus, docVars
<1>4. Called'
  BY DEF HandleRow, CallRedeem, CallLand, IInv, Called, docVars
<1>5. Made' /\ Seen' /\ ResolvedHasLanded' /\ LoserNamesWinner'
  BY DEF HandleRow, IInv, Made, Seen, ResolvedHasLanded, LoserNamesWinner,
         codesVars, docVars
<1> QED
  BY <1>1, <1>2, <1>3, <1>4, <1>5 DEF IInv

\* Every step keeps the invariant, one action at a time.
LEMMA NextIInv ==
  ASSUME IInv, [Next]_vars
  PROVE  IInv'
<1> USE ScanPushAssumption
<1>1. ASSUME NEW p \in Phone, OpenPage(p)
      PROVE  IInv'
  <2>1. TypeOK'
    BY <1>1 DEF OpenPage, IInv, TypeOK, CodesTypeOK, codesVars, docVars,
                netVars, idVars, Steps
  <2>2. Handling'
    BY <1>1 DEF OpenPage, IInv, TypeOK, Handling, LandedStatus, Winner,
                codesVars, docVars, netVars
  <2> QED
    BY <1>1, <2>1, <2>2, RecordsKept DEF OpenPage, codesVars, docVars, netVars
<1>2. ASSUME NEW p \in Phone, Provision(p)
      PROVE  IInv'
  <2>1. TypeOK'
    BY <1>2 DEF Provision, IInv, TypeOK, CodesTypeOK, codesVars, docVars,
                netVars
  <2>2. Handling'
    BY <1>2 DEF Provision, IInv, TypeOK, Handling, LandedStatus, Winner,
                codesVars, docVars, netVars
  <2> QED
    BY <1>2, <2>1, <2>2, RecordsKept DEF Provision, codesVars, docVars, netVars
<1>3. ASSUME NEW p \in Phone, MintFails(p)
      PROVE  IInv'
  <2>1. TypeOK'
    BY <1>3 DEF MintFails, IInv, TypeOK, CodesTypeOK, codesVars, docVars,
                netVars, idVars
  <2>2. Handling'
    BY <1>3 DEF MintFails, IInv, TypeOK, Handling, LandedStatus, Winner,
                codesVars, docVars, netVars
  <2> QED
    BY <1>3, <2>1, <2>2, RecordsKept DEF MintFails, codesVars, docVars, netVars
<1>4. ASSUME NEW p \in Phone, ClosePage(p)
      PROVE  IInv'
  <2>1. TypeOK'
    BY <1>4 DEF ClosePage, IInv, TypeOK, CodesTypeOK, codesVars, docVars,
                netVars, idVars, Outcomes, Steps
  <2>2. Handling'
    BY <1>4 DEF ClosePage, IInv, TypeOK, Handling, LandedStatus, Winner,
                codesVars, docVars, netVars
  <2> QED
    BY <1>4, <2>1, <2>2, RecordsKept DEF ClosePage, codesVars, docVars, netVars
<1>5. ASSUME NEW p \in Phone, NEW u \in User, SwitchUser(p, u)
      PROVE  IInv'
  <2>1. TypeOK'
    BY <1>5 DEF SwitchUser, IInv, TypeOK, CodesTypeOK, codesVars, docVars,
                pageVars, netVars
  <2>2. Handling'
    BY <1>5 DEF SwitchUser, IInv, TypeOK, Handling, LandedStatus, Winner,
                codesVars, docVars, pageVars, netVars
  <2> QED
    BY <1>5, <2>1, <2>2, RecordsKept DEF SwitchUser, codesVars, docVars,
                                         netVars
<1>6. ASSUME NEW p \in Phone, NEW a \in Attempt, NEW c \in Code,
             NEW u \in BOOLEAN, Enqueue(p, a, c, u)
      PROVE  IInv'
  <2>1. /\ doc[a].status = "blank" /\ doc[a] = Blank
        /\ doc'[a] = [phone |-> p, code |-> c, unverified |-> u,
                      status |-> "pending", burn |-> "none", winner |-> None]
        /\ \A b \in Attempt \ {a} : doc'[b] = doc[b]
    BY <1>6 DEF Enqueue, IInv, TypeOK, Made
  <2>2. /\ UNCHANGED <<redeemedBy, rowStatus, replica, calls, lands>>
        /\ UNCHANGED <<cur, pc, got, armed>>
        /\ UNCHANGED <<codesVars, idVars, pageVars>>
    BY <1>6 DEF Enqueue, codesVars, pageVars, netVars
  <2>3. /\ rowStatus[a] = None
        /\ \A r \in lands : r.attempt \in Attempt \ {a}
        /\ \A r \in calls : r.attempt \in Attempt \ {a}
        /\ \A q \in Phone : cur[q] # a
    BY <2>1 DEF IInv, TypeOK, Calls, Lands, Landed, Landable, Called, Handling,
                Blank
  <2>4. TypeOK'
    BY <1>6, <2>2 DEF Enqueue, IInv, TypeOK, CodesTypeOK, Docs, codesVars,
                      idVars, pageVars
  <2>5. Handling'
    BY <2>1, <2>2, <2>3 DEF IInv, TypeOK, Handling, LandedStatus, Winner
  <2>6. Landed'
    BY <2>1, <2>2, <2>3 DEF IInv, Landed, Landable, LandedStatus
  <2>7. Made' /\ Called' /\ Seen'
    BY <2>1, <2>2, <2>3 DEF IInv, Made, Called, Seen
  <2>8. ResolvedHasLanded' /\ LoserNamesWinner'
    BY <2>1, <2>2 DEF IInv, ResolvedHasLanded, LoserNamesWinner
  <2> QED
    BY <2>4, <2>5, <2>6, <2>7, <2>8 DEF IInv
<1>7. ASSUME NEW p \in Phone, Nudge(p)
      PROVE  IInv'
  <2>1. TypeOK'
    BY <1>7 DEF Nudge, IInv, TypeOK, CodesTypeOK, codesVars, docVars, netVars,
                idVars
  <2>2. Handling'
    BY <1>7 DEF Nudge, IInv, TypeOK, Handling, LandedStatus, Winner, codesVars,
                docVars, netVars
  <2> QED
    BY <1>7, <2>1, <2>2, RecordsKept DEF Nudge, codesVars, docVars, netVars
<1>8. ASSUME NEW p \in Phone, PullCodes(p)
      PROVE  IInv'
  <2>1. TypeOK'
    BY <1>8 DEF PullCodes, IInv, TypeOK, CodesTypeOK, codesVars, docVars,
                idVars, netVars
  <2>2. \A c \in Code : /\ replica'[p][c] \in {replica[p][c], redeemedBy[c]}
                        /\ \A q \in Phone \ {p} : replica'[q][c] = replica[q][c]
    BY <1>8 DEF PullCodes, IInv, TypeOK
  <2>3. Seen'
    BY <1>8, <2>2 DEF PullCodes, IInv, Seen, codesVars
  <2>4. \A q \in Phone, c \in Code : replica[q][c] # None => replica'[q][c] # None
    BY <2>2 DEF IInv, Seen
  <2>5. \A q \in Phone : got[q] = "already_used" => doc[cur[q]].code \in Code
    BY AtWork DEF IInv, Handling
  <2>6. Handling'
    BY <1>8, <2>4, <2>5 DEF PullCodes, IInv, Handling, LandedStatus, Winner,
                            docVars
  <2> QED
    BY <1>8, <2>1, <2>3, <2>6
       DEF PullCodes, IInv, Made, Landed, Landable, LandedStatus, Called,
           ResolvedHasLanded, LoserNamesWinner, codesVars, docVars, netVars
<1>9. ASSUME NEW p \in Phone, NEW a \in Attempt, StartRow(p, a)
      PROVE  IInv'
  BY <1>9, HandleRowIInv DEF StartRow, Pending, IInv, TypeOK, Handling
<1>10. ASSUME NEW p \in Phone, Retry(p)
       PROVE  IInv'
  BY <1>10, AtWork, HandleRowIInv DEF Retry
<1>11. ASSUME NEW p \in Phone, FailRedeem(p)
      PROVE  IInv'
  <2>1. TypeOK'
    BY <1>11 DEF FailRedeem, IInv, TypeOK, CodesTypeOK, codesVars, docVars,
                 netVars, idVars, Steps
  <2>2. Handling'
    BY <1>11 DEF FailRedeem, IInv, TypeOK, Handling, LandedStatus, Winner,
                 codesVars, docVars, netVars
  <2> QED
    BY <1>11, <2>1, <2>2, RecordsKept DEF FailRedeem, codesVars, docVars,
                                          netVars
<1>12. ASSUME NEW p \in Phone, SeeWinner(p)
      PROVE  IInv'
  <2>1. TypeOK'
    BY <1>12 DEF SeeWinner, WinnerSeen, IInv, TypeOK, CodesTypeOK, codesVars,
                 docVars, netVars, idVars, Outcomes, Steps
  <2>2. Handling'
    BY <1>12 DEF SeeWinner, WinnerSeen, IInv, TypeOK, Handling, LandedStatus,
                 Winner, codesVars, docVars, netVars
  <2> QED
    BY <1>12, <2>1, <2>2, RecordsKept DEF SeeWinner, WinnerSeen, codesVars,
                                          docVars, netVars
<1>13. ASSUME NEW p \in Phone, WinnerTimeout(p)
      PROVE  IInv'
  <2>1. TypeOK'
    BY <1>13 DEF WinnerTimeout, IInv, TypeOK, CodesTypeOK, codesVars, docVars,
                 netVars, idVars, Steps
  <2>2. Handling'
    BY <1>13 DEF WinnerTimeout, IInv, TypeOK, Handling, LandedStatus, Winner,
                 codesVars, docVars, netVars
  <2> QED
    BY <1>13, <2>1, <2>2, RecordsKept DEF WinnerTimeout, codesVars, docVars,
                                          netVars
<1>14. ASSUME NEW p \in Phone, PersistBurn(p)
       PROVE  IInv'
  <2> DEFINE a == cur[p]
  <2>1. /\ a \in Attempt
        /\ armed[p] \in User
        /\ doc[a].status = "pending"
        /\ doc[a].code \in Code
    BY <1>14, AtWork DEF PersistBurn
  <2>2. /\ got[p] # "none"
        /\ ~doc[a].unverified
        /\ doc[a].burn = "none"
        /\ got[p] = "already_used" => Winner(p) # None
    BY <1>14 DEF PersistBurn, IInv, Handling
  <2>3. /\ Winner(p) \in {None, redeemedBy[doc[a].code]}
        /\ Winner(p) \in Device \cup {None}
    BY <2>1 DEF IInv, Seen, Winner, TypeOK
  <2>4. doc' \in [Attempt -> Docs]
    <3>1. doc[a] \in Docs /\ got[p] \in Outcomes \cup {"none"}
      BY <2>1 DEF IInv, TypeOK
    <3>2. [doc[a] EXCEPT !.burn = got[p],
                         !.winner = IF got[p] = "already_used"
                                    THEN Winner(p) ELSE None] \in Docs
      BY <2>3, <3>1 DEF Docs
    <3> QED
      BY <1>14, <2>1, <3>2 DEF PersistBurn, IInv, TypeOK
  <2>5. /\ \A b \in Attempt \ {a} : doc'[b] = doc[b]
        /\ doc'[a].phone = doc[a].phone
        /\ doc'[a].code = doc[a].code
        /\ doc'[a].unverified = doc[a].unverified
        /\ doc'[a].status = doc[a].status
        /\ doc'[a].burn = got[p]
        /\ doc'[a].winner = IF got[p] = "already_used" THEN Winner(p) ELSE None
    BY <1>14, <2>1 DEF PersistBurn, IInv, TypeOK, Docs
  <2>6. rowStatus[a] = None /\ \A r \in lands : r.attempt # a
    BY <2>1, <2>2 DEF IInv, Landed, Landable
  <2>7. TypeOK'
    <3>1. lands' \in SUBSET Lands
      BY <1>14, <2>1 DEF PersistBurn, Land, IInv, TypeOK, Lands
    <3> QED
      BY <1>14, <2>4, <3>1
         DEF PersistBurn, IInv, TypeOK, CodesTypeOK, codesVars, idVars, Steps
  <2>8. Handling'
    BY <1>14, <2>1, <2>2, <2>5
       DEF PersistBurn, IInv, TypeOK, Handling, LandedStatus, Winner, codesVars
  <2>9. Made'
    BY <2>1, <2>2, <2>5 DEF IInv, Made
  <2>10. Landed'
    <3>1. \A r \in lands : r.attempt \in Attempt
      BY DEF IInv, TypeOK, Lands
    <3> QED
      BY <1>14, <2>1, <2>2, <2>5, <2>6, <3>1
         DEF PersistBurn, Land, IInv, Landed, Landable, LandedStatus
  <2>11. Called' /\ Seen'
    BY <1>14, <2>5
       DEF PersistBurn, IInv, TypeOK, Calls, Called, Seen, codesVars
  <2>12. ResolvedHasLanded'
    BY <1>14, <2>1, <2>5 DEF PersistBurn, IInv, ResolvedHasLanded
  <2>13. LoserNamesWinner'
    BY <1>14, <2>1, <2>2, <2>3, <2>5
       DEF PersistBurn, IInv, LoserNamesWinner, codesVars
  <2> QED
    BY <2>7, <2>8, <2>9, <2>10, <2>11, <2>12, <2>13 DEF IInv
<1>15. ASSUME NEW p \in Phone, FailLand(p)
      PROVE  IInv'
  <2>1. TypeOK'
    BY <1>15 DEF FailLand, IInv, TypeOK, CodesTypeOK, codesVars, docVars,
                 netVars, idVars, Steps
  <2>2. Handling'
    BY <1>15 DEF FailLand, IInv, TypeOK, Handling, LandedStatus, Winner,
                 codesVars, docVars, netVars
  <2> QED
    BY <1>15, <2>1, <2>2, RecordsKept DEF FailLand, codesVars, docVars, netVars
<1>16. ASSUME NEW p \in Phone, Resolve(p)
       PROVE  IInv'
  <2> DEFINE a == cur[p]
  <2>1. a \in Attempt /\ doc[a].status = "pending" /\ doc[a].phone = p
    BY <1>16, AtWork DEF Resolve
  <2>2. /\ rowStatus[a] = LandedStatus(a)
        /\ LandedStatus(a) \in {"accepted", "rejected"}
    BY <1>16 DEF Resolve, IInv, Handling, LandedStatus
  <2>3. doc' \in [Attempt -> Docs]
    <3>1. doc[a] \in Docs
      BY <2>1 DEF IInv, TypeOK
    <3>2. [doc[a] EXCEPT !.status = LandedStatus(a)] \in Docs
      BY <2>2, <3>1 DEF Docs
    <3> QED
      BY <1>16, <2>1, <3>2 DEF Resolve, IInv, TypeOK
  <2>4. /\ \A b \in Attempt \ {a} : doc'[b] = doc[b]
        /\ doc'[a].phone = doc[a].phone
        /\ doc'[a].code = doc[a].code
        /\ doc'[a].unverified = doc[a].unverified
        /\ doc'[a].burn = doc[a].burn
        /\ doc'[a].winner = doc[a].winner
        /\ doc'[a].status = LandedStatus(a)
    BY <1>16, <2>1 DEF Resolve, IInv, TypeOK, Docs
  <2>5. TypeOK'
    BY <1>16, <2>3 DEF Resolve, IInv, TypeOK, CodesTypeOK, codesVars, idVars,
                       netVars, Steps
  <2>6. Handling'
    BY <1>16, <2>1, <2>4 DEF Resolve, IInv, TypeOK, Handling, LandedStatus,
                             Winner
  <2>7. Made'
    BY <2>1, <2>2, <2>4 DEF IInv, Made
  <2>8. Landed'
    <3>1. \A r \in lands : r.attempt \in Attempt
      BY DEF IInv, TypeOK, Lands
    <3> QED
      BY <1>16, <2>1, <2>4, <3>1
         DEF Resolve, IInv, Landed, Landable, LandedStatus, netVars
  <2>9. Called' /\ Seen'
    BY <1>16, <2>2, <2>4
       DEF Resolve, IInv, TypeOK, Calls, Called, Seen, codesVars, netVars
  <2>10. ResolvedHasLanded'
    BY <1>16, <2>2, <2>4 DEF Resolve, IInv, ResolvedHasLanded
  <2>11. LoserNamesWinner'
    BY <1>16, <2>1, <2>4 DEF Resolve, IInv, LoserNamesWinner, codesVars
  <2> QED
    BY <2>5, <2>6, <2>7, <2>8, <2>9, <2>10, <2>11 DEF IInv
<1>17. ASSUME NEW p \in Phone, AnswerRedeem(p)
       PROVE  IInv'
  <2>1. /\ cur[p] \in Attempt /\ armed[p] \in User /\ doc[cur[p]].code \in Code
        /\ ~doc[cur[p]].unverified /\ doc[cur[p]].burn = "none"
    BY <1>17, AtWork DEF AnswerRedeem, IInv, Handling
  <2>2. CodesTypeOK'
    BY <1>17, <2>1, RedeemTypeOK DEF AnswerRedeem, IInv, TypeOK
  <2>3. \A e \in Code : redeemedBy[e] # None => redeemedBy'[e] = redeemedBy[e]
    BY <1>17 DEF AnswerRedeem, Redeem, Verdict, Burnable, IInv, TypeOK,
                 CodesTypeOK
  <2>4. /\ UNCHANGED <<doc, rowStatus, replica, session, stored, armed, minting>>
        /\ UNCHANGED <<due, cur, closes, lands>>
        /\ calls' \subseteq calls
    BY <1>17 DEF AnswerRedeem, docVars, idVars
  <2>5. TypeOK'
    BY <1>17, <2>2, <2>4 DEF AnswerRedeem, IInv, TypeOK, Outcomes, Steps
  <2>6. Handling'
    <3>1. /\ \/ pc'[p] = "awaiting" /\ got'[p] = "none"
             \/ pc'[p] = "patching" /\ got'[p] \in {"won", "expired"}
          /\ \A q \in Phone \ {p} : pc'[q] = pc[q] /\ got'[q] = got[q]
      BY <1>17, <2>1 DEF AnswerRedeem, Verdict, IInv, TypeOK
    <3> QED
      BY <2>1, <2>4, <3>1 DEF IInv, TypeOK, Handling, LandedStatus, Winner
  <2>7. Made' /\ Landed' /\ Called' /\ ResolvedHasLanded'
    BY <2>4 DEF IInv, Made, Landed, Landable, LandedStatus, Called,
                ResolvedHasLanded
  <2>8. Seen' /\ LoserNamesWinner'
    BY <2>3, <2>4, DocCodes DEF IInv, Seen, LoserNamesWinner
  <2> QED
    BY <2>5, <2>6, <2>7, <2>8 DEF IInv
<1>18. ASSUME NEW r \in lands, InsertRow(r), lands' = lands \ {r},
              UNCHANGED <<codesVars, docVars, replica, idVars, calls>>
       PROVE  /\ CodesTypeOK' /\ Made' /\ Landed' /\ Called' /\ Seen'
              /\ ResolvedHasLanded' /\ LoserNamesWinner'
              /\ rowStatus' \in [Attempt -> {None, "accepted", "rejected"}]
              /\ Allowed(r) => rowStatus'[r.attempt] = LandedStatus(r.attempt)
              /\ \A a \in Attempt :
                   rowStatus[a] # None => rowStatus'[a] = rowStatus[a]
  <2>1. /\ r.attempt \in Attempt /\ r.status \in {"accepted", "rejected"}
        /\ Landable(r.attempt, r.status)
    BY DEF IInv, TypeOK, Lands, Landed
  <2>2. /\ rowStatus' \in [Attempt -> {None, "accepted", "rejected"}]
        /\ \A a \in Attempt \ {r.attempt} : rowStatus'[a] = rowStatus[a]
        /\ rowStatus'[r.attempt] = IF Allowed(r) /\ rowStatus[r.attempt] = None
                                   THEN r.status ELSE rowStatus[r.attempt]
    BY <1>18, <2>1 DEF InsertRow, IInv, TypeOK
  <2>3. Landed'
    BY <1>18, <2>1, <2>2 DEF IInv, Landed, Landable, LandedStatus, docVars
  <2>4. Allowed(r) => rowStatus'[r.attempt] = LandedStatus(r.attempt)
    BY <2>1, <2>2 DEF IInv, Landed, Landable
  <2>5. ResolvedHasLanded'
    BY <1>18, <2>1, <2>2 DEF IInv, ResolvedHasLanded, docVars
  <2> QED
    BY <1>18, <2>2, <2>3, <2>4, <2>5
       DEF IInv, TypeOK, CodesTypeOK, Made, Called, Seen, LoserNamesWinner,
           codesVars, docVars
<1>19. ASSUME NEW p \in Phone, NEW r \in lands, AnswerLand(p, r)
       PROVE  IInv'
  <2>1. /\ InsertRow(r) /\ lands' = lands \ {r}
        /\ UNCHANGED <<codesVars, docVars, replica, idVars, calls>>
    BY <1>19 DEF AnswerLand, LandAnswered
  <2>2. TypeOK'
    BY <1>18, <1>19, <2>1 DEF AnswerLand, LandAnswered, IInv, TypeOK, Steps,
                              docVars, idVars
  <2>3. Handling'
    BY <1>18, <1>19, <2>1
       DEF AnswerLand, LandAnswered, IInv, TypeOK, Handling, LandedStatus,
           Winner, docVars
  <2> QED
    BY <1>18, <2>1, <2>2, <2>3 DEF IInv
<1>20. ASSUME NEW r \in lands, ServeLandUnheard(r)
       PROVE  IInv'
  <2>1. /\ InsertRow(r) /\ lands' = lands \ {r}
        /\ UNCHANGED <<codesVars, docVars, replica, idVars, calls, pageVars>>
    BY <1>20 DEF ServeLandUnheard
  <2>2. TypeOK'
    BY <1>18, <2>1 DEF IInv, TypeOK, docVars, idVars, pageVars
  <2>3. Handling'
    <3>1. \A q \in Phone : pc[q] = "resolving" =>
            rowStatus[cur[q]] # None /\ cur[q] \in Attempt
      BY AtWork DEF IInv, Handling, LandedStatus
    <3> QED
      BY <1>18, <2>1, <3>1 DEF IInv, Handling, LandedStatus, Winner, docVars,
                               pageVars
  <2> QED
    BY <1>18, <2>1, <2>2, <2>3 DEF IInv
<1>21. ASSUME NEW r \in calls, ServeRedeemUnheard(r)
       PROVE  IInv'
  <2>1. r.attempt \in Attempt /\ r.device \in User
    BY DEF IInv, TypeOK, Calls
  <2>2. CodesTypeOK'
    BY <1>21, <2>1, RedeemTypeOK DEF ServeRedeemUnheard, IInv, TypeOK
  <2>3. \A e \in Code : redeemedBy[e] # None => redeemedBy'[e] = redeemedBy[e]
    BY <1>21 DEF ServeRedeemUnheard, Redeem, Verdict, Burnable, IInv, TypeOK,
                 CodesTypeOK
  <2>4. /\ UNCHANGED <<docVars, rowStatus, replica, idVars, pageVars, lands>>
        /\ calls' \subseteq calls
    BY <1>21 DEF ServeRedeemUnheard
  <2> QED
    BY <2>2, <2>3, <2>4, Kept
<1>22. ASSUME NEW c \in Code, OnlineBurn(c)
       PROVE  IInv'
  <2>1. CodesTypeOK'
    BY <1>22, RedeemTypeOK DEF OnlineBurn, IInv, TypeOK
  <2>2. \A e \in Code : redeemedBy[e] # None => redeemedBy'[e] = redeemedBy[e]
    BY <1>22 DEF OnlineBurn, Redeem, Verdict, Burnable, IInv, TypeOK,
                 CodesTypeOK
  <2> QED
    BY <1>22, <2>1, <2>2, Kept DEF OnlineBurn, netVars
<1>23. ASSUME NEW c \in Code, CodeAges(c)
       PROVE  IInv'
  <2>1. CodesTypeOK' /\ redeemedBy' = redeemedBy
    BY <1>23 DEF CodeAges, GrowOlder, IInv, TypeOK, CodesTypeOK, Ages
  <2> QED
    BY <1>23, <2>1, Kept DEF CodeAges, netVars
<1>24. CASE UNCHANGED vars
  BY <1>24, Kept DEF vars, codesVars, netVars, IInv, TypeOK, CodesTypeOK
<1> QED
  BY <1>1, <1>2, <1>3, <1>4, <1>5, <1>6, <1>7, <1>8, <1>9, <1>10, <1>11, <1>12,
     <1>13, <1>14, <1>15, <1>16, <1>17, <1>19, <1>20, <1>21, <1>22, <1>23, <1>24
     DEF Next, HandlerStep

\* The invariant is one of the specification.
LEMMA Invariant == Spec => []IInv
BY InitIInv, NextIInv, PTL DEF Spec

----------------------------------------------------------------------------
(* Theorems, whoever signs in.                                             *)

\* Every variable of the offline door keeps its type.
THEOREM TypeCorrect == Spec => []TypeOK
<1>1. IInv => TypeOK
  BY DEF IInv
<1> QED
  BY <1>1, Invariant, PTL

\* The audit row on the server and the row the crew sees never disagree.
THEOREM ResolvedRowsLanded == Spec => []ResolvedHasLanded
<1>1. IInv => ResolvedHasLanded
  BY DEF IInv
<1> QED
  BY <1>1, Invariant, PTL

\* A rejection for already_used names the redeemer on record, never a guess.
THEOREM WinnersNamed == Spec => []LoserNamesWinner
<1>1. IInv => LoserNamesWinner
  BY DEF IInv
<1> QED
  BY <1>1, Invariant, PTL

\* Belt 1: a persisted outcome is final, and ends the calls of redeem().
THEOREM OutcomesFinal == Spec => BeltOneHolds
<1> DEFINE Final == \A a \in Attempt : doc[a].burn # "none" =>
                      /\ doc'[a].burn = doc[a].burn
                      /\ \A r \in calls' \ calls : r.attempt # a
<1>1. ASSUME IInv, [Next]_vars
      PROVE  Final
  <2> SUFFICES ASSUME NEW a \in Attempt, doc[a].burn # "none"
               PROVE  /\ doc'[a].burn = doc[a].burn
                      /\ \A r \in calls' \ calls : r.attempt # a
    OBVIOUS
  <2>1. CASE doc' = doc /\ calls' \subseteq calls
    BY <2>1
  <2>2. ASSUME NEW p \in Phone, NEW b \in Attempt, HandleRow(p, b)
        PROVE  Final
    BY <2>2 DEF HandleRow, CallRedeem, CallLand, docVars
  <2>3. ASSUME NEW p \in Phone, PersistBurn(p)
        PROVE  Final
    BY <1>1, <2>3 DEF PersistBurn, IInv, TypeOK, Handling
  <2>4. ASSUME NEW p \in Phone, Resolve(p)
        PROVE  Final
    BY <1>1, <2>4 DEF Resolve, IInv, TypeOK, netVars
  <2>5. ASSUME NEW p \in Phone, NEW b \in Attempt, NEW c \in Code,
               NEW u \in BOOLEAN, Enqueue(p, b, c, u)
        PROVE  Final
    BY <1>1, <2>5 DEF Enqueue, IInv, TypeOK, Made, Blank, netVars
  <2>6. ASSUME NEW p \in Phone, \/ \E b \in Attempt : StartRow(p, b)
                               \/ Retry(p)
        PROVE  Final
    BY <1>1, <2>2, <2>6, AtWork DEF StartRow, Retry
  <2>7. ASSUME NEW p \in Phone,
               \/ OpenPage(p) \/ Provision(p) \/ MintFails(p) \/ ClosePage(p)
               \/ (\E u \in User : SwitchUser(p, u))
               \/ Nudge(p) \/ PullCodes(p)
               \/ FailRedeem(p) \/ SeeWinner(p) \/ WinnerTimeout(p)
               \/ FailLand(p) \/ AnswerRedeem(p)
               \/ (\E r \in lands : AnswerLand(p, r))
        PROVE  doc' = doc /\ calls' \subseteq calls
    BY <2>7 DEF OpenPage, Provision, MintFails, ClosePage, SwitchUser, Nudge,
                PullCodes, FailRedeem, SeeWinner, WinnerSeen, WinnerTimeout,
                FailLand, AnswerRedeem, AnswerLand, LandAnswered, docVars,
                netVars
  <2>8. ASSUME \/ \E r \in calls : ServeRedeemUnheard(r)
               \/ \E r \in lands : ServeLandUnheard(r)
               \/ \E c \in Code : OnlineBurn(c) \/ CodeAges(c)
               \/ UNCHANGED vars
        PROVE  doc' = doc /\ calls' \subseteq calls
    BY <2>8 DEF ServeRedeemUnheard, ServeLandUnheard, OnlineBurn, CodeAges,
                vars, docVars, netVars
  <2> QED
    BY <1>1, <2>1, <2>3, <2>4, <2>5, <2>6, <2>7, <2>8 DEF Next, HandlerStep
<1> QED
  BY <1>1, Invariant, PTL DEF Spec, BeltOneHolds

-----------------------------------------------------------------------------
(* The offline door keeps single use, and implements SingleUse, when every *)
(* phone keeps a user of its own: belt 2 tells its own burn by the user's  *)
(* id, so without that assumption it is not so (run push_shared_user).     *)

\* Each phone has a user of its own, for good.
OneUserEach ==
  /\ ~MaySwitch
  /\ \A p, q \in Phone : Owner[p] = Owner[q] => p = q

----------------------------------------------------------------------------
(* The inductive invariant.                                                *)

\* Whatever id a phone works with is its user's.
Identified ==
  /\ \A p \in Phone : /\ session[p] = Owner[p]
                      /\ stored[p] \in {None, Owner[p]}
                      /\ armed[p] \in {None, Owner[p]}
  /\ \A r \in calls : r.device = Owner[doc[r.attempt].phone]

\* redeemed_by is the id of whoever burned the code, an attempt for this code.
Credited ==
  \A c \in Code :
    /\ burner[c] = None <=> redeemedBy[c] = None
    /\ burner[c] = Door <=> redeemedBy[c] = Door
    /\ \A a \in Attempt : burner[c] = a =>
         /\ doc[a].status # "blank"
         /\ ~doc[a].unverified
         /\ doc[a].code = c
         /\ redeemedBy[c] = Owner[doc[a].phone]

\* The dedupe: a phone has one attempt for a code that is not rejected.
Live(a) == doc[a].status \in {"pending", "accepted"}

OneLive ==
  \A a, b \in Attempt :
    /\ Live(a) /\ Live(b)
    /\ doc[a].phone = doc[b].phone
    /\ doc[a].code = doc[b].code
    /\ doc[a].unverified = doc[b].unverified
    => a = b

\* An outcome is the truth about the code, and no later call can change it.
Right(a, outcome) ==
  /\ outcome = "won" => burner[doc[a].code] = a
  /\ outcome \in {"already_used", "expired"} =>
       burner[doc[a].code] # a /\ ~Burnable(doc[a].code)

\* So it is for every outcome persisted, and for the one a handler holds.
Decided ==
  /\ \A a \in Attempt : Right(a, doc[a].burn)
  /\ \A p \in Phone : cur[p] # None => Right(cur[p], got[p])

\* Inductive: an outcome is right as belt 2 mistakes no other burn for its own.
SInv ==
  /\ IInv
  /\ Identified
  /\ Credited
  /\ OneLive
  /\ Decided

\* The invariant holds at the start.
LEMMA InitSInv == Init => SInv
<1> SUFFICES ASSUME Init PROVE SInv
  OBVIOUS
<1>1. IInv
  BY InitIInv
<1> QED
  BY <1>1, ScanPushAssumption
     DEF Init, CodesInit, SInv, Identified, Credited, OneLive, Live, Decided,
         Right, Blank

\* A rejected attempt has lost, and a verified one that is accepted has won.
LEMMA ResolvedRight ==
  ASSUME SInv, NEW a \in Attempt
  PROVE  /\ doc[a].status = "rejected" \/ rowStatus[a] = "rejected" =>
              doc[a].burn \in {"already_used", "expired"}
         /\ doc[a].status = "accepted" /\ ~doc[a].unverified =>
              doc[a].burn = "won"
<1>1. \A status \in {"accepted", "rejected"} :
        doc[a].status = status => rowStatus[a] = status
  BY DEF SInv, IInv, ResolvedHasLanded
<1>2. rowStatus[a] \in {"accepted", "rejected"} => Landable(a, rowStatus[a])
  BY ScanPushAssumption DEF SInv, IInv, Landed
<1>3. doc[a].burn \in {"won", "already_used", "expired", "none"}
  BY DEF SInv, IInv, TypeOK, Docs, Outcomes
<1> QED
  BY <1>1, <1>2, <1>3 DEF Landable, LandedStatus

\* The attempt that burned a code has not been rejected.
LEMMA BurnerLives ==
  ASSUME SInv, NEW a \in Attempt, NEW c \in Code, burner[c] = a
  PROVE  Live(a) /\ rowStatus[a] # "rejected"
<1>1. doc[a].code = c /\ doc[a].status # "blank"
  BY DEF SInv, Credited
<1>2. doc[a].burn \notin {"already_used", "expired"}
  BY <1>1 DEF SInv, Decided, Right
<1>3. doc[a].status \in {"blank", "pending", "accepted", "rejected"}
  BY DEF SInv, IInv, TypeOK, Docs
<1> QED
  BY <1>1, <1>2, <1>3, ResolvedRight DEF Live

\* Belt 2: the phone's own id on a code is the burn of the row it works on.
LEMMA BeltTwo ==
  ASSUME OneUserEach, SInv, NEW p \in Phone, pc[p] = "awaiting",
         Winner(p) # None
  PROVE  /\ Winner(p) = redeemedBy[doc[cur[p]].code]
         /\ Winner(p) = armed[p] <=> burner[doc[cur[p]].code] = cur[p]
<1> USE ScanPushAssumption
<1> DEFINE a == cur[p]
           c == doc[a].code
<1>1. /\ a \in Attempt /\ armed[p] \in User /\ c \in Code
      /\ doc[a].phone = p /\ doc[a].status = "pending"
  BY AtWork DEF SInv
<1>2. Winner(p) = redeemedBy[c]
  BY <1>1 DEF SInv, IInv, Seen, Winner
<1>3. armed[p] = Owner[p]
  BY <1>1 DEF SInv, Identified
<1>4. burner[c] = a => redeemedBy[c] = Owner[p]
  BY <1>1 DEF SInv, Credited
<1>5. ASSUME redeemedBy[c] = Owner[p]
      PROVE  burner[c] = a
  <2>1. Owner[p] # None /\ Owner[p] # Door
    BY <1>1, <1>3
  <2>2. burner[c] \in Attempt
    BY <1>1, <1>5, <2>1 DEF SInv, IInv, TypeOK, CodesTypeOK, Credited
  <2> DEFINE b == burner[c]
  <2>3. /\ ~doc[b].unverified /\ doc[b].code = c
        /\ doc[b].status # "blank" /\ Owner[doc[b].phone] = Owner[p]
    BY <1>1, <1>5, <2>2 DEF SInv, Credited
  <2>4. doc[b].phone = p
    BY <2>2, <2>3 DEF SInv, IInv, Made, OneUserEach
  <2>5. Live(b)
    BY <1>1, <2>2, BurnerLives
  <2>6. ~doc[a].unverified
    BY DEF SInv, IInv, Handling
  <2> QED
    BY <1>1, <2>2, <2>3, <2>4, <2>5, <2>6
       DEF SInv, IInv, TypeOK, Docs, OneLive, Live
<1> QED
  BY <1>2, <1>3, <1>4, <1>5

\* A call of redeem() burns for the attempt it was made for, and leaves what was
\* decided as it was.
LEMMA RedeemDecides ==
  ASSUME SInv, NEW a \in Attempt,
         doc[a].status # "blank", ~doc[a].unverified, Owner[doc[a].phone] \in User,
         Redeem(doc[a].code, Owner[doc[a].phone], a),
         UNCHANGED <<age, doc>>
  PROVE  /\ Credited'
         /\ \A b \in Attempt, o \in Outcomes \cup {"none"} :
              doc[b].code \in Code /\ Right(b, o) => Right(b, o)'
         /\ Verdict(doc[a].code) = "ok" => Right(a, "won")'
         /\ Verdict(doc[a].code) = "expired" => Right(a, "expired")'
<1> USE ScanPushAssumption
<1> DEFINE c == doc[a].code
<1>1. c \in Code /\ Owner[doc[a].phone] \notin {None, Door} /\ a \notin {None, Door}
  BY DEF SInv, IInv, Made
<1>2. CASE ~Burnable(c)
  <2>1. UNCHANGED <<redeemedBy, burner>>
    BY <1>2 DEF Redeem, Verdict
  <2>2. Verdict(c) = "expired" => redeemedBy[c] = None
    BY <1>1, <1>2 DEF Verdict
  <2> QED
    BY <1>1, <1>2, <2>1, <2>2
       DEF SInv, Credited, Right, Burnable, Verdict
<1>3. CASE Burnable(c)
  <2>1. Verdict(c) = "ok"
    BY <1>1, <1>3 DEF Verdict
  <2>2. /\ redeemedBy' = [redeemedBy EXCEPT ![c] = Owner[doc[a].phone]]
        /\ burner' = [burner EXCEPT ![c] = a]
    BY <2>1 DEF Redeem
  <2>3. /\ redeemedBy'[c] = Owner[doc[a].phone] /\ burner'[c] = a
        /\ \A e \in Code \ {c} :
             redeemedBy'[e] = redeemedBy[e] /\ burner'[e] = burner[e]
    BY <1>1, <2>2 DEF SInv, IInv, TypeOK, CodesTypeOK
  <2>4. burner[c] = None /\ redeemedBy[c] = None
    BY <1>1, <1>3 DEF Burnable, SInv, Credited
  <2>5. Credited'
    BY <1>1, <2>3 DEF SInv, Credited
  <2>6. \A b \in Attempt, o \in Outcomes \cup {"none"} :
          doc[b].code \in Code /\ Right(b, o) => Right(b, o)'
    BY <1>1, <1>3, <2>3, <2>4 DEF Right, Burnable
  <2> QED
    BY <1>1, <2>1, <2>3, <2>5, <2>6 DEF Right
<1> QED
  BY <1>2, <1>3

\* Every step keeps the invariant, one action at a time.
LEMMA NextSInv ==
  ASSUME OneUserEach, SInv, [Next]_vars
  PROVE  SInv'
<1> USE ScanPushAssumption
<1>0. IInv'
  BY NextIInv DEF SInv
<1>1. ASSUME NEW p \in Phone, OpenPage(p)
      PROVE  SInv'
  <2>1. Identified'
    BY <1>1 DEF OpenPage, SInv, IInv, TypeOK, Identified, docVars, idVars, netVars
  <2>2. UNCHANGED <<redeemedBy, burner, age, doc, cur, got>>
    BY <1>1 DEF OpenPage, codesVars, docVars
  <2> QED
    BY <1>0, <2>1, <2>2 DEF SInv, Credited, OneLive, Live, Decided, Right, Burnable
<1>2. ASSUME NEW p \in Phone, Provision(p) \/ MintFails(p)
      PROVE  SInv'
  <2>1. Identified'
    BY <1>2 DEF Provision, MintFails, SInv, IInv, TypeOK, Identified, docVars,
                idVars, netVars
  <2>2. UNCHANGED <<redeemedBy, burner, age, doc, cur, got>>
    BY <1>2 DEF Provision, MintFails, codesVars, docVars
  <2> QED
    BY <1>0, <2>1, <2>2 DEF SInv, Credited, OneLive, Live, Decided, Right,
                            Burnable
<1>3. ASSUME NEW p \in Phone, ClosePage(p)
      PROVE  SInv'
  <2>1. Identified'
    BY <1>3 DEF ClosePage, SInv, IInv, TypeOK, Identified, docVars, idVars, netVars
  <2>2. UNCHANGED <<redeemedBy, burner, age, doc>>
    BY <1>3 DEF ClosePage, codesVars, docVars
  <2>3. \A q \in Phone : cur'[q] # None => cur'[q] = cur[q] /\ got'[q] = got[q]
    BY <1>3 DEF ClosePage, SInv, IInv, TypeOK
  <2> QED
    BY <1>0, <2>1, <2>2, <2>3 DEF SInv, Credited, OneLive, Live, Decided, Right, Burnable
<1>4. ASSUME NEW p \in Phone, NEW u \in User, SwitchUser(p, u)
      PROVE  SInv'
  BY <1>4 DEF SwitchUser, OneUserEach
<1>5. ASSUME NEW p \in Phone, NEW a \in Attempt, NEW c \in Code,
             NEW u \in BOOLEAN, Enqueue(p, a, c, u)
      PROVE  SInv'
  <2>1. /\ doc[a].status = "blank"
        /\ doc'[a] = [phone |-> p, code |-> c, unverified |-> u,
                      status |-> "pending", burn |-> "none", winner |-> None]
        /\ \A b \in Attempt \ {a} : doc'[b] = doc[b]
    BY <1>5 DEF Enqueue, SInv, IInv, TypeOK
  <2>2. /\ UNCHANGED <<redeemedBy, burner, age, session, stored, armed>>
        /\ UNCHANGED <<calls, cur, got>>
    BY <1>5 DEF Enqueue, codesVars, idVars, pageVars, netVars
  <2>3. \A r \in calls : r.attempt \in Attempt \ {a}
    BY <2>1 DEF SInv, IInv, Called, TypeOK, Calls
  <2>4. \A q \in Phone : cur[q] # None => cur[q] \in Attempt \ {a}
    BY <2>1 DEF SInv, IInv, Handling, TypeOK
  <2>5. Identified'
    BY <2>1, <2>2, <2>3 DEF SInv, Identified
  <2>6. Credited'
    BY <2>1, <2>2 DEF SInv, Credited
  <2>7. OneLive'
    BY <1>5, <2>1 DEF Enqueue, LiveAttempt, SInv, OneLive, Live
  <2>8. Decided'
    BY <2>1, <2>2, <2>4 DEF SInv, Decided, Right, Burnable
  <2> QED
    BY <1>0, <2>5, <2>6, <2>7, <2>8 DEF SInv
<1>6. ASSUME NEW p \in Phone, Nudge(p) \/ PullCodes(p)
      PROVE  SInv'
  BY <1>0, <1>6 DEF Nudge, PullCodes, SInv, Identified, Credited, OneLive,
                    Live, Decided, Right, Burnable, codesVars, docVars, idVars,
                    netVars
<1>7. ASSUME NEW p \in Phone, NEW a \in Attempt, HandleRow(p, a),
             pc[p] \in {"idle", "backoff"},
             armed[p] # None, doc[a].phone = p
      PROVE  SInv'
  <2>1. UNCHANGED <<redeemedBy, burner, age, doc, session, stored, armed, got>>
    BY <1>7 DEF HandleRow, codesVars, docVars, idVars
  <2>2. got[p] = "none" /\ \A q \in Phone : cur'[q] = IF q = p THEN a ELSE cur[q]
    BY <1>7 DEF HandleRow, SInv, IInv, TypeOK, Handling
  <2>3. \A r \in calls' : r \in calls \/ r = [attempt |-> a, device |-> armed[p]]
    BY <1>7 DEF HandleRow, CallRedeem, CallLand
  <2>4. Identified'
    BY <1>7, <2>1, <2>3 DEF SInv, Identified
  <2>5. Credited' /\ OneLive'
    BY <2>1 DEF SInv, Credited, OneLive, Live
  <2>6. Decided'
    BY <2>1, <2>2 DEF SInv, Decided, Right, Burnable
  <2> QED
    BY <1>0, <2>4, <2>5, <2>6 DEF SInv
<1>8. ASSUME NEW p \in Phone, \/ \E a \in Attempt : StartRow(p, a)
                             \/ Retry(p)
      PROVE  SInv'
  BY <1>7, <1>8, AtWork, ScanPushAssumption DEF StartRow, Retry, Pending, SInv
<1>9. ASSUME NEW p \in Phone, FailRedeem(p) \/ WinnerTimeout(p) \/ FailLand(p)
      PROVE  SInv'
  BY <1>0, <1>9 DEF FailRedeem, WinnerTimeout, FailLand, SInv, Identified,
                    Credited, OneLive, Live, Decided, Right, Burnable,
                    codesVars, docVars, idVars, netVars
<1>10. ASSUME NEW p \in Phone, SeeWinner(p)
       PROVE  SInv'
  <2>1. /\ UNCHANGED <<redeemedBy, burner, age, doc, session, stored, armed>>
        /\ UNCHANGED <<calls, cur>>
    BY <1>10 DEF SeeWinner, WinnerSeen, codesVars, docVars, idVars, netVars
  <2>2. /\ got'[p] = IF Winner(p) = armed[p] THEN "won" ELSE "already_used"
        /\ \A q \in Phone \ {p} : got'[q] = got[q]
    BY <1>10 DEF SeeWinner, WinnerSeen, SInv, IInv, TypeOK
  <2>3. Right(cur[p], got'[p])
    BY <1>10, <2>2, BeltTwo DEF SeeWinner, WinnerSeen, Right, Burnable
  <2>4. Decided'
    BY <2>1, <2>2, <2>3 DEF SInv, Decided, Right, Burnable
  <2>5. Identified' /\ Credited' /\ OneLive'
    BY <2>1 DEF SInv, Identified, Credited, OneLive, Live
  <2> QED
    BY <1>0, <2>4, <2>5 DEF SInv
<1>11. ASSUME NEW p \in Phone, PersistBurn(p)
       PROVE  SInv'
  <2> DEFINE a == cur[p]
  <2>1. a \in Attempt
    BY <1>11, AtWork DEF PersistBurn, SInv
  <2>2. UNCHANGED <<redeemedBy, burner, age, session, stored, armed, calls, cur>>
    BY <1>11 DEF PersistBurn, codesVars, idVars
  <2>3. /\ \A b \in Attempt \ {a} : doc'[b] = doc[b]
        /\ doc'[a].phone = doc[a].phone
        /\ doc'[a].code = doc[a].code
        /\ doc'[a].unverified = doc[a].unverified
        /\ doc'[a].status = doc[a].status
        /\ doc'[a].burn = got[p]
    BY <1>11, <2>1 DEF PersistBurn, SInv, IInv, TypeOK, Docs
  <2>4. got'[p] = "none" /\ \A q \in Phone \ {p} : got'[q] = got[q]
    BY <1>11 DEF PersistBurn, SInv, IInv, TypeOK
  <2>5. \A b \in Attempt : doc'[b].code = doc[b].code
    BY <2>1, <2>3
  <2>6. Decided'
    <3>1. Right(a, got[p])
      BY <2>1 DEF SInv, Decided
    <3>2. (\A b \in Attempt : Right(b, doc[b].burn))'
      BY <2>1, <2>2, <2>3, <2>5, <3>1 DEF SInv, Decided, Right, Burnable
    <3>3. (\A q \in Phone : cur[q] # None => Right(cur[q], got[q]))'
      BY <2>2, <2>4, <2>5 DEF SInv, IInv, TypeOK, Decided, Right, Burnable
    <3> QED
      BY <3>2, <3>3 DEF Decided
  <2>7. Identified'
    <3>1. \A r \in calls : doc'[r.attempt].phone = doc[r.attempt].phone
      BY <2>3 DEF SInv, IInv, TypeOK, Calls
    <3> QED
      BY <2>2, <3>1 DEF SInv, Identified
  <2>8. Credited'
    BY <2>1, <2>2, <2>3 DEF SInv, Credited
  <2>9. OneLive'
    BY <2>1, <2>3 DEF SInv, OneLive, Live
  <2> QED
    BY <1>0, <2>6, <2>7, <2>8, <2>9 DEF SInv
<1>12. ASSUME NEW p \in Phone, Resolve(p)
       PROVE  SInv'
  <2> DEFINE a == cur[p]
  <2>1. a \in Attempt /\ doc[a].status = "pending"
    BY <1>12, AtWork DEF Resolve, SInv
  <2>2. UNCHANGED <<redeemedBy, burner, age, session, stored, armed, calls, got>>
    BY <1>12 DEF Resolve, codesVars, idVars, netVars
  <2>3. /\ \A b \in Attempt \ {a} : doc'[b] = doc[b]
        /\ doc'[a].phone = doc[a].phone
        /\ doc'[a].code = doc[a].code
        /\ doc'[a].unverified = doc[a].unverified
        /\ doc'[a].burn = doc[a].burn
        /\ doc'[a].status \in {"accepted", "rejected"}
    BY <1>12, <2>1 DEF Resolve, LandedStatus, SInv, IInv, TypeOK, Docs
  <2>4. \A q \in Phone : cur'[q] = IF q = p THEN None ELSE cur[q]
    BY <1>12 DEF Resolve, SInv, IInv, TypeOK
  <2>5. Decided'
    <3>1. \A b \in Attempt : /\ doc'[b].code = doc[b].code
                             /\ doc'[b].burn = doc[b].burn
      BY <2>1, <2>3
    <3>2. (\A b \in Attempt : Right(b, doc[b].burn))'
      BY <2>2, <3>1 DEF SInv, Decided, Right, Burnable
    <3>3. (\A q \in Phone : cur[q] # None => Right(cur[q], got[q]))'
      BY <2>2, <2>4, <3>1 DEF SInv, IInv, TypeOK, Decided, Right, Burnable
    <3> QED
      BY <3>2, <3>3 DEF Decided
  <2>6. Identified'
    <3>1. \A r \in calls : doc'[r.attempt].phone = doc[r.attempt].phone
      BY <2>3 DEF SInv, IInv, TypeOK, Calls
    <3> QED
      BY <2>2, <3>1 DEF SInv, Identified
  <2>7. Credited'
    BY <2>1, <2>2, <2>3 DEF SInv, Credited
  <2>8. OneLive'
    BY <2>1, <2>3 DEF SInv, OneLive, Live
  <2> QED
    BY <1>0, <2>5, <2>6, <2>7, <2>8 DEF SInv
<1>13. ASSUME NEW p \in Phone, AnswerRedeem(p)
       PROVE  SInv'
  <2> DEFINE a == cur[p]
  <2>1. /\ a \in Attempt /\ armed[p] \in User /\ doc[a].phone = p
        /\ doc[a].status # "blank" /\ ~doc[a].unverified /\ doc[a].code \in Code
    BY <1>13, AtWork DEF AnswerRedeem, SInv, IInv, Handling
  <2>2. armed[p] = Owner[doc[a].phone]
    BY <2>1 DEF SInv, Identified
  <2>3. /\ UNCHANGED <<age, doc, session, stored, armed, cur>>
        /\ calls' \subseteq calls
    BY <1>13 DEF AnswerRedeem, docVars, idVars
  <2>4. Redeem(doc[a].code, Owner[doc[a].phone], a)
    BY <1>13, <2>2 DEF AnswerRedeem
  <2>5. /\ Credited'
        /\ \A b \in Attempt, o \in Outcomes \cup {"none"} :
             doc[b].code \in Code /\ Right(b, o) => Right(b, o)'
    BY <2>1, <2>2, <2>3, <2>4, RedeemDecides
  <2>6. /\ Verdict(doc[a].code) = "ok" => Right(a, "won")'
        /\ Verdict(doc[a].code) = "expired" => Right(a, "expired")'
    BY <2>1, <2>2, <2>3, <2>4, RedeemDecides
  <2>7. /\ \A q \in Phone \ {p} : got'[q] = got[q]
        /\ got'[p] \in {"won", "expired", "none"}
        /\ got'[p] = "won" => Verdict(doc[a].code) = "ok"
        /\ got'[p] = "expired" => Verdict(doc[a].code) = "expired"
    BY <1>13 DEF AnswerRedeem, SInv, IInv, TypeOK
  <2>8. Decided'
    <3>1. (\A b \in Attempt : Right(b, doc[b].burn))'
      BY <2>3, <2>5 DEF SInv, IInv, TypeOK, Docs, Made, Blank, Decided, Right
    <3>2. (\A q \in Phone : cur[q] # None => Right(cur[q], got[q]))'
      BY <2>1, <2>3, <2>5, <2>6, <2>7, AtWork
         DEF SInv, IInv, TypeOK, Handling, Made, Decided, Right
    <3> QED
      BY <3>1, <3>2 DEF Decided
  <2>9. Identified' /\ OneLive'
    BY <2>3 DEF SInv, Identified, OneLive, Live
  <2> QED
    BY <1>0, <2>5, <2>8, <2>9 DEF SInv
<1>14. ASSUME NEW r \in calls, ServeRedeemUnheard(r)
       PROVE  SInv'
  <2> DEFINE a == r.attempt
  <2>1. /\ a \in Attempt /\ doc[a].status # "blank" /\ ~doc[a].unverified
        /\ doc[a].phone \in Phone
    BY DEF SInv, IInv, TypeOK, Calls, Called, Made
  <2>2. r.device = Owner[doc[a].phone]
    BY DEF SInv, Identified
  <2>3. /\ UNCHANGED <<age, doc, session, stored, armed, cur, got>>
        /\ calls' \subseteq calls
    BY <1>14 DEF ServeRedeemUnheard, docVars, idVars, pageVars
  <2>4. Redeem(doc[a].code, Owner[doc[a].phone], a)
    BY <1>14, <2>2 DEF ServeRedeemUnheard
  <2>5. /\ Credited'
        /\ \A b \in Attempt, o \in Outcomes \cup {"none"} :
             doc[b].code \in Code /\ Right(b, o) => Right(b, o)'
    BY <2>1, <2>3, <2>4, RedeemDecides
  <2>6. Decided'
    <3>1. (\A b \in Attempt : Right(b, doc[b].burn))'
      BY <2>3, <2>5 DEF SInv, IInv, TypeOK, Docs, Made, Blank, Decided, Right
    <3>2. (\A q \in Phone : cur[q] # None => Right(cur[q], got[q]))'
      BY <2>3, <2>5 DEF SInv, IInv, TypeOK, Handling, Made, Decided, Right
    <3> QED
      BY <3>1, <3>2 DEF Decided
  <2>7. Identified' /\ OneLive'
    BY <2>3 DEF SInv, Identified, OneLive, Live
  <2> QED
    BY <1>0, <2>5, <2>6, <2>7 DEF SInv
<1>15. ASSUME \/ \E p \in Phone, r \in lands : AnswerLand(p, r)
              \/ \E r \in lands : ServeLandUnheard(r)
       PROVE  SInv'
  <2>1. /\ UNCHANGED <<redeemedBy, burner, age, doc, session, stored, armed>>
        /\ UNCHANGED <<calls, cur, got>>
    BY <1>15 DEF AnswerLand, LandAnswered, ServeLandUnheard, codesVars,
                 docVars, idVars, pageVars
  <2> QED
    BY <1>0, <2>1 DEF SInv, Identified, Credited, OneLive, Live, Decided,
                      Right, Burnable
<1>16. ASSUME NEW c \in Code, OnlineBurn(c)
       PROVE  SInv'
  <2>1. UNCHANGED <<age, doc, session, stored, armed, calls, cur, got>>
    BY <1>16 DEF OnlineBurn, docVars, idVars, pageVars, netVars
  <2>2. /\ redeemedBy[c] = None /\ burner[c] = None
        /\ redeemedBy'[c] = Door /\ burner'[c] = Door
        /\ \A e \in Code \ {c} :
             redeemedBy'[e] = redeemedBy[e] /\ burner'[e] = burner[e]
    BY <1>16 DEF OnlineBurn, Redeem, Verdict, Burnable, SInv, IInv, TypeOK,
                 CodesTypeOK, Credited
  <2>3. Credited'
    BY <2>1, <2>2 DEF SInv, Credited
  <2>4. \A b \in Attempt, o \in Outcomes \cup {"none"} :
          doc[b].code \in Code /\ Right(b, o) => Right(b, o)'
    BY <2>1, <2>2 DEF Right, Burnable
  <2>5. Decided'
    <3>1. (\A b \in Attempt : Right(b, doc[b].burn))'
      BY <2>1, <2>4 DEF SInv, IInv, TypeOK, Docs, Made, Blank, Decided, Right
    <3>2. (\A q \in Phone : cur[q] # None => Right(cur[q], got[q]))'
      BY <2>1, <2>4 DEF SInv, IInv, TypeOK, Handling, Made, Decided, Right
    <3> QED
      BY <3>1, <3>2 DEF Decided
  <2>6. Identified' /\ OneLive'
    BY <2>1 DEF SInv, Identified, OneLive, Live
  <2> QED
    BY <1>0, <2>3, <2>5, <2>6 DEF SInv
<1>17. ASSUME NEW c \in Code, CodeAges(c)
       PROVE  SInv'
  BY <1>0, <1>17 DEF CodeAges, GrowOlder, SInv, IInv, TypeOK, CodesTypeOK,
                     Identified, Credited, OneLive, Live, Decided, Right,
                     Burnable, docVars, idVars, pageVars, netVars
<1>18. CASE UNCHANGED vars
  BY <1>0, <1>18 DEF vars, SInv, Identified, Credited, OneLive, Live, Decided,
                     Right, Burnable, codesVars, docVars, idVars, pageVars,
                     netVars
<1> QED
  BY <1>1, <1>2, <1>3, <1>4, <1>5, <1>6, <1>8, <1>9, <1>10, <1>11, <1>12, <1>13,
     <1>14, <1>15, <1>16, <1>17, <1>18 DEF Next, HandlerStep

\* The invariant is one of the specification, when every phone keeps its user.
LEMMA SingleUseInvariant == OneUserEach => (Spec => []SInv)
<1> SUFFICES ASSUME OneUserEach PROVE Spec => []SInv
  OBVIOUS
<1>1. Init => SInv
  BY InitSInv
<1>2. SInv /\ [Next]_vars => SInv'
  BY NextSInv
<1> QED
  BY <1>1, <1>2, PTL DEF Spec

----------------------------------------------------------------------------
(* Theorems.                                                               *)

\* A verified attempt is accepted only if its own call burned the code.
THEOREM AcceptedBurned == OneUserEach => (Spec => []AcceptedOwnsBurn)
<1>1. SInv => AcceptedOwnsBurn
  BY ResolvedRight DEF SInv, Decided, Right, AcceptedOwnsBurn
<1> QED
  BY <1>1, SingleUseInvariant, PTL

\* The attempt that burned a code is never turned into a rejection.
THEOREM BurnersKept == OneUserEach => (Spec => []BurnerNotRejected)
<1>1. SInv => BurnerNotRejected
  BY BurnerLives DEF Live, BurnerNotRejected
<1> QED
  BY <1>1, SingleUseInvariant, PTL

\* So no code is accepted for two verified attempts: with a user to each phone,
\* what push_shared_user refutes is a theorem.
THEOREM AcceptedOnce == OneUserEach => (Spec => []OneAcceptedPerCode)
<1>1. AcceptedOwnsBurn => OneAcceptedPerCode
  BY DEF AcceptedOwnsBurn, OneAcceptedPerCode
<1> QED
  BY <1>1, AcceptedBurned, PTL

\* The offline door implements SingleUse: every step of a page, a request or the
\* rest of the world makes an attempt, burns a code, tells an attempt what became
\* of it, or is none of the abstract specification's business.
THEOREM DoorImplementsSingleUse == OneUserEach => (Spec => ImplementsSingleUse)
<1> SUFFICES ASSUME OneUserEach PROVE Spec => ImplementsSingleUse
  OBVIOUS
<1> DEFINE target == [a \in Attempt |-> IF doc[a].unverified THEN None
                                        ELSE doc[a].code]
           answer == [a \in Attempt |-> CASE doc[a].burn = "won" -> "won"
                                          [] doc[a].burn = "none" -> "none"
                                          [] OTHER -> "lost"]
<1>1. Init => Single!Init
  BY DEF Init, CodesInit, Single!Init, Blank
<1>2. ASSUME SInv, [Next]_vars
      PROVE  [Single!Next]_(Single!vars)
  <2> USE ScanPushAssumption
  <2>1. CASE UNCHANGED <<burner, doc>>
    BY <2>1 DEF Single!vars
  <2>2. ASSUME NEW p \in Phone, NEW a \in Attempt, NEW c \in Code,
               NEW u \in BOOLEAN, Enqueue(p, a, c, u)
        PROVE  [Single!Next]_(Single!vars)
    <3>1. /\ doc[a] = Blank
          /\ doc'[a].unverified = u /\ doc'[a].code = c /\ doc'[a].burn = "none"
          /\ \A b \in Attempt \ {a} : doc'[b] = doc[b]
      BY <1>2, <2>2 DEF Enqueue, SInv, IInv, TypeOK, Made
    <3>2. burner' = burner
      BY <2>2 DEF Enqueue, codesVars
    <3>3. answer' = answer
      BY <3>1 DEF Blank
    <3>4. CASE u = TRUE
      <4>1. target' = target
        <5>1. target[a] = None
          BY <3>1 DEF Blank
        <5>2. doc'[a].unverified = TRUE
          BY <3>1, <3>4
        <5>3. target'[a] = None
          BY <5>2
        <5>4. \A b \in Attempt \ {a} : target'[b] = target[b]
          BY <3>1
        <5> QED
          BY <5>1, <5>3, <5>4
      <4> QED
        BY <3>2, <3>3, <4>1 DEF Single!vars
    <3>5. CASE u = FALSE
      <4>1. target[a] = None /\ target' = [target EXCEPT ![a] = c]
        <5>1. target[a] = None /\ target'[a] = c
          BY <3>1, <3>5 DEF Blank
        <5>2. \A b \in Attempt \ {a} : target'[b] = target[b]
          BY <3>1
        <5> QED
          BY <5>1, <5>2
      <4>2. Single!Make(a, c)
        BY <3>2, <3>3, <4>1 DEF Single!Make
      <4> QED
        BY <4>2 DEF Single!Next
    <3> QED
      BY <3>4, <3>5
  <2>3. ASSUME NEW a \in Attempt, NEW d, doc[a].code \in Code, ~doc[a].unverified,
               Redeem(doc[a].code, d, a), doc' = doc
        PROVE  [Single!Next]_(Single!vars)
    <3>1. CASE ~Burnable(doc[a].code)
      BY <2>1, <2>3, <3>1 DEF Redeem, Verdict
    <3>2. CASE Burnable(doc[a].code)
      <4>1. burner' = [burner EXCEPT ![target[a]] = a]
        BY <2>3, <3>2 DEF Redeem, Verdict
      <4>2. target[a] \in Code /\ target[a] # None /\ burner[target[a]] = None
        BY <2>3, <3>2, <1>2 DEF Burnable, SInv, Credited
      <4>3. doc[a].burn = "none"
        BY <1>2, <2>3, <3>2, <4>2
           DEF SInv, IInv, TypeOK, Docs, Outcomes, Decided, Right
      <4>4. answer[a] = "none" /\ UNCHANGED <<target, answer>>
        BY <2>3, <4>3
      <4>5. Single!Burn(a)
        BY <4>1, <4>2, <4>4 DEF Single!Burn
      <4> QED
        BY <4>5 DEF Single!Next
    <3> QED
      BY <3>1, <3>2
  <2>4. ASSUME NEW p \in Phone, AnswerRedeem(p)
        PROVE  [Single!Next]_(Single!vars)
    <3>1. /\ cur[p] \in Attempt /\ doc[cur[p]].code \in Code
          /\ ~doc[cur[p]].unverified
      BY <1>2, <2>4, AtWork DEF AnswerRedeem, SInv, IInv, Handling
    <3> QED
      BY <2>3, <2>4, <3>1 DEF AnswerRedeem, docVars
  <2>5. ASSUME NEW r \in calls, ServeRedeemUnheard(r)
        PROVE  [Single!Next]_(Single!vars)
    <3>1. /\ r.attempt \in Attempt /\ doc[r.attempt].code \in Code
          /\ ~doc[r.attempt].unverified
      BY <1>2 DEF SInv, IInv, TypeOK, Calls, Called, Made
    <3> QED
      BY <2>3, <2>5, <3>1 DEF ServeRedeemUnheard, docVars
  <2>6. ASSUME NEW c \in Code, OnlineBurn(c)
        PROVE  [Single!Next]_(Single!vars)
    <3>1. burner[c] = None /\ burner' = [burner EXCEPT ![c] = Door]
      BY <1>2, <2>6 DEF OnlineBurn, Burnable, Redeem, Verdict, SInv, Credited
    <3>2. UNCHANGED <<target, answer>>
      BY <2>6 DEF OnlineBurn, docVars
    <3>3. Single!OutsideBurn(c)
      BY <3>1, <3>2 DEF Single!OutsideBurn
    <3> QED
      BY <3>3 DEF Single!Next
  <2>7. ASSUME NEW p \in Phone, PersistBurn(p)
        PROVE  [Single!Next]_(Single!vars)
    <3>0. PICK a \in Attempt : a = cur[p]
      BY <1>2, <2>7, AtWork DEF PersistBurn, SInv
    <3>1. /\ a \in Attempt /\ doc[a].code \in Code /\ ~doc[a].unverified
          /\ doc[a].burn = "none" /\ got[p] \in Outcomes
      BY <1>2, <2>7, <3>0, AtWork DEF PersistBurn, SInv, IInv, TypeOK, Handling
    <3>2. /\ \A b \in Attempt \ {a} : doc'[b] = doc[b]
          /\ doc'[a].code = doc[a].code
          /\ doc'[a].unverified = doc[a].unverified
          /\ doc'[a].burn = got[p]
      BY <1>2, <2>7, <3>0, <3>1 DEF PersistBurn, SInv, IInv, TypeOK, Docs
    <3>3. burner' = burner /\ target' = target
      BY <2>7, <3>2 DEF PersistBurn, codesVars
    <3>4. Right(a, got[p])
      BY <1>2, <3>0, <3>1, ScanPushAssumption DEF SInv, Decided
    <3>5. target[a] # None /\ target[a] = doc[a].code /\ answer[a] = "none"
      BY <3>1
    <3>6. CASE got[p] = "won"
      <4>1. answer' = [answer EXCEPT ![a] = "won"]
        BY <3>1, <3>2, <3>6
      <4>2. burner[target[a]] = a
        BY <3>4, <3>5, <3>6 DEF Right
      <4>3. Single!Win(a)
        BY <3>3, <3>5, <4>1, <4>2 DEF Single!Win
      <4> QED
        BY <3>1, <4>3 DEF Single!Next
    <3>7. CASE got[p] # "won"
      <4>1. answer' = [answer EXCEPT ![a] = "lost"]
        BY <3>1, <3>2, <3>7 DEF Outcomes
      <4>2. burner[target[a]] # a
        BY <3>1, <3>4, <3>5, <3>7 DEF Right, Outcomes
      <4>3. Single!Lose(a)
        BY <3>3, <3>5, <4>1, <4>2 DEF Single!Lose
      <4> QED
        BY <3>1, <4>3 DEF Single!Next
    <3> QED
      BY <3>6, <3>7
  <2>8. ASSUME NEW p \in Phone, Resolve(p)
        PROVE  [Single!Next]_(Single!vars)
    <3>1. \A b \in Attempt : /\ doc'[b].code = doc[b].code
                             /\ doc'[b].unverified = doc[b].unverified
                             /\ doc'[b].burn = doc[b].burn
      BY <1>2, <2>8 DEF Resolve, SInv, IInv, TypeOK, Docs
    <3> QED
      BY <2>8, <3>1 DEF Resolve, codesVars, Single!vars
  <2>9. ASSUME NEW p \in Phone,
               \/ OpenPage(p) \/ Provision(p) \/ MintFails(p) \/ ClosePage(p)
               \/ (\E u \in User : SwitchUser(p, u))
               \/ Nudge(p) \/ PullCodes(p)
               \/ (\E a \in Attempt : StartRow(p, a)) \/ Retry(p)
               \/ FailRedeem(p) \/ SeeWinner(p) \/ WinnerTimeout(p)
               \/ FailLand(p) \/ (\E r \in lands : AnswerLand(p, r))
        PROVE  UNCHANGED <<burner, doc>>
    BY <2>9 DEF OpenPage, Provision, MintFails, ClosePage, SwitchUser, Nudge,
                PullCodes, StartRow, Retry, HandleRow, FailRedeem, SeeWinner,
                WinnerSeen, WinnerTimeout, FailLand, AnswerLand, LandAnswered,
                codesVars, docVars
  <2>10. ASSUME \/ \E r \in lands : ServeLandUnheard(r)
                \/ \E c \in Code : CodeAges(c)
                \/ UNCHANGED vars
         PROVE  UNCHANGED <<burner, doc>>
    BY <2>10 DEF ServeLandUnheard, CodeAges, GrowOlder, vars, codesVars,
                 docVars
  <2> QED
    BY <1>2, <2>1, <2>2, <2>4, <2>5, <2>6, <2>7, <2>8, <2>9, <2>10
       DEF Next, HandlerStep
<1> QED
  BY <1>1, <1>2, SingleUseInvariant, PTL DEF Spec, ImplementsSingleUse,
                                             Single!Spec
=============================================================================
