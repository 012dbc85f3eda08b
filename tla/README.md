# Formal model of HQ's concurrent and offline parts

This directory keeps a TLA+ model of the parts of this repository where an order of
events that nobody tried would cost a coupon, an answer or a purchase: the redemption
of one-use QR codes, online and offline; the replicas and queues of the pages; and the
server's purchasing and receipt intake. TLC checks the modules on small instances and
TLAPS proves what matters most for every instance.

Paths are relative to the repository's root (`src/` here).

## 1. The system

HQ is an operations app: a Go backend (`backend/`), static pages with vanilla
JavaScript, and PostgreSQL through Supabase. Its logic falls into these parts.

| Part | State it keeps | Operations | Talks to |
|---|---|---|---|
| `redeem()` and `public.codes` (`supabase/migrations/2026090400*.sql`) | `redeemed_at`, `redeemed_by`, `expires_at` of a code | one conditional UPDATE, which answers ok or a reason | called by both doors below |
| Offline push replica (`marketing/sync/push-replication.js`, `marketing/scan-page.js`) | the phone's `scan_attempts` queue and replicated `codes` (IndexedDB), the coordinates under `SYNC_KEY` (localStorage), the armed handler | enqueue with dedupe, push (burn, wait for the winner, persist, land, resolve), provision, resync | `redeem()`, the server's `scan_attempts` under row level security, the codes replica |
| Redemption endpoint (`backend/internal/redemption`) | per request: statechart, retry count, observer, timer | burn with a bounded retry, settle, record a lost race, answer, stop | `redeem()`, `race_lost_notifications` |
| Scanner screen (`marketing/submit-machine.js`, `submit-flow.js`, `scanner.js`) | three statechart regions and their context; `SUBMIT_CTX`, `ORDER_STATE` of the page | decode, gate, resolve, submit, override, retry, reset, probe | resolver over the replicas, the endpoint, the queue |
| Pull replicas (`marketing/sync/pull-replication.js`, `replicas.js`, `clock.js`) | per collection a keyset checkpoint (updated_at, id) and the replicated rows; the clock's offset; the policy source's state and last error | pull in batches, settle, resync, calibrate | PostgREST views of codes, offers, campaigns |
| RxDB sync replica (`sync-rxdb/`) | the document, what it believes the server holds, the record of overwritten answers; the registry of scopes, their handles and checkpoints; the list of overwritten answers | merge on conflict, open and close a scope, pull, restore, keep, undo, dismiss | PostgREST and realtime of Supabase; the fill view of `workflows.html` |
| Ops journal and broadcast (`backend/internal/sync`, `sync.js`) | `ops`, `entity_state` with lamport times, the hub's clients, a client's cursor | apply an op last-writer-wins, notify, broadcast, catch up | every page, NOTIFY/LISTEN |
| Submit queue (`sync.js`, `workflows.html`) | `submitQueue` in IndexedDB | enqueue, drain | `submitChecklist` |
| Checklist workflow (`backend/internal/workflow`) | drafts, submissions, approvals and rejections | submit, approve, reject, unsubmit | PostgreSQL transactions |
| Purchasing (`backend/internal/purchasing`) | `purchase_orders`, `po_line_items`, `shopping_lists` with vendor sections | open the week's order, save, lock, unlock, approve, complete a section; the cutoff scheduler | PostgreSQL, READ COMMITTED |
| Receipt intake (`backend/internal/receipt`, the review queue of `internal/inventory`) | `pending_purchases`, `purchase_events`, `receipt_sync_runs` | poll, sync, reprocess; edit, confirm, discard, retry | the bank's and the parser's services |
| Inventory reports, recipes, onboarding, users, Toast, alerts, photos | rows of their own | CRUD, SQL reports, external I/O | not modelled, see 8 |

### What is hard

* Two doors race for a code, and the loser's phone may be offline when it loses.
* Every request may be lost before or after the server acted on it, may be
  repeated, and may be served after the page that sent it has died.
* A page dies between any two steps of the push handler; only IndexedDB and
  localStorage survive.
* What the handler reads (the codes replica, the armed device id) may be older
  than the request it decides about.
* A scan awaits three times, and the statechart moves in between.
* The endpoint's retry, its timer, the client's own timeout and a cancelled
  context race with a call that may have committed.
* Two parties edit one document, and a push, its conflict and the next edit overlap.
* A cursor that passes a row never comes back for it: ties of a timestamp, windows that
  slide, a checkpoint that belongs to another scope or another user.
* A close waits for an open that a later open has joined; a promise that was rejected
  is what later callers would join.
* A queue is drained while another press of the same checklist is made.
* The server's requests interleave statement by statement: a status or a count is
  read without a lock and acted upon later; the receipt worker reads, waits seconds
  for a parser, and writes over what an operator did meanwhile.

`PROJECT.json` lists these hazards at their lines, with the property that would
catch each going wrong, or why none does.

### What makes each part correct

* `redeem()`: a code is burned at most once, and the answer says who is to blame.
* Push replica: an attempt is accepted only if its own call burned the code; the
  attempt that burned it is never shown a rejection; a rejection names the real
  winner; outcomes are persisted once; a row is shown resolved only when the
  server's audit row says the same; the queue drains.
* Endpoint: `redeemed` is answered to the burner alone; a lost override is on
  record before it is answered; asking again never contradicts what was said; a
  request that was answered calls no more; every request is answered.
* Scanner: what is sent is the session on the screen; an override that names a code
  row is one the campaign allows, and is not marked unverified; a verdict meets the
  session that asked; the prompt interrupts nothing; a scan ends in a card.
* Pull replicas: no checkpoint passes an unexpired row the replica lacks; every walk
  ends; the policy source does not stay refused once the failures are over.
* RxDB replica: an answer is never discarded without a record; what nobody else touched
  is never taken away; phone and server agree in the end; the page's entries and the
  registry of scopes agree; a scope that has pulled has all its rows; a checklist that
  is opened is read, whatever failed before; no row of the notice is stuck.
* Submit queue: what was queued is not thrown away; of two queued presses the later wins.
* Ops journal: devices come to show what is stored (they do not, see 4).
* Purchasing: there is a draft to show; one list is active; a finished list is closed.
* Receipt intake: what the operator discarded stays out, what they typed is kept unless a
  parse was asked for, what they confirmed is not deleted.

## 2. Modules

```
Codes ---------+-- ScanPush ----- MCScanPush            SubmitFlow -- MCSubmitFlow
               |      |      \--- ScanPushProofs                  \-- SubmitFlowProofs
SingleUse <----|------+ (refines)
               +-- Redemption --- MCRedemption          OpsJournal -- MCOpsJournal
                             \--- RedemptionProofs

ReplicaMerge ---\
ConflictNotice --+-- ChecklistProofs --\
SubmitQueue ----/                       \
ScopeRegistry --\                        \
PullReplica -----+-- PullProofs ----------+-- SideBySideProofs
PurchaseOrder --\                        /|
ReceiptIntake ---+-- PurchasingProofs --/ +-- MCSideBySide (all seven)
```

The seven modules at the bottom left share no state with each other, nor with the rest in the
code as it is today: nothing writes into the collections that `sync-rxdb` replicates,
and the page mounts the notice over a store that no replication fills. `MCSideBySide`
explores them in one run, each from its own initial states.

**Codes** is the table and the RPC: `redeemedBy` is the column, `burner` a history
variable that says which caller's request did it, `age` abstracts `expires_at`
(live, expired, and so long expired that the two-day window of the pull queries
leaves it out). `Verdict` is the RPC's answer and `Redeem` its effect; both
components that extend it use these two and nothing else.

**SingleUse** is the abstract specification: attempts name a code, somebody burns
it, and an attempt is told that it won only if it burned, that it lost only if it
did not. No phone, network or retry is in it.

**ScanPush** is the offline door. The push handler is a program counter (`pc`) at
the current row (`cur`) with the outcome it has not persisted yet (`got`):

| Action | Code |
|---|---|
| `OpenPage`, `Provision`, `MintFails`, `ClosePage`, `SwitchUser` | boot and `provisionSync()`/`startSync()` of `scan-page.js`, and the death of a page |
| `Enqueue` | `enqueueAttempt()` and its dedupe |
| `Nudge`, `PullCodes` | `resync()`, a pull of the codes replica to its end |
| `StartRow`, `Retry` (`CallRedeem`, `CallLand`) | the head of the push handler's loop, belt 1, and RxDB's retry of a batch |
| `AnswerRedeem`, `FailRedeem` | `callRedeem()` answered, or thrown |
| `SeeWinner`, `WinnerTimeout` | `awaitWinner()` and belt 2 |
| `PersistBurn` | the patch of burn_result before the landing insert |
| `AnswerLand`, `FailLand` | 201/409, 403, a network error |
| `Resolve` | the final patch, the flip the crew sees |
| `ServeRedeemUnheard`, `ServeLandUnheard` | the server acts, nobody hears |
| `OnlineBurn`, `CodeAges` | the other door, and time |

Requests are in `calls` and `lands` from the moment they are sent. A request that
is never served stays there, so loss needs no action. Both sets hold one record per
distinct request: two requests alike in every field are one, which loses no
behaviour of the table, since the second of two alike finds what the first left.
A row the retry comes to is the row that threw: rows before it in the batch are
resolved by then.

**Redemption** is the online door: one request is one arbitration. `machine` is its
statechart, `arb` its awaiting goroutine, `reply` what the handler answers, `calls`
its `redeem()` requests in flight, `page` and `told` the client's screen and what it
has been told so far.

| Action | Code |
|---|---|
| `Submit`, `Hear`, `GiveUp` | the scanner's fetch, its answer, its timeout |
| `ResolveCode`, `RouteOutcome`, `RouteFailure`, `RetryAfter` | `machine.go`, with `redeemer.go` behind burn |
| `CommitUnheard` | a call that commits after it was lost or cancelled |
| `AwaitVerdict`, `Emit`, `EmitFails` | `Arbitrate` after the observer settled, F4 |
| `TimesOut`, `Cancelled`, `StopActor` | the other arms of its select, and the deferred stop |

**SubmitFlow** is the scanner's screen: the regions `conn`, `ov` and `sc` of
`submit-machine.js` with the context fields guards read, and the page's variables
beside them.

| Action | Code |
|---|---|
| `Decode`, `Gate`, `ResolverDone`, `FindDone` | `doScan()` of `scan-page.js` between its awaits: the digest, the resolver, the lookup of a code shown as redeemed, which may find no row |
| `ScanFails` | the digest or a read of the replica rejects and `doScan()` throws |
| `TypeOrder`, `SubmitOnline`, `SubmitBlocked`, `OverrideRequest`, `OverrideConfirm`, `OverrideCancel`, `Retry`, `Dismiss`, `NextCustomer` | the taps and the order number |
| `Verdict`, `ProbeOk`, `ProbeFails` | the answer or failure of the submit, the reachability probe |

A scan is in `scan`, one for each way to scan: the camera drops a decode while its last
one is under way, a picked file does not wait for the camera. Which ways the crew
member uses is chosen at the start.

**PullReplica** has the three replicas of the scanner page: two pull `codes` behind
different expiry windows, one pulls the policies. A row is the number of the
transaction that last wrote it, so rows written together tie; `cursor` is the
checkpoint, `local` what the replica holds. `Transaction` and `TimePasses` are the
database and its clock, `Arm`, `PullBatch`, `PullFails`, `Resynced` the replication,
`Settles` and `ReloadScanner` the policy source and the page.

**ReplicaMerge** is one document on one phone: `fork` (the phone's), `assumed` (what it
believes the server holds), `master`. A push goes through `StartPush`, `ServePush`,
`PushTaken` or `PushRefused` (which runs the three-way merge) or `LoseAnswer`; `Pull`
takes the master when there is nothing to push. `record` holds the overwritten answers.

**ConflictNotice** is the list made of those records: `Clash`, `Expire`, the four
buttons, and the batch of a document (`Ask`, `Cancel`, `Commit`, then one
`RestoreEnds` per row). The store changes within the tap; only the write is awaited.

**ScopeRegistry** is the fill view on top of the replication: `Visit` and `Leave` open and
close scopes (a visit joins the handle the registry has, and its own catch drops the entry
of one that is rejected already), `DatabaseOpens` and `DatabaseFails` end the promise they share, and
`ServerWrites`, `Resync`, `Deliver`, `Drop`, `Rejoin` move rows through the filter and the
checkpoint of each replication, both keyed by scope, user and field set.

**SubmitQueue** is the press of Submit, online or not, the queue and its drain, and the
server's `submitChecklist` with its idempotency key and the move of the drafts.

**OpsJournal** is an answer's way from the tap to the other devices: `Answer`,
`SaveResponse` (the router's own write), `RecordOp` (CheckLWW, the insert or the 409),
`Refused`, `Deliver`, `Disconnect`, `Reconnect`, `CatchUp`.

**PurchaseOrder** has each request of `internal/purchasing` as a record from its first
statement to its last (`opening`, `cutting`, `saving`, `approving`, `completing`), one
action per statement that reads or commits something the others can see.

**ReceiptIntake** is one card charge. `Classify` is `classifyExistingTx` with the switch on
its answer, `Ends` the outcome of a pass after the parser, `Inserted`, `Updated` and
`Created` its three ways to write. The worker's pass and an operator's run are under way
together; the operator's actions are the handlers of the review queue, of which the
confirmation alone reads and writes in two steps.

Definitions introduced by "A bug:" are not part of any specification: each is a
definition of the model as a plausible mistake would have it, and shows that the
property named beside it in `PROJECT.json` ("mutants") notices.

## 3. What is checked

| Run | Instance | Shows |
|---|---|---|
| `push_single_use` (ScanPushFixed) | 2 phones of 2 users, 1 code, 2 attempts, 1 page death, codes may leave the window | `TypeOK`, `AcceptedOwnsBurn`, `BurnerNotRejected`, and ScanPush implements SingleUse |
| `push_belts` (ScanPushBelts) | 1 phone two users take turns at, 1 code, 2 attempts, 2 page deaths | `BeltOneHolds`, `ResolvedHasLanded`, `LoserNamesWinner` also when the armed device id is a former user's |
| `push_drains` (ScanPushDrains) | 1 phone, 2 codes, 2 attempts, 1 death, fair, pulls again and again | `QueueDrains` |
| `push_waits` (ScanPushWaits) | as above with 2 phones, and no assumption on pulls | counterexample to `QueueDrains` |
| `push_shared_user` (ScanPushShared) | 2 phones, 1 user | counterexample to `OneAcceptedPerCode` |
| `redeem_answers` (RedemptionAnswers) | 3 clients (one syncs an override, one has a token that names no code), 1 code, 2 requests, 1 retry each, fair | `RedeemedIsBurner`, `RaceLostOnRecord`, `VerdictsAreStable`, `NoCallAfterReply`, `EveryRequestAnswered` |
| `redeem_error` (RedemptionError) | the same | counterexample to `ErrorMeansNotRedeemed` |
| `scan_screen` (SubmitFlowScreen) | 2 codes, one requires the server; the camera, picked files or both, fair (257,696 states) | `AloneSendsSession`, `OverrideIsHonest`, `VerdictMeetsItsSession`, `PromptKeepsProgress`, `ScanBringsCard`, `SubmittingEnds` |
| `scan_stale_stash` (SubmitFlowStale) | the same, without fairness | counterexample to `SentIsSession` |
| `scan_cancelled_gate` (SubmitFlowCancel) | camera | counterexample to `BlockedOnlyOffline` |
| `side_by_side` (SideBySide) | the seven parts below, one at a time, fair where each part's specification is (183,012 states) | `TypesOK`; `EditAccounted`, `UncontestedSurvives`, `MergeConverges`; `RestoringHasWriter`; `RegistryAgrees`, `ScopePulledWhole`, `RetryReopens`, `OpenedIsRead`; `QueuedAnswerKept`, `LaterQueuedPressWins`; `KeysetSkipsNothing`, `PullEnds`, `PolicyRecovers`; `LatestIsDraft`, `ActiveTogetherOverlapped`, `DoneListIsClosed`; `DiscardStands`, `OperatorsWorkKept` |
| `ops_refused` (OpsJournalRefused) | 2 devices, 1 field, 2 answers, 3 ops, 1 lost connection | counterexample to `LoserShowsStored` |

### Bounds

Single use is a matter of pairs: two attempts, or an attempt and the online door,
and one code; a third adds a loser that behaves as the second does. Two codes
matter only to a queue with a row behind the one that waits (`push_drains`).
`MaxCloses` is the number of page deaths. One death between any two steps is all
that a run with two phones needs, for a handler remembers nothing of a former
load; two deaths with a change of user in between need two (`push_belts`).
`MaxRetries` is 1, the code's `defaultMaxRetries`. `Request` is 2, one for each
racing client or two for one client that retries. The counters `retries` and
`closes` are bounded by their guards. No symmetry is declared: the sets are
pairs, and the liveness runs would not allow it.

The parts of `side_by_side`:

| Part | Instance | Why it is enough |
|---|---|---|
| ReplicaMerge | 2 questions and a provenance field, 2 answers and none; `MaxEdits` 2, `MaxOffice` 1, `MaxLost` 1 | a merge compares field by field, so two fields show that one's clash leaves the other alone; two edits put one on either side of a push |
| ConflictNotice | 2 documents, 3 rows, 3 kinds of row; caps of 1 where the code has 10 and its collapse limit; `MaxClashes` 3 | a cap matters from one row beyond it |
| ScopeRegistry | 1 checklist, 2 users, 2 field sets, 3 server rows; 2 visits, 1 reload, 1 failure, 2 writes | two visits overlap a close with an open; the rows differ in who may read them and in which scope they are |
| SubmitQueue | 1 template, 2 answers and none, 2 presses, 1 broken request, connection or reload | a template's entries do not depend on another's, but for the order of the drain |
| PullReplica | 2 codes that expire one after the other, 1 policy; batches of 1; 2 transactions, 1 unit of time, clocks true or one ahead, 1 mishap | a batch of one and a transaction of two make a tie that a batch ends in |
| PurchaseOrder | 2 goods of 2 vendors, 3 weeks, 1 save, 1 unlock, 2 requests of a kind at once | two requests are what a lost lock needs; weeks beyond make no order that an earlier one does not |
| ReceiptIntake | 1 charge, 2 passes, ids for 2 rows, any number of passes and taps | no behaviour makes a third row: with three ids the states are the same |

`CHECK_DEADLOCK FALSE` is in every configuration of ScanPush, Redemption, OpsJournal and
the seven parts, since attempts, requests, edits and page deaths run out, and a system with
nothing left to do stops. SubmitFlow's runs check for deadlock.

### Fairness

* ScanPush: weak fairness for the handler's own steps (JavaScript runs on, RxDB
  retries a batch that threw), for opening the page again, and for the end of a
  pull that has begun; strong fairness for an answer, as a network that loses
  requests answers one of infinitely many retries. Nothing makes anybody scan, sign
  in, submit elsewhere or close the page. `Nudge`, the occasion for another pull, is
  fair only in `NudgedSpec`: the code causes a pull on a reconnect and on a return to
  the page, and nothing more. That difference is the finding of `push_waits`.
* Redemption: the goroutine's steps are scheduled and the timer fires. A `redeem()`
  call need not ever be answered, and the client need not wait. The INSERT of a lost race is
  taken to return, with or without success: the goroutine waits for it outside its select,
  so a database that never answered it would keep the request (`arbitrator.go:138`).
* SubmitFlow: what is awaited is answered or rejected (the digest, a collection read, the
  fetch or its timeout). The crew member need not do anything, and the network may flap.
* ReplicaMerge: the replication retries while the page is open (`Replicate`).
* ScopeRegistry: the page and the library always answer and a dropped channel is rejoined
  (`CatchUpStep`). A database that fails may fail for each attempt; nobody need visit.
* PullReplica: what has its coordinates is armed, a failed or unfinished pull goes on
  (RxDB retries), and settling ends. Nothing makes a resync happen.
* ConflictNotice, SubmitQueue, OpsJournal, PurchaseOrder and ReceiptIntake claim no
  progress, and their specifications state no fairness.

## 4. Disagreements found

1. `push_waits`: a lost race is arbitrated only when the codes replica names the
   winner, and after its first pull the replica pulls on a reconnect or a return to
   the page alone. A page that stays in front and online keeps the attempt, and
   the queue behind it, pending for ever, where the comment promises a drain.
2. `push_shared_user`: the device id is the user. Two phones signed in as one
   user take each other's burn for their own, and a code is accepted twice.
3. `redeem_error`: "Nothing was redeemed." is shown for requests that burned the code.
4. `scan_stale_stash`: a file scan's late lookup replaces the code that the next
   customer's submit sends.
5. `scan_cancelled_gate`: the connection returns during the override
   confirmation; cancelling leads to a gate that nothing opens while online.
6. `ops_refused`: AC-9 of `.night-crew/knowledge/prds/PRD-data-integrity.md` wants the losing
   device to show what is stored. The router writes the answer before CheckLWW compares
   the op, so the answer that is refused has replaced the winner in the table: every
   device shows the winner, the row and the submission hold the loser.

### Exemptions: what the properties say by leaving out

Some properties hold only with an exception, which is what the model found of the code:

* `EditAccounted`: an answer typed back to what the phone believes the server holds is no
  change to the merge, and the office's answer replaces it without a record. A push whose
  answer was lost, followed by a newer edit, clashes with the phone's own earlier edit. A
  delete that nobody contested takes the other side's edit with it silently.
* `RestoringHasWriter`: with the durable store a page that dies during a restore leaves
  the row disabled; the page mounts the memory store. Undo sets a row open and writes
  nothing back; a batch also restores rows that were kept meanwhile; a new clash during
  a restore is marked restored with it.
* `AloneSendsSession`, `OverrideIsHonest`: both say so of a crew member who scans in one way
  only; with the camera and a picked file at once, one scan's end meets the other's session
  (`scan_stale_stash`). `OverrideIsHonest` speaks of overrides that name a row. The lookup of a code
  that the replica shows as redeemed may reject, or find no row any more
  (`submit-flow.js:371`): the stash then names none and no policy is asked, so offline the override
  is offered even for a campaign that requires the server, against
  `docs/qr-offline-redemption-handoff.md:333`, and the token hash is queued as the code's id without the
  mark of an unverified code (`submit-flow.js:306`), which `redeem()` refuses for ever.
* `ScanBringsCard`: a session whose RESOLVED came while the prompt was up, or whose scan threw, stays
  in resolving. Nothing on the page ends that but scanning its code again, which
  the property says will do, or Next customer.
* `RegistryAgrees`, `ScopePulledWhole`, `OpenedIsRead`: replications are kept by their identifier,
  which two scopes may share in a collection that is not filtered by fields. A visit closes what
  was open, so two handles with one identifier are live together only between an open and
  the cancel of the one before it; `Settle` takes the newer one's replication, afresh, and
  leaves out what the older one's last pull may still write.
* `OpenedIsRead`: after a failure in `addCollections` the first retry finds the database
  half made and fails as well (`client.js`); the entry is evicted, so the visit after it
  succeeds.
* `QueuedAnswerKept`: a template archived meanwhile answers 409, which the drain takes for
  success (the branch at `sync.js:728` is never reached). A draft saved after a submission
  violates a unique key when the submission is replayed (`repository.go:733`), and the
  queue waits behind it: that the queue drains is not claimed.
* `LaterQueuedPressWins`: a press that got through by itself is overwritten by an older entry
  drained later. A lost answer online makes the next press use a new key. The drain posts as
  whoever is signed in, for the period of the press.
* `KeysetSkipsNothing`: the offers replica of a device whose clock is ahead asks before its
  first calibration and skips rows that had not expired. Transactions commit in the order
  of their `updated_at` in the model; one that commits late is behind the checkpoint.
* `ActiveTogetherOverlapped`, `DoneListIsClosed`: two approvals at once make two active lists; two last
  sections completed at once, the later one counted before the other was committed, leave a
  list active with nothing to complete; so does an order approved without lines. A save that read the status before a lock lands its lines on
  an approved order. The cutoff counts as passed at every tick until its weekday comes again
  (`scheduler.go:206`), so an order that was unlocked is locked again, and once it is approved the
  next week's draft is.
* `DiscardStands`, `OperatorsWorkKept`: a pass that had read the charge before the operator's
  word brings a discarded charge back, deletes its row or overwrites an edit. The comment of
  `updatePendingPurchase` expects its UPDATE to find no row then, but it asks for no status.
  A row without a receipt whose items were typed in is parsed anew when its first receipt
  appears, although `worker.go:697` says that an edited row is never clobbered. Two passes that both
  found nothing can leave an open row beside the event, until a reprocess clears it.
  `RetryParse` is one step: the handler's UPDATE asks no status, but the mark it may leave on a
  row closed since its SELECT is read by nothing (`classifyExistingTx` looks at open rows).
* Ops: a device's optimistic value is overwritten by an op delivered late; the catch-up cursor
  is a lamport time that fields do not share; clearing an answer resets its stamp to 0.

## 5. Proofs

`RedemptionProofs` proves, for any sets of clients, codes and requests and any retry
budget, under `RedemptionAssumption` alone (the constants are distinct and typed):
`TypeCorrect`, `RedeemedOnce` (`RedeemedIsBurner`), `LostRacesRecorded`
(`RaceLostOnRecord`), `AnsweredCallsNoMore` (`NoCallAfterReply`) and `StableVerdicts`
(`VerdictsAreStable`).

None of these is inductive. The invariant `IInv` adds what they rest on:
`Asked` (a request nobody made has no statechart, answer or call),
`Booked` (the history `burner` and the column `redeemedBy` tell the same),
`Truthful` (what a statechart or an answer says of a code is so; it stays so because
a redemption is never undone and an expired code never lives again),
`Settled` (an answered request's statechart is at a terminal or stopped, and only a
lost race is ever recorded) and `Heard` (the same for what a client was told, and
that a client that heard `already_used` does not wait for a burner). The step proof
has one case per action; the two actions that call `redeem()` have a step per
conjunct.

`ScanPushProofs` proves of the offline door, whoever signs in on which phone:
`TypeCorrect`, `ResolvedRowsLanded` (`ResolvedHasLanded`), `WinnersNamed`
(`LoserNamesWinner`) and `OutcomesFinal` (`BeltOneHolds`). The page may die between an
outcome and the row that shows it, so its invariant ties what survives to what is on its way:
`Handling` (where the handler is, and what it holds there),
`Made` (an attempt that was made has a phone and a code), `Landed` (every row on the
server *and every insert in flight* has the status of a persisted outcome, hence no retry
lands another), `Called` (only verified attempts call the RPC) and `Seen` (a replica may be
behind, and is never wrong).

Its second half goes on for `OneUserEach`: no user changes phones and no two phones
share a user. The assumption is needed, as belt 2 knows its own burn by the user's id alone;
`push_shared_user` shows what happens without it. Under it, `AcceptedBurned`
(`AcceptedOwnsBurn`), `BurnersKept` (`BurnerNotRejected`), `AcceptedOnce`
(`OneAcceptedPerCode`) and `DoorImplementsSingleUse` (`ImplementsSingleUse`) hold for every
number of phones, codes, attempts and deaths. The invariant `SInv` adds
`Identified` (every id in use on a phone is its user's), `Credited` (`redeemedBy` names the
phone of the attempt that burned), `OneLive` (the dedupe leaves one live attempt for
a phone and a code) and `Decided` (every outcome, persisted or held, is the truth, and no
later call can make it untrue). With `Credited` and `OneLive`, a burn under the handler's id is the
burn of the row at hand, which is what belt 2 takes for granted (lemma `BeltTwo`). The
refinement maps `Init` to `Init`, the first call that burns to the abstract burn, `Enqueue` to
naming a code, `PersistBurn` to telling the attempt, and every other action to a stutter.

`SubmitFlowProofs` proves of the screen, for any codes and ways to scan, `TypeCorrect`
(`TypeOK`), `MidSubmitProtected` (`VerdictMeetsItsSession`) and `PromptInterruptsNothing`
(`PromptKeepsProgress`), by `MachineInv`: the prompt is only over an interruptible state and
a blocked gate remembers where it came from. Of behaviours in which the crew member scans in
one way only (`OneSource`, which is settled at the start: lemma `UseStays`) it proves
`OneSourceSendsSession` (`AloneSendsSession`) and `OneSourceOverridesHonestly` (`OverrideIsHonest`),
whichever awaits fail. Their invariant `SessionInv` says that a scan
under way fits the session (`ScansFit`), that what is stashed is the session's code and
kind once it is resolved (`Bound`), and that an override waits only at a gate that was
refused. `scan_stale_stash` shows why the assumption is there.

`ChecklistProofs` is about the answers of a checklist, in three parts.

* The merge: it never lets go of the phone's answer without a clash (`NoSilentLoss`), a merged
  document merged again is unchanged (`MergeSettles`), and of the replication
  `MergeTypeCorrect`, `NothingDiscardedSilently` (`EditAccounted`) and `UncontestedKept`
  (`UncontestedSurvives`). `MergeInv`: an answer not sent yet is `Fresh`, on the phone and
  known for a change against what was assumed, or `Discarded`, in the record with the field
  untouched since; a push carries what is assumed.
* The notice: `NoticeTypeCorrect` and `NoRowStuck` (`RestoringHasWriter`). `NoticeInv` is the type and `RestoringHasWriter`: the two marks a tap
  or a batch sets, the write it starts, the next row a batch takes when a write ends and the new
  conflict that replaces a row are each checked against every other write under way.
* The submit queue: `QueueTypeCorrect`, `QueuedKept` (`QueuedAnswerKept`) and `LaterPressWins`
  (`LaterQueuedPressWins`), for any templates, presses and broken requests. Neither
  is inductive. `QueueInv` adds that ids are given press by press, and the press under way has
  the latest (`Numbered`); that the queue is one: what left it was put before what is
  in it, a drain works on its older part and sends the oldest of that (`Ordered`); what an
  answer on its way back stands for (`AnswersTrue`: a 409 an archived template, a success
  an answer in the submission, and the last one queued under its key either *is* the
  submission's or was overtaken by a press that got through by itself); and the same for
  what left the queue (`LastStands`). `Ordered` is what the sort by `queuedAt` gives: an older entry
  cannot be drained after a newer one left. `Overtaken` is the exemption of the
  property, and it ends only when that press is queued after all, as the last of its key.

`PullProofs` is about what comes down from the server.

* The keyset walk: `PullTypeCorrect` and `NothingSkipped` (`KeysetSkipsNothing`) for any finite
  sets of rows, expiry times, batch size and clocks. `PullInv` adds that no row and no checkpoint is
  ahead of the transactions. The step is that a batch which ends at its last row has left
  out nothing at or before it (lemma `LastRow`, which finds the last row as the one with the
  most rows of the batch before it).
* The scopes: `RegistryNeverDisagrees` (`RegistryAgrees`), `ScopesPulledWhole`
  (`ScopePulledWhole`), `VisitsTryAgain` (`RetryReopens`) and `ScopeTypeCorrect` for any crew, checklists, field sets, rows, visits
  and failures. `PageInv` says for every handle, not only the entry's, that it is alive exactly
  while it is registered and held or about to be cancelled, and which states the
  database allows; hence what the registry has for a scope was not rejected (`VisitsTryAgain`). `PulledInv` is about the rows: a replication on and every handle is of the
  crew member signed in (`OfTheCrew`), no row and no checkpoint is ahead of the server's
  writes, each of which has a version of its own (`Versions`), a checkpoint is sound whether or
  not anything replicates now (`CheckpointSound`: a row of its identifier at or before it is on
  the phone as it is on the server), and a live replication lacks only rows whose event is on the
  way (`StreamSound`). As the checkpoint carries scope, user and field set, `CheckpointSound`
  survives a change of user.

`PurchasingProofs` is about the server.

* The orders: `OrderTypeCorrect`, `DraftToShow` (`LatestIsDraft`), `TwoListsOverlapped`
  (`ActiveTogetherOverlapped`) and `DoneListsClosed` (`DoneListIsClosed`) for any goods, vendors,
  weeks and numbers of concurrent requests. `OrderInv` ties each request under way to the rows
  it will write: `DraftAhead` (an order past its draft has a later draft), `OneApproval`, `ListsSeen` (an
  approval knows the lists made since it counted), `Countings` (a completion knows whether it
  is the last, unless another was committed since it counted) and `ListOfOrder`.
* The card charge: `IntakeTypeCorrect`, `DiscardsStand` (`DiscardStands`) and `WorkKept`
  (`OperatorsWorkKept`), for any number of rows. `IntakeInv`: one row at most is under review
  (`OneOpen`), a confirmed row means a booked charge (`ConfirmedIsBooked`), and a pass that
  read the charge before the operator's word is known as overtaken: one that took it for new, or
  means to write, while the charge is thrown away (`ReadBeforeDiscard`), or that parses unasked
  while a row it could overwrite is edited (`ReadBeforeEdit`). The two action properties then hold step by
  step: every write of a pass is either one of an overtaken pass or finds what it read.

`SideBySideProofs` composes them. A step of `MCSideBySide` is a step of one part and leaves the
variables of the others alone (`StepOfEach`), so the parts' invariants hold together
(`EachInv`), and with them `TypesCorrect` (`TypesOK`).

`NumberLemmas` has what four of these use: a set of natural numbers has a least element, a
bounded one a greatest (well-founded induction on `<`).

Every safety property, invariant or action property, of a run that passes is thus a theorem. Only
model-checked is what is temporal under fairness (`QueueDrains`, `EveryRequestAnswered`,
`ScanBringsCard`, `SubmittingEnds`, `MergeConverges`, `OpenedIsRead`, `PullEnds`,
`PolicyRecovers`), which is out of the prover's reach; and the counterexamples are TLC's alone. Each
inductive invariant was an invariant of a run of TLC before it was proved.

## 6. What the models leave out

* Several tabs of one browser: they share the queue and not the serialization of
  `makeSerializedEnqueue`, nor the RxDB leader.
* `BurnerNotRejected` is stated for phones whose user does not change. With
  `MaySwitch`, a burn under the stored id of the former user is refused at landing, and the next
  load reads it as somebody else's: the attempt that burned the code is rejected.
  `push_belts` runs with changes of user and checks what does hold there.
* A pull is atomic in ScanPush: it takes the rows as they are at its end. PullReplica has the
  batches; composing the two would add only states in which the replica is older, which
  ScanPush has already, as a pull may happen at any time or not at all.
* Failing IndexedDB reads and writes, but for the reads of a scan. Field validation of a redeem request. Order
  number syntax, business dates, rendering.
* `unexpectedEvent` of the statechart: every pair of state and event is declared.
* The resolver's answer is a free choice among its verdicts. The offers replica may also show
  an offer whose code is redeemed (`scanner.js:163`); the push decides.
* The gate fails open: when its digest rejects the resolver is called all the same, and rejects at
  the same digest (`ScanFails`). That the machine itself throws is left out.
* The sheet of overwritten answers counts what its caps hide; the counts and the banner are
  rendering here.
* Sync scopes: leader election between tabs, and the list scope, which no page opens.
* Ops: other op types, the access filter of `OpsSince`, a hub that closes a slow client's channel,
  the listener's reconnect, a socket that gives up after 15 attempts until the page is visible.
* Reviews (approve, reject, unsubmit): requests that interleave on one table, of which no line
  says which should win. Unsubmit also fails while a draft of the same field exists.
* Purchasing: checking off and moving items, photos, badges, the reminder and low-stock
  jobs, quantities; the page's save timer, shared by both tabs, whose answer replaces
  edits made during a save. PostgreSQL is taken at its default isolation, READ COMMITTED, and the
  statements that fill one vendor's section are one.
* Receipt intake: what a parse finds, the backfills of category and card, Stop sync (a run that is
  stopped ends without writing, as one whose downloads fail), recovery of dead links.

## 7. Where to go on

1. **Review**: approve, reject and unsubmit as transactions that interleave at statement
   granularity, once it is decided which should win.
2. **SubmitQueue** and **OpsJournal** in one module: a draft saved by an op while the queue holds the
   submission of the same field, which is where the head of the queue stays blocked.
3. **ScopeRegistry** under **ReplicaMerge**, when a page edits through the replica: a close with a
   push under way.
4. Proofs: what does hold of **OpsJournal** (the stored stamp is the greatest of the ops that
   were recorded), and the safety halves of the liveness properties: what a step towards the
   goal never undoes.

## 8. Not modelled, and why

Toast ingest and photos are remote calls and parsing. Inventory's stock, catalogue and reports,
recipes, onboarding, users and authentication are CRUD and reports over SQL, decided by their
data and by one person at a time; their requests are not modelled for interleavings.
The token proxy turns a request into a signed one and keeps no state. Alerts is one
buffered channel with one consumer, which drops what does not fit and retries
nothing: it promises nothing to check. The pages are rendering around the parts that are
modelled. The service worker's caches are keyed by the signed-in user, and its build
script generates a manifest. Each is a component in `PROJECT.json` with its reason.
