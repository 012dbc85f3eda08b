----------------------------- MODULE SubmitQueue -----------------------------
(***************************************************************************)
(* The checklists a crew member submits, some of them offline: the press   *)
(* of Submit (submitChecklistToAPI), the queue in IndexedDB, its drain     *)
(* (enqueueSubmission and drainQueue of sync.js), and the server, which    *)
(* takes a repeated idempotency key for one submission and moves the       *)
(* drafts of the user into it.                                             *)
(*                                                                         *)
(* A template has one question, so an answer is named by its template.     *)
(* One tab, one user, one day: an entry of an earlier day lends its key to *)
(* nobody and only waits.  A request is served before the page gives it up *)
(* or not at all.                                                          *)
(***************************************************************************)
EXTENDS Integers, FiniteSets

CONSTANTS
  Templates,
  Picks,      \* the answers to a question
  Unanswered,   \* no answer
  MaxPresses,   \* bound: presses of Submit
  MaxBreaks     \* bound: lost requests, connections, reloads and archivings

ASSUME QueueAssumption ==
  /\ Unanswered \notin Picks
  /\ MaxPresses \in Nat /\ MaxBreaks \in Nat

Responses == Picks \cup {Unanswered}

VARIABLES
  online,       \* navigator.onLine
  typed,        \* the answers on the screen
  queue,        \* the entries of submitQueue
  todo,         \* what the drain under way still has to send
  draining,     \* _draining
  posts,        \* requests under way: [entry, by, stage]
  drafts,       \* server: the user's draft of each answer
  submissions,  \* server: the answers of the submission of each key, or none
  archived,     \* server: templates archived meanwhile
  presses, breaks,  \* history: what the bounds count
  queued,       \* history: every entry ever queued
  direct        \* history: entries a press itself got through

queueVars == <<online, typed, queue, todo, draining, posts, drafts,
               submissions, archived, presses, breaks, queued, direct>>

Numbers == 1..MaxPresses
Entries == [id : Numbers, key : Numbers, template : Templates, value : Responses]

QueueInit ==
  /\ online \in BOOLEAN
  /\ typed = [t \in Templates |-> Unanswered]
  /\ queue = {} /\ todo = {} /\ draining = FALSE /\ posts = {}
  /\ drafts = typed
  /\ submissions = [k \in Numbers |-> {}]
  /\ archived = {} /\ presses = 0 /\ breaks = 0 /\ queued = {} /\ direct = {}

-----------------------------------------------------------------------------
Type(t, v) ==
  /\ typed[t] # v
  /\ typed' = [typed EXCEPT ![t] = v]
  /\ UNCHANGED <<online, queue, todo, draining, posts, drafts, submissions,
                 archived, presses, breaks, queued, direct>>

(* The debounced save of an answer reaches the server.                     *)
SaveDraft(t) ==
  /\ online /\ typed[t] # drafts[t]
  /\ drafts' = [drafts EXCEPT ![t] = typed[t]]
  /\ UNCHANGED <<online, typed, queue, todo, draining, posts, submissions,
                 archived, presses, breaks, queued, direct>>

(* findQueuedSubmission: a queued entry of the template lends its key; a   *)
(* press always has an id of its own.                                      *)
QueuedToday(t) == {e \in queue : e.template = t}

(* A bug: the press takes over the entry with its key.                     *)
ReusesId(t, n) == IF QueuedToday(t) = {} THEN n ELSE (CHOOSE e \in QueuedToday(t) : TRUE).id

EntryId(t, n) == n

Press(t) ==
  /\ presses < MaxPresses
  /\ \A p \in posts : p.by # "press"
  /\ presses' = presses + 1
  /\ \E k \in IF QueuedToday(t) = {} THEN {presses'} ELSE {e.key : e \in QueuedToday(t)} :
       posts' = posts \cup
         {[entry |-> [id |-> EntryId(t, presses'), key |-> k, template |-> t,
                      value |-> typed[t]],
           by |-> "press", stage |-> "asked"]}
  /\ UNCHANGED <<online, typed, queue, todo, draining, drafts, submissions,
                 archived, breaks, queued, direct>>

(* enqueueSubmission: a put by id.                                         *)
Put(e) == {x \in queue : x.id # e.id} \cup {e}

-----------------------------------------------------------------------------
(* The server.  Drafts of all templates are moved first; one to an answer  *)
(* the submission already has violates the unique key and fails it all.    *)

Answered(k, t) == \E r \in submissions[k] : r.template = t
DraftsClash(k) == \E t \in Templates : drafts[t] # Unanswered /\ Answered(k, t)

MovedDrafts == {[template |-> t, value |-> drafts[t]] : t \in {u \in Templates : drafts[u] # Unanswered}}
OwnAnswer(e) == {[template |-> e.template, value |-> e.value]}

Upserted(e) ==
  LET moved == submissions[e.key] \cup MovedDrafts
  IN  IF e.value = Unanswered THEN moved
      ELSE {r \in moved : r.template # e.template} \cup OwnAnswer(e)

Staged(p, stage) == (posts \ {p}) \cup {[p EXCEPT !.stage = stage]}

Serve(p) ==
  /\ p \in posts /\ p.stage = "asked" /\ online
  /\ IF p.entry.template \in archived
     THEN posts' = Staged(p, "conflict") /\ UNCHANGED <<drafts, submissions, direct>>
     ELSE IF DraftsClash(p.entry.key)
     THEN posts' = Staged(p, "failed") /\ UNCHANGED <<drafts, submissions, direct>>
     ELSE /\ posts' = Staged(p, "taken")
          /\ submissions' = [submissions EXCEPT ![p.entry.key] = Upserted(p.entry)]
          /\ drafts' = [t \in Templates |-> Unanswered]
          /\ direct' = IF p.by = "press" THEN direct \cup {p.entry} ELSE direct
  /\ UNCHANGED <<online, typed, queue, todo, draining, archived, presses, breaks, queued>>

-----------------------------------------------------------------------------
(* The answer of a press.  api() hands a 409 back as a value, so the page  *)
(* takes it for a success.                                                 *)
PressAnswered(p) ==
  /\ p \in posts /\ p.by = "press" /\ p.stage \in {"taken", "conflict"}
  /\ posts' = posts \ {p}
  /\ UNCHANGED <<online, typed, queue, todo, draining, drafts, submissions,
                 archived, presses, breaks, queued, direct>>

(* It failed: queued if the phone is offline by now, else only told.       *)
PressFails(p) ==
  /\ p \in posts /\ p.by = "press"
  /\ p.stage = "failed" \/ ~online
  /\ posts' = posts \ {p}
  /\ IF online THEN UNCHANGED <<queue, queued>>
     ELSE queue' = Put(p.entry) /\ queued' = queued \cup {p.entry}
  /\ UNCHANGED <<online, typed, todo, draining, drafts, submissions, archived,
                 presses, breaks, direct>>

(* A bug: in the order of the store's keys, here the reverse.              *)
KeyedBefore(e, x) == e.id > x.id

(* In the order they were queued: ids are given press by press, and one    *)
(* press is under way at a time.                                           *)
PressedBefore(e, x) == e.id < x.id

(* One entry at a time is sent, so long as there is one.                   *)
Send(rest) ==
  {[entry |-> e, by |-> "drain", stage |-> "asked"] :
     e \in {y \in rest : \A x \in rest \ {y} : PressedBefore(y, x)}}

MayDrain == online /\ ~draining /\ queue # {}

(* On the 'online' event, a socket that opens, a page that loads or shows. *)
StartDrain ==
  /\ MayDrain
  /\ draining' = TRUE
  /\ todo' = queue
  /\ posts' = posts \cup Send(todo')
  /\ UNCHANGED <<online, typed, queue, drafts, submissions, archived, presses,
                 breaks, queued, direct>>

(* Taken, or archived: api() does not throw on 409, the entry goes.        *)
DrainAnswered(p) ==
  /\ p \in posts /\ p.by = "drain" /\ p.stage \in {"taken", "conflict"}
  /\ queue' = {e \in queue : e.id # p.entry.id}
  /\ todo' = todo \ {p.entry} /\ draining' = (todo' # {})
  /\ posts' = (posts \ {p}) \cup Send(todo')
  /\ UNCHANGED <<online, typed, drafts, submissions, archived, presses, breaks,
                 queued, direct>>

(* Any other failure ends the drain and keeps the entry.                   *)
DrainBreaks(p) ==
  /\ p \in posts /\ p.by = "drain"
  /\ p.stage = "failed" \/ ~online
  /\ posts' = posts \ {p} /\ todo' = {} /\ draining' = FALSE
  /\ UNCHANGED <<online, typed, queue, drafts, submissions, archived, presses,
                 breaks, queued, direct>>

-----------------------------------------------------------------------------
(* The connection is lost with a request or with its answer.               *)
Lose(p) ==
  /\ p \in posts /\ p.stage # "failed" /\ breaks < MaxBreaks
  /\ posts' = Staged(p, "failed") /\ breaks' = breaks + 1
  /\ UNCHANGED <<online, typed, queue, todo, draining, drafts, submissions,
                 archived, presses, queued, direct>>

GoOffline ==
  /\ online /\ breaks < MaxBreaks
  /\ online' = FALSE /\ breaks' = breaks + 1
  /\ UNCHANGED <<typed, queue, todo, draining, posts, drafts, submissions,
                 archived, presses, queued, direct>>

GoOnline ==
  /\ ~online
  /\ online' = TRUE
  /\ UNCHANGED <<typed, queue, todo, draining, posts, drafts, submissions,
                 archived, presses, breaks, queued, direct>>

(* Only the queue outlives the page; drafts are read back when online.     *)
ReloadPage ==
  /\ breaks < MaxBreaks
  /\ breaks' = breaks + 1
  /\ typed' = IF online THEN drafts ELSE [t \in Templates |-> Unanswered]
  /\ posts' = {} /\ todo' = {} /\ draining' = FALSE
  /\ UNCHANGED <<online, queue, drafts, submissions, archived, presses, queued, direct>>

Archive(t) ==
  /\ t \notin archived /\ breaks < MaxBreaks
  /\ archived' = archived \cup {t} /\ breaks' = breaks + 1
  /\ UNCHANGED <<online, typed, queue, todo, draining, posts, drafts, submissions,
                 presses, queued, direct>>

QueueNext ==
  \/ \E t \in Templates, v \in Picks : Type(t, v)
  \/ \E t \in Templates : SaveDraft(t) \/ Press(t) \/ Archive(t)
  \/ \E p \in posts :
       \/ Serve(p) \/ Lose(p)
       \/ PressAnswered(p) \/ PressFails(p) \/ DrainAnswered(p) \/ DrainBreaks(p)
  \/ StartDrain \/ GoOffline \/ GoOnline \/ ReloadPage

QueueSpec == QueueInit /\ [][QueueNext]_queueVars

-----------------------------------------------------------------------------
(* The type of every variable, one request at a time of a press and of the *)
(* drain.                                                                  *)
QueueTypeOK ==
  /\ online \in BOOLEAN /\ draining \in BOOLEAN
  /\ typed \in [Templates -> Responses] /\ drafts \in [Templates -> Responses]
  /\ queue \subseteq Entries /\ queued \subseteq Entries /\ direct \subseteq Entries
  /\ todo \subseteq Entries
  /\ posts \subseteq [entry : Entries, by : {"press", "drain"},
                      stage : {"asked", "taken", "conflict", "failed"}]
  /\ \A p, q \in posts : p.by = q.by => p = q
  /\ submissions \in [Numbers -> SUBSET [template : Templates, value : Picks]]
  /\ \A k \in Numbers : \A r, q \in submissions[k] : r.template = q.template => r = q
  /\ archived \subseteq Templates
  /\ presses \in 0..MaxPresses /\ breaks \in 0..MaxBreaks

(* What was queued is never thrown away by a later press: an answer of a   *)
(* queued press is in the queue still, or its submission has an answer, or *)
(* the template was archived (which the drain does not tell, see README).  *)
QueuedAnswerKept ==
  \A e \in queued :
    \/ e.value = Unanswered
    \/ e \in queue
    \/ Answered(e.key, e.template)
    \/ e.template \in archived

(* Of presses that were all queued the later wins, and an empty one takes  *)
(* nothing away (drainQueue, "Sorting by queuedAt makes the later press    *)
(* win").  A press that got through by itself is exempt: an entry that is  *)
(* still queued then overwrites it, see README.                            *)
Told(k) == {e \in queued : e.key = k /\ e.value # Unanswered}

LaterQueuedPressWins ==
  \A k \in Numbers :
    (/\ Told(k) # {}
     /\ \A e \in queue : e.key # k
     /\ \A e \in direct : e.key = k => \E x \in queued : x.id = e.id
     /\ \A e \in Told(k) : e.template \notin archived)
    => LET last == CHOOSE e \in Told(k) : \A x \in Told(k) : x.id <= e.id
       IN  [template |-> last.template, value |-> last.value] \in submissions[k]
=============================================================================
