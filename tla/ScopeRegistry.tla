--------------------------- MODULE ScopeRegistry ---------------------------
(***************************************************************************)
(* The checklist fill view's reads from the RxDB replica: which            *)
(* replications are live (the page's FILL_SYNC_SCOPES, the registry of     *)
(* sync-rxdb/bootstrap.js, the database they wait for) and what each has   *)
(* pulled (startHQReplication of sync-rxdb/client.js: one replication per  *)
(* collection, its filter and its checkpoint both made from the scope).    *)
(*                                                                         *)
(* One action is one macrotask of the page with the promise reactions it   *)
(* queues: no other code of the page runs between them.  The collections   *)
(* "templates", "checklists" and "approvals" are scoped alike, by one id   *)
(* of the scope, and "checklists" stands for the three.                    *)
(***************************************************************************)
EXTENDS Integers, FiniteSets, Sequences, FiniteSetsExt

CONSTANTS
  Crew,         \* the users who sign in on this phone
  Checklist,    \* checklist submissions that can be opened
  FieldSet,     \* the sets of field ids a checklist can be opened with
  SyncRow,      \* rows of the server, each [coll, checklist, field, readers]
  Draft,        \* the checklist of an answer that has no submission yet
  MaxVisits,    \* bound: checklists opened
  MaxReloads,   \* bound: page loads after the first
  MaxFails,     \* bound: failures of the database and losses of the channel
  MaxWrites     \* bound: writes on the server

Collections == {"checklists", "responses"}

ASSUME ScopeAssumption ==
  /\ SyncRow \subseteq [coll : Collections, checklist : Checklist \cup {Draft},
                        field : UNION FieldSet, readers : SUBSET Crew]
  /\ Draft \notin Checklist
  /\ MaxVisits \in Nat /\ MaxReloads \in Nat /\ MaxFails \in Nat /\ MaxWrites \in Nat

(* A fill scope as normalizeScope accepts it; the template goes with the   *)
(* checklist.                                                              *)
Scopes == [user : Crew, checklist : Checklist, fields : FieldSet]

VARIABLES
  crew,         \* who is signed in
  database,     \* "none", "creating" or "ready": databasePromise
  handles,      \* the handles openSyncScope made, oldest first
  openScopes,   \* the registry: the index of a scope's handle, or 0
  fillEntry,    \* FILL_SYNC_SCOPES: the handle of a checklist's entry, or 0
  closing,      \* cancels that wait for their handle: <<checklist, index>>
  modified,     \* when the server last wrote a row, 0 for never
  replica,      \* the version of a row in IndexedDB, 0 for none
  checkpoint,   \* the persisted checkpoint of a replicationIdentifier
  leg,          \* its live leg: "off", "resync" (to pull), "stream" or "lost"
  events,       \* the changes on their way to it
  visits, reloads, fails, writes   \* history: what the bounds count

pageVars == <<crew, database, handles, openScopes, fillEntry, closing>>
dataVars == <<modified, replica, checkpoint>>
scopeVars == <<pageVars, dataVars, leg, events, visits, reloads, fails, writes>>

-----------------------------------------------------------------------------
(* What a scope is replicated as.                                          *)

(* A bug: the identity of a fill scope without its crew member.            *)
IdentifierWithoutUser(coll, s) ==
  [coll |-> coll, user |-> CHOOSE u \in Crew : TRUE, checklist |-> s.checklist,
   fields |-> IF coll = "responses" THEN s.fields ELSE {}]

(* The scope's identity and the serialized filter of the collection, in a  *)
(* hash taken to be injective; RxDB keys the checkpoint by it.             *)
Identifier(coll, s) ==
  [coll |-> coll, user |-> s.user, checklist |-> s.checklist,
   fields |-> IF coll = "responses" THEN s.fields ELSE {}]

Identifiers ==
  [coll : {"checklists"}, user : Crew, checklist : Checklist, fields : {{}}]
  \cup [coll : {"responses"}, user : Crew, checklist : Checklist, fields : FieldSet]

IdentifiersOf(s) == {Identifier(coll, s) : coll \in Collections}

(* The filter of the pull.                                                 *)
InFilter(id, row) ==
  /\ row.coll = id.coll
  /\ \/ row.checklist = id.checklist
     \/ row.coll = "responses" /\ row.checklist = Draft /\ row.field \in id.fields

(* A bug: the responses' live leg narrowed to the open checklist.          *)
NarrowRealtimeFilter(id, row) == row.coll = id.coll /\ row.checklist = id.checklist

(* The filter of the live leg; none can be written for the responses.      *)
InRealtimeFilter(id, row) ==
  row.coll = id.coll /\ (row.coll = "responses" \/ row.checklist = id.checklist)

-----------------------------------------------------------------------------
ScopeInit ==
  /\ crew \in Crew
  /\ database = "none" /\ handles = <<>>
  /\ openScopes = [s \in Scopes |-> 0]
  /\ fillEntry = [c \in Checklist |-> 0]
  /\ closing = {}
  /\ modified = [r \in SyncRow |-> 0] /\ replica = modified
  /\ checkpoint = [id \in Identifiers |-> 0]
  /\ leg = [id \in Identifiers |-> "off"]
  /\ events = [id \in Identifiers |-> {}]
  /\ visits = 0 /\ reloads = 0 /\ fails = 0 /\ writes = 0

(* A bug: the deferred cancel does not look who owns the handle by now.    *)
CancelsEveryClose(ent, cls) == {x[2] : x \in cls}

(* Of the closes that waited, those whose handle no newer entry holds.     *)
Cancelled(ent, cls) == {x[2] : x \in {y \in cls : ent[y[1]] # y[2]}}

(* The promise reactions once the database is there: every handle that     *)
(* waited starts its replications, then the closes that waited cancel.     *)
Settle(hs, reg, ent, cls) ==
  LET gone == Cancelled(ent, cls)
      starts == {i \in DOMAIN hs \ gone : hs[i].state = "opening"}
      Ids(is) == UNION {IdentifiersOf(hs[i].scope) : i \in is}
  IN  /\ handles' = [i \in DOMAIN hs |->
                       [hs[i] EXCEPT !.state = IF i \in gone THEN "cancelled"
                                               ELSE IF i \in starts THEN "live" ELSE @]]
      /\ openScopes' = [s \in Scopes |->
                          IF \E i \in gone : hs[i].scope = s THEN 0 ELSE reg[s]]
      /\ leg' = [id \in Identifiers |-> IF id \in Ids(starts) THEN "resync"
                                        ELSE IF id \in Ids(gone) THEN "off" ELSE leg[id]]
      /\ events' = [id \in Identifiers |->
                      IF id \in Ids(starts \cup gone) THEN {} ELSE events[id]]
      /\ closing' = {}

(* Where the page goes on: at once with a database, later without one.     *)
Run(hs, reg, ent, cls) ==
  /\ fillEntry' = ent
  /\ IF database' = "ready" THEN Settle(hs, reg, ent, cls)
     ELSE /\ handles' = hs /\ openScopes' = reg /\ closing' = cls
          /\ UNCHANGED <<leg, events>>

(* closeActiveFillScope: the entry goes now, the cancel waits its handle.  *)
Closes == {<<c, fillEntry[c]>> : c \in {d \in Checklist : fillEntry[d] # 0}}
NoEntries == [c \in Checklist |-> 0]

(* openSyncScope joins the handle that a scope has, or makes one.          *)
HandleOf(s) == IF openScopes[s] # 0 THEN openScopes[s] ELSE Len(handles) + 1
HandlesWith(s) ==
  IF openScopes[s] # 0 THEN handles
  ELSE Append(handles, [scope |-> s, state |-> "opening"])

(* fillSyncOpen drops the entry of a handle that is rejected already.      *)
EntryOf(s) == IF HandlesWith(s)[HandleOf(s)].state = "rejected" THEN 0 ELSE HandleOf(s)

(* A crew member opens a checklist: what was open is closed, and a handle  *)
(* that has to be made asks for the database.                              *)
Visit(c, fields) ==
  /\ visits < MaxVisits
  /\ LET s == [user |-> crew, checklist |-> c, fields |-> fields]
     IN  /\ database' = IF openScopes[s] = 0 /\ database = "none" THEN "creating"
                        ELSE database
         /\ Run(HandlesWith(s), [openScopes EXCEPT ![s] = HandleOf(s)],
                [NoEntries EXCEPT ![c] = EntryOf(s)], closing \cup Closes)
  /\ visits' = visits + 1
  /\ UNCHANGED <<crew, dataVars, reloads, fails, writes>>

Leave ==
  /\ Closes # {}
  /\ UNCHANGED database
  /\ Run(handles, openScopes, NoEntries, closing \cup Closes)
  /\ UNCHANGED <<crew, dataVars, visits, reloads, fails, writes>>

DatabaseOpens ==
  /\ database = "creating"
  /\ database' = "ready"
  /\ Run(handles, openScopes, fillEntry, closing)
  /\ UNCHANGED <<crew, dataVars, visits, reloads, fails, writes>>

(* A bug: the registry keeps the promise that was rejected.                *)
KeepsRejected(reg) == reg

(* Without a database every handle is rejected and leaves the registry.    *)
EvictRejected(reg) ==
  [s \in Scopes |-> IF reg[s] # 0 /\ handles[reg[s]].state = "opening" THEN 0 ELSE reg[s]]

DatabaseFails ==
  /\ database = "creating" /\ fails < MaxFails
  /\ database' = "none"
  /\ openScopes' = EvictRejected(openScopes)
  /\ fillEntry' = NoEntries
  /\ handles' = [i \in DOMAIN handles |->
                   [handles[i] EXCEPT !.state = IF @ = "opening" THEN "rejected" ELSE @]]
  /\ closing' = {}
  /\ fails' = fails + 1
  /\ UNCHANGED <<crew, dataVars, leg, events, visits, reloads, writes>>

(* The page is loaded again, perhaps by the next crew member: IndexedDB    *)
(* keeps its rows and checkpoints, nothing else survives.                  *)
Reload(u) ==
  /\ reloads < MaxReloads
  /\ crew' = u /\ database' = "none" /\ handles' = <<>>
  /\ openScopes' = [s \in Scopes |-> 0] /\ fillEntry' = NoEntries /\ closing' = {}
  /\ leg' = [id \in Identifiers |-> "off"] /\ events' = [id \in Identifiers |-> {}]
  /\ reloads' = reloads + 1
  /\ UNCHANGED <<dataVars, visits, fails, writes>>

-----------------------------------------------------------------------------
(* The replications: the server, the pull and the live leg of the library. *)

(* Row-level security: the server hides a row from who may not read it.    *)
ServerWrites(row) ==
  /\ writes < MaxWrites
  /\ writes' = writes + 1
  /\ modified' = [modified EXCEPT ![row] = writes']
  /\ events' = [id \in Identifiers |->
                  IF leg[id] \in {"resync", "stream"} /\ crew \in row.readers /\ InRealtimeFilter(id, row)
                  THEN events[id] \cup {row} ELSE events[id]]
  /\ UNCHANGED <<pageVars, replica, checkpoint, leg, visits, reloads, fails>>

(* What a pull from the checkpoint finds.                                  *)
Newer(id) ==
  {r \in SyncRow : crew \in r.readers /\ InFilter(id, r) /\ modified[r] > checkpoint[id]}

Resync(id) ==
  /\ leg[id] = "resync"
  /\ replica' = [r \in SyncRow |-> IF r \in Newer(id) THEN modified[r] ELSE replica[r]]
  /\ checkpoint' = [checkpoint EXCEPT ![id] = Max({@} \cup {modified[r] : r \in Newer(id)})]
  /\ leg' = [leg EXCEPT ![id] = "stream"]
  /\ UNCHANGED <<pageVars, modified, events, visits, reloads, fails, writes>>

(* A change arrives with its own version as the checkpoint.                *)
Deliver(id, row) ==
  /\ leg[id] = "stream" /\ row \in events[id]
  /\ \A r \in events[id] : modified[r] >= modified[row]
  /\ replica' = [replica EXCEPT ![row] = modified[row]]
  /\ checkpoint' = [checkpoint EXCEPT ![id] = modified[row]]
  /\ events' = [events EXCEPT ![id] = @ \ {row}]
  /\ UNCHANGED <<pageVars, modified, leg, visits, reloads, fails, writes>>

(* The channel is lost with what was on it; joined again, it resyncs.      *)
Drop(id) ==
  /\ leg[id] = "stream" /\ fails < MaxFails
  /\ events' = [events EXCEPT ![id] = {}]
  /\ leg' = [leg EXCEPT ![id] = "lost"]
  /\ fails' = fails + 1
  /\ UNCHANGED <<pageVars, dataVars, visits, reloads, writes>>

Rejoin(id) ==
  /\ leg[id] = "lost"
  /\ leg' = [leg EXCEPT ![id] = "resync"]
  /\ UNCHANGED <<pageVars, dataVars, events, visits, reloads, fails, writes>>

ScopeNext ==
  \/ \E c \in Checklist, f \in FieldSet : Visit(c, f)
  \/ Leave
  \/ DatabaseOpens
  \/ DatabaseFails
  \/ \E u \in Crew : Reload(u)
  \/ \E r \in SyncRow : ServerWrites(r)
  \/ \E id \in Identifiers : Resync(id)
  \/ \E id \in Identifiers, r \in SyncRow : Deliver(id, r)
  \/ \E id \in Identifiers : Drop(id)
  \/ \E id \in Identifiers : Rejoin(id)

(* The page and the library always answer; the channel is always rejoined. *)
CatchUpStep ==
  \/ DatabaseOpens
  \/ \E id \in Identifiers : Resync(id) \/ Rejoin(id) \/ \E r \in SyncRow : Deliver(id, r)

ScopeSpec == ScopeInit /\ [][ScopeNext]_scopeVars /\ WF_scopeVars(CatchUpStep)

-----------------------------------------------------------------------------
Handles == [scope : Scopes, state : {"opening", "live", "cancelled", "rejected"}]

(* The type of every variable.                                             *)
ScopeTypeOK ==
  /\ crew \in Crew
  /\ database \in {"none", "creating", "ready"}
  /\ handles \in Seq(Handles)
  /\ openScopes \in [Scopes -> 0..Len(handles)]
  /\ fillEntry \in [Checklist -> 0..Len(handles)]
  /\ closing \subseteq Checklist \X (1..Len(handles))
  /\ modified \in [SyncRow -> 0..MaxWrites] /\ replica \in [SyncRow -> 0..MaxWrites]
  /\ checkpoint \in [Identifiers -> 0..MaxWrites]
  /\ leg \in [Identifiers -> {"off", "resync", "stream", "lost"}]
  /\ events \in [Identifiers -> SUBSET SyncRow]
  /\ visits \in 0..MaxVisits /\ reloads \in 0..MaxReloads
  /\ fails \in 0..MaxFails /\ writes \in 0..MaxWrites

(* The page's entries and the registry never disagree, whatever order the  *)
(* opens, the closes, the database and its failures come in: an open       *)
(* checklist holds a handle that is not dead and that the registry also    *)
(* holds (findings F-1 and F-C of bootstrap.js and fillSyncClose), and a   *)
(* handle nobody holds is cancelled or has its cancel waiting.             *)
RegistryAgrees ==
  /\ \A c \in Checklist : fillEntry[c] # 0 =>
       LET h == handles[fillEntry[c]]
       IN  h.state \in {"opening", "live"} /\ openScopes[h.scope] = fillEntry[c]
  /\ \A i \in DOMAIN handles : handles[i].state \in {"opening", "live"} =>
       LET c == handles[i].scope.checklist
       IN  openScopes[handles[i].scope] = i /\ (fillEntry[c] = i \/ <<c, i>> \in closing)
  /\ database = "ready" => closing = {}

(* A replication that has pulled and has nothing on its way has given the  *)
(* phone the latest version of every row of its scope its user may read:   *)
(* no checkpoint of another scope or of another crew member of the phone   *)
(* has moved past one, and the live leg lets through what the pull would   *)
(* (scopeFingerprint, scopePlanFor, realtimeFilterFor).                    *)
ScopePulledWhole ==
  \A id \in Identifiers : leg[id] = "stream" /\ events[id] = {} =>
    \A r \in SyncRow : crew \in r.readers /\ InFilter(id, r) => replica[r] = modified[r]

(* Whoever opens a checklist gets an entry, on a handle that may still     *)
(* live, whatever failed before: a database that could not be opened once  *)
(* is not for ever (ensureDatabase and openSyncScope evict what was        *)
(* rejected, else every later visit joins it and loses its entry).         *)
RetryReopens ==
  [][\A c \in Checklist, f \in FieldSet : Visit(c, f) => fillEntry'[c] # 0]_scopeVars

(* An open checklist is read from the replica in the end, unless its entry *)
(* goes: its handle is not one that an earlier close has cancelled.        *)
Reading(c) ==
  fillEntry[c] # 0 /\
    \A id \in IdentifiersOf(handles[fillEntry[c]].scope) : leg[id] = "stream" /\ events[id] = {}

OpenedIsRead == \A c \in Checklist : fillEntry[c] # 0 ~> fillEntry[c] = 0 \/ Reading(c)
=============================================================================
