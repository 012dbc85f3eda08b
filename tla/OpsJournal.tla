----------------------------- MODULE OpsJournal -----------------------------
(***************************************************************************)
(* The answers of an open checklist on the devices of one account, kept in *)
(* step by ops: a device shows an answer at once and posts it with its     *)
(* Lamport clock (submitOp of sync.js); the server writes it, compares the *)
(* op with the last one of the field (CheckLWW) and records and broadcasts *)
(* it, or answers 409 with the winner; devices apply what their socket     *)
(* delivers, and read what they missed when it opens again (wsCatchUp).    *)
(*                                                                         *)
(* Device ids are numbers, for the server breaks ties by their order.  An  *)
(* op is [device, field, value, ts].                                       *)
(***************************************************************************)
EXTENDS Integers, Sequences, FiniteSets, FiniteSetsExt, SequencesExt

CONSTANTS
  Devices, ChecklistFields, Written,
  Cleared,    \* no answer
  MaxOps,     \* bound: answers given
  MaxDrops    \* bound: sockets that close

Contents == Written \cup {Cleared}

VARIABLES
  screen,     \* per device, what it shows in each field
  clock,      \* per device, its Lamport clock
  post,       \* per device, its op on the way to the server: [op, stage], or none
  connected,  \* devices whose socket is open
  inbox,      \* per device, the ops its socket has yet to deliver
  missed,     \* per device, the answer to its catch-up, or none
  row,        \* server: the stored answer of each field
  lamport,    \* server: the stamp of that row, 0 if there is none
  ops,        \* server: the journal, in the order of the commits
  told,       \* history: the devices whose last op was refused and shown
  drops       \* history: what the bound counts

opsVars == <<screen, clock, post, connected, inbox, missed, row, lamport, ops, told, drops>>

Nothing == <<>>

OpsInit ==
  /\ screen = [d \in Devices |-> [f \in ChecklistFields |-> Cleared]]
  /\ clock = [d \in Devices |-> 0] /\ post = [d \in Devices |-> Nothing]
  /\ connected = Devices /\ inbox = [d \in Devices |-> <<>>]
  /\ missed = [d \in Devices |-> Nothing]
  /\ row = [f \in ChecklistFields |-> Cleared] /\ lamport = [f \in ChecklistFields |-> 0]
  /\ ops = <<>> /\ told = {} /\ drops = 0

-----------------------------------------------------------------------------
(* LamportClock.receive                                                    *)
Received(ts, seen) == Max({ts, seen}) + 1

(* applyOp: a device's own op is on its screen already.                    *)
Applied(d, shown, op) == IF op.device = d THEN shown ELSE [shown EXCEPT ![op.field] = op.value]

(* submitOp, of a field that has no save under way.                        *)
Answer(d, f, v) ==
  /\ post[d] = Nothing /\ v # screen[d][f]
  /\ Len(ops) + Cardinality({e \in Devices : post[e] # Nothing}) < MaxOps
  /\ screen' = [screen EXCEPT ![d][f] = v]
  /\ clock' = [clock EXCEPT ![d] = @ + 1]
  /\ post' = [post EXCEPT ![d] =
                <<[device |-> d, field |-> f, value |-> v, ts |-> clock'[d]], "asked">>]
  /\ told' = told \ {d}
  /\ UNCHANGED <<connected, inbox, missed, row, lamport, ops, drops>>

-----------------------------------------------------------------------------
At(d, stage) == post[d] # Nothing /\ post[d][2] = stage
OpOf(d) == post[d][1]

(* The router's saveResponse, in a transaction of its own: an answer is    *)
(* stored, or its row deleted and its stamp with it.                       *)
SaveResponse(d) ==
  /\ At(d, "asked")
  /\ LET op == OpOf(d)
     IN  /\ row' = [row EXCEPT ![op.field] = op.value]
         /\ lamport' = [lamport EXCEPT ![op.field] = IF op.value = Cleared THEN 0 ELSE @]
  /\ post' = [post EXCEPT ![d][2] = "saved"]
  /\ UNCHANGED <<screen, clock, connected, inbox, missed, ops, told, drops>>

(* The newest op of the field with the stamp of its row.                   *)
Rivals(f) == {i \in DOMAIN ops : ops[i].field = f /\ ops[i].ts = lamport[f]}
Winner(f) == ops[Max(Rivals(f))]

(* CheckLWW: without a row or an op of its stamp there is nothing to lose  *)
(* to, and of equal stamps the higher device id wins.                      *)
Loses(op) ==
  /\ row[op.field] # Cleared /\ Rivals(op.field) # {}
  /\ \/ op.ts < lamport[op.field]
     \/ op.ts = lamport[op.field] /\ op.device <= Winner(op.field).device

(* InsertOpAndNotify and the broadcast of the listener and the hub.        *)
RecordOp(d) ==
  /\ At(d, "saved") /\ ~Loses(OpOf(d))
  /\ LET op == OpOf(d)
     IN  /\ lamport' = [lamport EXCEPT ![op.field] = IF row[op.field] = Cleared THEN @ ELSE op.ts]
         /\ ops' = Append(ops, op)
         /\ inbox' = [e \in Devices |-> IF e \in connected THEN Append(inbox[e], op) ELSE inbox[e]]
  /\ post' = [post EXCEPT ![d] = Nothing]
  /\ UNCHANGED <<screen, clock, connected, missed, row, told, drops>>

(* The 409: the device shows the winner through applyOp.                   *)
Refused(d) ==
  /\ At(d, "saved") /\ Loses(OpOf(d))
  /\ screen' = [screen EXCEPT ![d] = Applied(d, @, Winner(OpOf(d).field))]
  /\ told' = told \cup {d}
  /\ post' = [post EXCEPT ![d] = Nothing]
  /\ UNCHANGED <<clock, connected, inbox, missed, row, lamport, ops, drops>>

-----------------------------------------------------------------------------
(* onmessage                                                               *)
Deliver(d) ==
  /\ inbox[d] # <<>>
  /\ clock' = [clock EXCEPT ![d] = Received(Head(inbox[d]).ts, @)]
  /\ screen' = [screen EXCEPT ![d] = Applied(d, @, Head(inbox[d]))]
  /\ inbox' = [inbox EXCEPT ![d] = Tail(@)]
  /\ UNCHANGED <<post, connected, missed, row, lamport, ops, told, drops>>

Disconnect(d) ==
  /\ d \in connected /\ drops < MaxDrops
  /\ drops' = drops + 1
  /\ connected' = connected \ {d} /\ inbox' = [inbox EXCEPT ![d] = <<>>]
  /\ UNCHANGED <<screen, clock, post, missed, row, lamport, ops, told>>

(* wsConnect, whose onopen asks for the ops past the device's clock.       *)
Reconnect(d) ==
  /\ d \notin connected
  /\ connected' = connected \cup {d}
  /\ missed' = [missed EXCEPT ![d] =
                  SortSeq(SelectSeq(ops, LAMBDA op : op.ts > clock[d]),
                          LAMBDA op, other : op.ts < other.ts)]
  /\ UNCHANGED <<screen, clock, post, inbox, row, lamport, ops, told, drops>>

(* wsCatchUp, an op after the other.                                       *)
CatchUp(d) ==
  /\ missed[d] # Nothing
  /\ clock' = [clock EXCEPT ![d] = Received(Head(missed[d]).ts, @)]
  /\ screen' = [screen EXCEPT ![d] = Applied(d, @, Head(missed[d]))]
  /\ missed' = [missed EXCEPT ![d] = Tail(@)]
  /\ UNCHANGED <<post, connected, inbox, row, lamport, ops, told, drops>>

OpsNext ==
  \E d \in Devices :
    \/ \E f \in ChecklistFields, v \in Contents : Answer(d, f, v)
    \/ SaveResponse(d) \/ RecordOp(d) \/ Refused(d) \/ Deliver(d)
    \/ Disconnect(d) \/ Reconnect(d) \/ CatchUp(d)

OpsSpec == OpsInit /\ [][OpsNext]_opsVars

-----------------------------------------------------------------------------
(* A device that lost a write to another and has heard of everything shows *)
(* what is stored: the claim of AC-9 of PRD-data-integrity.md, "the losing *)
(* device renders the winning value ... the rendered value equals the      *)
(* stored one".  It is false: the router stored the answer that CheckLWW   *)
(* then refused.                                                           *)
Quiet ==
  /\ connected = Devices
  /\ \A d \in Devices : post[d] = Nothing /\ inbox[d] = <<>> /\ missed[d] = Nothing

LoserShowsStored == Quiet => \A d \in told : screen[d] = row
=============================================================================
