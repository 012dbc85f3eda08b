---------------------------- MODULE MCOpsJournal ----------------------------
(* Two devices of one account with a checklist of one field open.          *)
EXTENDS OpsJournal

CONSTANTS q, w1, w2

TwoDevices == {1, 2}
=============================================================================
