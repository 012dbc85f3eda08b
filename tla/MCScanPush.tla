----------------------------- MODULE MCScanPush -----------------------------
(* Two phones, or one with two codes in its queue; the door is the online one. *)
EXTENDS ScanPush

CONSTANTS p1, p2, u1, u2, a1, a2, c1, c2

\* Each phone is signed in as a user of its own.
OwnUsers == [p \in Phone |-> IF p = p1 THEN u1 ELSE u2]

\* Both phones are signed in as the same user.
SharedUser == [p \in Phone |-> u1]
=============================================================================
