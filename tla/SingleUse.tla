----------------------------- MODULE SingleUse -----------------------------
(***************************************************************************)
(* What redemption promises, whatever door an attempt comes through: a     *)
(* code is burned at most once, an attempt is told that it won only if it  *)
(* is the one that burned the code, and the one that burned it is never    *)
(* told that it lost.                                                      *)
(***************************************************************************)
CONSTANTS Code, Attempt, Outsider, None
VARIABLES winner,   \* the attempt (or a client that is no attempt) that burned a code
          target,   \* the code an attempt names, once it is made
          answer    \* what the attempt has been told

vars == <<winner, target, answer>>

Answers == {"none", "won", "lost"}

Init ==
  /\ winner = [c \in Code |-> None]
  /\ target = [a \in Attempt |-> None]
  /\ answer = [a \in Attempt |-> "none"]

Make(a, c) ==
  /\ target[a] = None
  /\ target' = [target EXCEPT ![a] = c]
  /\ UNCHANGED <<winner, answer>>

Burn(a) ==
  /\ target[a] # None
  /\ winner[target[a]] = None
  /\ answer[a] = "none"
  /\ winner' = [winner EXCEPT ![target[a]] = a]
  /\ UNCHANGED <<target, answer>>

OutsideBurn(c) ==
  /\ winner[c] = None
  /\ winner' = [winner EXCEPT ![c] = Outsider]
  /\ UNCHANGED <<target, answer>>

Win(a) ==
  /\ target[a] # None
  /\ winner[target[a]] = a
  /\ answer[a] = "none"
  /\ answer' = [answer EXCEPT ![a] = "won"]
  /\ UNCHANGED <<winner, target>>

Lose(a) ==
  /\ target[a] # None
  /\ winner[target[a]] # a
  /\ answer[a] = "none"
  /\ answer' = [answer EXCEPT ![a] = "lost"]
  /\ UNCHANGED <<winner, target>>

Next ==
  \/ \E a \in Attempt, c \in Code : Make(a, c)
  \/ \E a \in Attempt : Burn(a) \/ Win(a) \/ Lose(a)
  \/ \E c \in Code : OutsideBurn(c)

Spec == Init /\ [][Next]_vars
=============================================================================
