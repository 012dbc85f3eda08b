------------------------------- MODULE Codes -------------------------------
(***************************************************************************)
(* The public.codes table and the redeem() RPC over it, the arbiter that   *)
(* both doors of the system share: the push replica of an offline phone    *)
(* (module ScanPush) and HQ's arbitration endpoint (module Redemption).    *)
(*                                                                         *)
(* A code row is what the two doors tell apart of it: who redeemed it, and *)
(* how old it is. Expiry is a comparison of expires_at with now() in the   *)
(* source; here a code is "live", then "expired", then so long expired     *)
(* that it is "outside" the two-day window the replicas pull.              *)
(***************************************************************************)
CONSTANTS Code,       \* rows of public.codes
          Device,     \* the values redeem() is given as p_device
          Caller,     \* who may call redeem(); a history of who burned what
          None        \* SQL null

VARIABLES redeemedBy, \* codes.redeemed_by
          burner,     \* history: the caller whose call burned the code
          age

codesVars == <<redeemedBy, burner, age>>

Ages == {"live", "expired", "outside"}

CodesTypeOK ==
  /\ redeemedBy \in [Code -> Device \cup {None}]
  /\ burner \in [Code -> Caller \cup {None}]
  /\ age \in [Code -> Ages]

CodesInit ==
  /\ redeemedBy = [c \in Code |-> None]
  /\ burner = [c \in Code |-> None]
  /\ age = [c \in Code |-> "live"]

\* A bug: the UPDATE forgets its redeemed_at IS NULL.
OnlyAgeChecked(c) == age[c] = "live"

\* The predicate of the conditional UPDATE.
Burnable(c) ==
  /\ redeemedBy[c] = None
  /\ age[c] = "live"

\* A bug: the reason is read off the expiry before the redemption.
ExpiryFirst(c) ==
  IF c \notin Code THEN "not_found"
  ELSE IF Burnable(c) THEN "ok"
  ELSE IF age[c] # "live" THEN "expired"
  ELSE "already_used"

\* What redeem() answers: (true, null), or (false, reason).
Verdict(c) ==
  IF c \notin Code THEN "not_found"
  ELSE IF Burnable(c) THEN "ok"
  ELSE IF redeemedBy[c] # None THEN "already_used"
  ELSE "expired"

\* The effect of redeem(c, d) called by k: one atomic conditional UPDATE.
Redeem(c, d, k) ==
  IF Verdict(c) = "ok"
  THEN /\ redeemedBy' = [redeemedBy EXCEPT ![c] = d]
       /\ burner' = [burner EXCEPT ![c] = k]
  ELSE UNCHANGED <<redeemedBy, burner>>

\* Time passes for a code: it expires, and two days later it leaves the window.
GrowOlder(c) ==
  /\ age[c] # "outside"
  /\ age' = [age EXCEPT ![c] = IF @ = "live" THEN "expired" ELSE "outside"]
  /\ UNCHANGED <<redeemedBy, burner>>
=============================================================================
