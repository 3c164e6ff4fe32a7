------------------------- MODULE RateTransaction --------------------------
(***************************************************************************)
(* What a rate change promises, without protocol, files or crashes: each   *)
(* transaction is decided once; until then it may move the sensor's rate;  *)
(* failed-safe is only decided of one the sensor does not obey; and after  *)
(* the decision the transaction never moves the sensor again, unless the   *)
(* decision was rollback-failed, which promises nothing.                   *)
(***************************************************************************)
CONSTANTS Txn, Rate, None

VARIABLES
  outcome,  \* per transaction, "open" until decided
  rate,     \* the rate the sensor runs at
  owner     \* whose doing that is; None: its own

vars == <<outcome, rate, owner>>

Outcome == {"committed", "failed-safe", "rolled-back", "rollback-failed"}

Init ==
  /\ outcome = [t \in Txn |-> "open"]
  /\ rate \in Rate
  /\ owner = None

Move(t, hz) ==
  /\ outcome[t] \in {"open", "rollback-failed"}
  /\ rate' = hz /\ owner' = t
  /\ UNCHANGED outcome

Drift(hz) ==
  /\ rate' = hz /\ owner' = None
  /\ UNCHANGED outcome

Decide(t, o) ==
  /\ outcome[t] = "open"
  /\ o = "failed-safe" => owner # t
  /\ outcome' = [outcome EXCEPT ![t] = o]
  /\ UNCHANGED <<rate, owner>>

Next ==
  \/ \E t \in Txn, hz \in Rate : Move(t, hz)
  \/ \E hz \in Rate : Drift(hz)
  \/ \E t \in Txn, o \in Outcome : Decide(t, o)

Spec == Init /\ [][Next]_vars
=============================================================================
