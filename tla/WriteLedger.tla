----------------------------- MODULE WriteLedger -----------------------------
(***************************************************************************)
(* What the write queue promises about effects on the destination: there   *)
(* is no effect without the operator's authority, a success is reported    *)
(* only for an effect that exists, a rejected action never has one, and    *)
(* neither verdict is ever taken back.                                     *)
(***************************************************************************)
CONSTANT Ids

VARIABLES authorised, effects, succeeded, rejected

ledgerVars == <<authorised, effects, succeeded, rejected>>

Init == authorised = {} /\ effects = {} /\ succeeded = {} /\ rejected = {}

\* The operator approves the exact intention.
Authorise(i) ==
  /\ i \notin authorised \cup rejected
  /\ authorised' = authorised \cup {i}
  /\ UNCHANGED <<effects, succeeded, rejected>>

\* The operator rejects it, approved or not, before it can have an effect.
Reject(i) ==
  /\ i \notin effects \cup rejected
  /\ rejected' = rejected \cup {i} /\ authorised' = authorised \ {i}
  /\ UNCHANGED <<effects, succeeded>>

\* The destination commits the record.
Effect(i) ==
  /\ i \in authorised \ effects
  /\ effects' = effects \cup {i}
  /\ UNCHANGED <<authorised, succeeded, rejected>>

\* The runner records the receipt.
Report(i) ==
  /\ i \in effects \ succeeded
  /\ succeeded' = succeeded \cup {i}
  /\ UNCHANGED <<authorised, effects, rejected>>

Next == \E i \in Ids : Authorise(i) \/ Reject(i) \/ Effect(i) \/ Report(i)

Spec == Init /\ [][Next]_ledgerVars
=============================================================================
