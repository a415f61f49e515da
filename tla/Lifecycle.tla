------------------------------ MODULE Lifecycle ------------------------------
(***************************************************************************)
(* What an operator is promised of a mission, seen from its snapshot on    *)
(* disk: a status that ends in cancelled or completed and never leaves     *)
(* them, and a count of confirmed cycles that moves by one, only while the *)
(* mission is active, and completes it exactly at its limit.               *)
(***************************************************************************)
EXTENDS Naturals

CONSTANT Limit

VARIABLES status, confirmed

lifecycleVars == <<status, confirmed>>

Init == status = "active" /\ confirmed = 0

Pause == status = "active" /\ status' = "paused" /\ UNCHANGED confirmed

Resume == status = "paused" /\ status' = "active" /\ UNCHANGED confirmed

Cancel == /\ status \in {"active", "paused"}
          /\ status' = "cancelled" /\ UNCHANGED confirmed

Confirm == /\ status = "active" /\ confirmed < Limit
           /\ confirmed' = confirmed + 1
           /\ status' = IF confirmed' = Limit THEN "completed" ELSE "active"

Next == Pause \/ Resume \/ Cancel \/ Confirm

Spec == Init /\ [][Next]_lifecycleVars
=============================================================================
