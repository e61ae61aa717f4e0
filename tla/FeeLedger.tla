----------------------------- MODULE FeeLedger ------------------------------
(***************************************************************************)
(* What Finance is promised about the instalments of one fee plan: money   *)
(* counts only once Admin has approved it, each approved instalment has    *)
(* brought exactly one receipt, and an approved one is never touched       *)
(* again while its plan exists.  Module FeePlan is the detailed            *)
(* specification; one call at a time, it implements this one.              *)
(***************************************************************************)
EXTENDS Integers

CONSTANT Slots       \* the instalments

VARIABLES life, receipts

vars == <<life, receipts>>

Lives == {"none", "open", "submitted", "paid", "dropped", "gone"}

Init == /\ life \in [Slots -> {"none", "open", "submitted"}]
        /\ receipts = [i \in Slots |-> 0]

Move(i, from, to) == /\ life[i] \in from
                     /\ life' = [life EXCEPT ![i] = to]

Schedule(i) == Move(i, {"none"}, "open") /\ UNCHANGED receipts

Submit(i) == /\ Move(i, {"none", "open", "dropped"}, "submitted")
             /\ UNCHANGED receipts

Approve(i) == /\ Move(i, {"submitted"}, "paid")
              /\ receipts' = [receipts EXCEPT ![i] = @ + 1]

SendBack(i) == /\ \/ Move(i, {"submitted"}, "open")
                  \/ Move(i, {"submitted"}, "dropped")
               /\ UNCHANGED receipts

Remove(i) == Move(i, {"open", "dropped"}, "gone") /\ UNCHANGED receipts

(* Cancelling or refunding the plan waives all that is still open. *)
WaiveOpen == /\ life' = [i \in Slots |->
                           IF life[i] = "open" THEN "dropped" ELSE life[i]]
             /\ UNCHANGED receipts

(* Deleting the plan takes its instalments along. *)
DeletePlan == /\ life' = [i \in Slots |->
                            IF life[i] = "none" THEN "none" ELSE "gone"]
              /\ UNCHANGED receipts

Next == \/ \E i \in Slots : Schedule(i) \/ Submit(i) \/ Approve(i)
                             \/ SendBack(i) \/ Remove(i)
        \/ WaiveOpen \/ DeletePlan

Spec == Init /\ [][Next]_vars
=============================================================================
