------------------------------ MODULE SeatPool ------------------------------
(***************************************************************************)
(* What the admission service promises about the seats of one batch        *)
(* schedule, with no calls, transactions or locks: a seat is given only    *)
(* while the pool has one that is neither booked nor held back, a hold     *)
(* set never takes a seat already booked, and only a set, or a release by  *)
(* a number somebody asked for, moves a hold.  Module Seats is the         *)
(* detailed specification.                                                 *)
(***************************************************************************)
EXTENDS Integers

CONSTANT Editable     \* TRUE: mode and capacities may be edited

NoCap == -2           \* a null capacity column: no limit
Modes == {"ONLINE", "OFFLINE", "HYBRID"}
Pools == {"ALL", "ONLINE", "OFFLINE"}      \* ALL: the whole schedule
Deliveries == {"unset", "ONLINE", "OFFLINE"}
Caps == Int

VARIABLES mode, cap, held, booked,
          asked        \* the numbers of seats asked for so far

vars == <<mode, cap, held, booked, asked>>

InForce(m) == IF m = "HYBRID" THEN {"ONLINE", "OFFLINE"} ELSE {"ALL"}

HasRoom(p) == cap[p] = NoCap \/ booked[p] < cap[p] - held[p]

Init == /\ mode \in Modes
        /\ cap \in [Pools -> Caps]
        /\ held = [p \in Pools |-> 0]
        /\ booked = [p \in Pools |-> 0]
        /\ asked = {0}

(* An admission for delivery d takes a seat of the pool in force. *)
Book(d) == /\ LET p == IF mode = "HYBRID" THEN d ELSE "ALL"
              IN p \in Pools /\ HasRoom(p)
           /\ booked' = [p \in Pools |->
                           IF p \in {"ALL", d} THEN booked[p] + 1
                                               ELSE booked[p]]
           /\ UNCHANGED <<mode, cap, held, asked>>

(* Deleting a fee plan gives its seat back. *)
Unbook(d) == /\ booked' = [p \in Pools |->
                             IF p \in {"ALL", d} THEN booked[p] - 1
                                                 ELSE booked[p]]
             /\ \A p \in Pools : booked'[p] >= 0
             /\ UNCHANGED <<mode, cap, held, asked>>

(* A hold may be set to anything that leaves the booked seats alone. *)
SetHold == /\ held' \in [Pools -> Nat]
           /\ \A p \in Pools : held'[p] # held[p] =>
                /\ p \in InForce(mode)
                /\ cap[p] # NoCap
                /\ cap[p] - held'[p] >= booked[p]
           /\ UNCHANGED <<mode, cap, booked, asked>>

(* Any whole number may be asked for. *)
Ask == /\ asked \subseteq asked' /\ asked' \subseteq Int
       /\ UNCHANGED <<mode, cap, held, booked>>

(* Releasing takes what was asked for off the hold of a single pool in     *)
(* force, never below zero; a negative number raises the hold.             *)
Release == /\ \E p \in InForce(mode) : \E n \in asked :
                /\ n <= held[p]
                /\ held' = [held EXCEPT ![p] = @ - n]
           /\ UNCHANGED <<mode, cap, booked, asked>>

Edit == /\ Editable
        /\ mode' \in Modes
        /\ cap' \in [Pools -> Caps]
        /\ UNCHANGED <<held, booked, asked>>

Next == \/ \E d \in Deliveries : Book(d) \/ Unbook(d)
        \/ SetHold \/ Ask \/ Release \/ Edit

Spec == Init /\ [][Next]_vars
=============================================================================
