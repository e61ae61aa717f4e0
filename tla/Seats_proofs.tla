---------------------------- MODULE Seats_proofs ----------------------------
(***************************************************************************)
(* Proofs about module Seats for every set of calls and every bound:       *)
(* the types, the row lock, that no seat is oversold while the row is not  *)
(* edited and no negative number of seats is asked for, and that the       *)
(* locked transactions implement SeatPool.                                 *)
(***************************************************************************)
EXTENDS Seats, FiniteSetTheorems, TLAPS

(* Exactly the calls inside a transaction hold the row. *)
LockInv ==
  /\ \A a \in Admissions : adm[a].pc \in {"locked", "reserved"} <=> lock = a
  /\ \A c \in Answers : ans[c].pc = "locked" <=> lock = c
  /\ \A h \in HoldCalls : hold[h] = "locked" <=> lock = h

(* A seat that was free when it was counted is free until it is taken. *)
ReservedInv ==
  \A a \in Admissions :
    /\ adm[a].pc = "reserved" => SeatFree(a)
    /\ adm[a].pc # "done" => plan[a] = "none"

(* A request not yet made asks for nothing. *)
AskedInv ==
  \A q \in Requests : request[q].status = "none" => request[q].n = 0

IInv == TypeOK /\ LockInv /\ ReservedInv /\ AskedInv

-----------------------------------------------------------------------------
(* What the columns and the requests hold are whole numbers.               *)

LEMMA Numbers == CapColumn \subseteq Int /\ Wanted \cup {0} \subseteq Int
<1>1. Capacities \subseteq Int
  <2>1. \A x \in Capacities : x \in Nat \/ x = -1
    BY NumbersTyped
  <2>2. QED
    BY <2>1
<1>2. Wanted \subseteq Int
  BY NumbersTyped
<1>3. QED
  BY <1>1, <1>2 DEF CapColumn, NoCap

LEMMA RowNumbers ==
  ASSUME TypeOK
  PROVE  /\ \A p \in Pools : cap[p] \in Int /\ held[p] \in Nat
         /\ \A q \in Requests : request[q].n \in Int
<1>1. \A p \in Pools : cap[p] \in CapColumn /\ held[p] \in Nat
  BY DEF TypeOK
<1>2. \A q \in Requests : request[q].n \in Wanted \cup {0}
  BY DEF TypeOK, SeatHoldRequest
<1>3. QED
  BY <1>1, <1>2, Numbers

-----------------------------------------------------------------------------
(* The counts are finite, and one plan more or less moves them by one. *)

LEMMA BookedType ==
  ASSUME NEW p
  PROVE  Booked(p) \in Nat
<1>1. IsFiniteSet(Holders(p))
  BY CallsFinite, FS_Subset DEF Holders
<1>2. QED
  BY <1>1, FS_CardinalityType DEF Booked

LEMMA BookedSame ==
  ASSUME UNCHANGED plan, NEW p
  PROVE  Booked(p)' = Booked(p)
BY DEF Booked, Holders

(* A new plan with delivery d counts in ALL and in d. *)
LEMMA BookedAdd ==
  ASSUME TypeOK, NEW a \in Admissions, plan[a] = "none", NEW d \in Deliveries,
         plan' = [plan EXCEPT ![a] = d], NEW p \in Pools
  PROVE  Booked(p)' = IF p \in {"ALL", d} THEN Booked(p) + 1 ELSE Booked(p)
<1>1. IsFiniteSet(Holders(p)) /\ a \notin Holders(p)
  BY CallsFinite, FS_Subset DEF Holders, Pools
<1>2. CASE p \in {"ALL", d}
  <2>1. Holders(p)' = Holders(p) \cup {a}
    BY <1>2 DEF Holders, Pools, Deliveries, TypeOK
  <2>2. QED
    BY <1>1, <1>2, <2>1, FS_AddElement DEF Booked
<1>3. CASE p \notin {"ALL", d}
  <2>1. Holders(p)' = Holders(p)
    BY <1>1, <1>3 DEF Holders, Pools, Deliveries, TypeOK
  <2>2. QED
    BY <1>3, <2>1 DEF Booked
<1>4. QED
  BY <1>2, <1>3

LEMMA BookedRemove ==
  ASSUME TypeOK, NEW a \in Admissions, plan[a] # "none",
         plan' = [plan EXCEPT ![a] = "none"], NEW p \in Pools
  PROVE  Booked(p)' = IF p \in {"ALL", plan[a]} THEN Booked(p) - 1
                                                ELSE Booked(p)
<1>1. IsFiniteSet(Holders(p))
  BY CallsFinite, FS_Subset DEF Holders
<1>2. CASE p \in {"ALL", plan[a]}
  <2>1. Holders(p)' = Holders(p) \ {a} /\ a \in Holders(p)
    BY <1>2 DEF Holders, Pools, Deliveries, TypeOK
  <2>2. QED
    BY <1>1, <1>2, <2>1, FS_RemoveElement DEF Booked
<1>3. CASE p \notin {"ALL", plan[a]}
  <2>1. Holders(p)' = Holders(p)
    BY <1>3 DEF Holders, Pools, Deliveries, TypeOK
  <2>2. QED
    BY <1>3, <2>1 DEF Booked
<1>4. QED
  BY <1>2, <1>3

-----------------------------------------------------------------------------
(* A call that only moves on keeps its type. *)

LEMMA AdmMoves ==
  ASSUME NEW f \in [Admissions -> AdmCall], NEW a \in Admissions,
         NEW v \in {"idle", "read", "locked", "reserved", "done", "failed"}
  PROVE  [f EXCEPT ![a].pc = v] \in [Admissions -> AdmCall]
<1>1. [f[a] EXCEPT !.pc = v] \in AdmCall
  BY DEF AdmCall
<1>2. QED
  BY <1>1

LEMMA AnsMoves ==
  ASSUME NEW f \in [Answers -> AnsCall], NEW c \in Answers,
         NEW v \in {"idle", "checked", "locked", "done", "failed"}
  PROVE  [f EXCEPT ![c].pc = v] \in [Answers -> AnsCall]
<1>1. [f[c] EXCEPT !.pc = v] \in AnsCall
  BY DEF AnsCall
<1>2. QED
  BY <1>1

LEMMA BlankType ==
  ASSUME NEW v \in {"idle", "read", "checked", "done", "failed"}
  PROVE  Blank(v) \in EditCall
BY DEF Blank, EditCall, CapColumn, Pools, Modes, Keep

(* Every variable keeps its type: in particular no release takes a hold    *)
(* below zero and no column leaves its range.                              *)
THEOREM TypeCorrect == Spec => []TypeOK
<1> USE DEF TypeOK, row
<1>1. Init => TypeOK
  BY BlankType DEF Init, AdmCall, AnsCall, HoldCall, CapColumn,
                                 Pools, Modes, Deliveries, SeatHoldRequest
<1>2. TypeOK /\ [Next]_vars => TypeOK'
  <2> SUFFICES ASSUME TypeOK, [Next]_vars PROVE TypeOK'
    OBVIOUS
  <2>1. ASSUME NEW a \in Admissions, ReadSchedule(a) PROVE TypeOK'
    <3>1. CASE adm' = [adm EXCEPT ![a].pc = "failed"]
      BY <2>1, <3>1, AdmMoves DEF ReadSchedule
    <3>2. CASE \E d \in Deliveries :
                 adm' = [adm EXCEPT ![a] = [pc |-> "read", dm |-> d]]
      BY <2>1, <3>2 DEF ReadSchedule, AdmCall
    <3>3. QED
      BY <2>1, <3>1, <3>2 DEF ReadSchedule, Deliveries
  <2>2. ASSUME NEW a \in Admissions, LockForSeat(a) PROVE TypeOK'
    BY <2>2, AdmMoves DEF LockForSeat
  <2>3. ASSUME NEW a \in Admissions, CountSeats(a) PROVE TypeOK'
    <3>1. /\ lock' \in {lock, "free"}
          /\ UNCHANGED <<row, plan, request, released, ans, hold, edit>>
          /\ \E v \in {"reserved", "failed"} : adm' = [adm EXCEPT ![a].pc = v]
      BY <2>3 DEF CountSeats, RowReleased
    <3>2. adm' \in [Admissions -> AdmCall]
      <4>1. PICK v \in {"reserved", "failed"} : adm' = [adm EXCEPT ![a].pc = v]
        BY <3>1
      <4>2. [adm EXCEPT ![a].pc = v] \in [Admissions -> AdmCall]
        BY AdmMoves
      <4>3. QED
        BY <4>1, <4>2
    <3>3. QED
      BY <3>1, <3>2
  <2>4. ASSUME NEW a \in Admissions, CommitAdmission(a) PROVE TypeOK'
    <3>1. adm[a].dm \in Deliveries
      BY DEF AdmCall
    <3>2. QED
      BY <2>4, <3>1, AdmMoves DEF CommitAdmission, RowReleased
  <2>5. ASSUME NEW a \in Admissions, DeletePlan(a) PROVE TypeOK'
    BY <2>5 DEF DeletePlan, calls
  <2>6. ASSUME NEW q \in Requests, CreateSeatHoldRequest(q) PROVE TypeOK'
    BY <2>6 DEF CreateSeatHoldRequest, calls, Deliveries, SeatHoldRequest
  <2>7. ASSUME NEW c \in Answers, ReadRequest(c) PROVE TypeOK'
    BY <2>7 DEF ReadRequest, AnsCall
  <2>8. ASSUME NEW c \in Answers, LockForRelease(c) PROVE TypeOK'
    BY <2>8, AnsMoves DEF LockForRelease
  <2>9. ASSUME NEW c \in Answers, ApproveSeatHoldRequest(c) PROVE TypeOK'
    <3> DEFINE q == ans[c].req
               p == ReleasePool(q)
    <3>1. /\ q \in Requests /\ p \in Pools
          /\ request[q].n \in Int /\ held[p] \in Nat
      BY RowNumbers DEF ReleasePool, AnsCall, Pools
    <3>2. /\ lock' = "free"
          /\ UNCHANGED <<mode, cap, plan, adm, hold, edit>>
          /\ \E v \in {"done", "failed"} : ans' = [ans EXCEPT ![c].pc = v]
      BY <2>9 DEF ApproveSeatHoldRequest, RowReleased
    <3>2a. ans' \in [Answers -> AnsCall]
      <4>1. PICK v \in {"done", "failed"} : ans' = [ans EXCEPT ![c].pc = v]
        BY <3>2
      <4>2. [ans EXCEPT ![c].pc = v] \in [Answers -> AnsCall]
        BY AnsMoves
      <4>3. QED
        BY <4>1, <4>2
    <3>3. CASE ~StillHeld(q)
      BY <2>9, <3>2, <3>2a, <3>3 DEF ApproveSeatHoldRequest
    <3>4. CASE StillHeld(q)
      <4>1. held[p] - request[q].n \in Nat
        BY <3>1, <3>4 DEF StillHeld
      <4>2. /\ held' = [held EXCEPT ![p] = @ - request[q].n]
            /\ request' = [request EXCEPT ![q].status = "APPROVED"]
            /\ released' = [released EXCEPT ![q] = @ + request[q].n]
        BY <2>9, <3>4 DEF ApproveSeatHoldRequest
      <4>3. held' \in [Pools -> Nat]
        BY <3>1, <4>1, <4>2
      <4>4. /\ request' \in [Requests -> SeatHoldRequest]
            /\ released' \in [Requests -> Int]
        BY <3>1, <4>2 DEF SeatHoldRequest
      <4>5. QED
        BY <3>2, <3>2a, <4>3, <4>4
    <3>5. QED
      BY <3>3, <3>4
  <2>10. ASSUME NEW c \in Answers, RejectSeatHoldRequest(c) PROVE TypeOK'
    <3>1. ans[c].req \in Requests
      BY DEF AnsCall
    <3>2. request' = [request EXCEPT ![ans[c].req].status = "REJECTED"]
      BY <2>10 DEF RejectSeatHoldRequest
    <3>3. [request[ans[c].req] EXCEPT !.status = "REJECTED"] \in SeatHoldRequest
      BY <3>1 DEF SeatHoldRequest
    <3>4. request' \in [Requests -> SeatHoldRequest]
      BY <3>1, <3>2, <3>3
    <3>5. ans' \in [Answers -> AnsCall]
      BY <2>10, AnsMoves DEF RejectSeatHoldRequest
    <3>6. QED
      BY <2>10, <3>4, <3>5 DEF RejectSeatHoldRequest
  <2>11. ASSUME NEW h \in HoldCalls, LockForHold(h) PROVE TypeOK'
    BY <2>11 DEF LockForHold, HoldCall
  <2>12. ASSUME NEW h \in HoldCalls, SetHeldSeats(h) PROVE TypeOK'
    <3>1. PICK touched \in SUBSET InForce(mode) :
            \/ UNCHANGED held
            \/ \E upd \in [touched -> 0 .. MaxSeats] :
                 held' = [p \in Pools |->
                            IF p \in touched THEN upd[p] ELSE held[p]]
      BY <2>12 DEF SetHeldSeats
    <3>2. held' \in [Pools -> Nat]
      BY <3>1, MaxSeatsNat DEF InForce, Pools, Modes
    <3>3. /\ lock' = "free" /\ hold' \in [HoldCalls -> HoldCall]
          /\ UNCHANGED <<mode, cap, plan, request, released, adm, ans, edit>>
      BY <2>12 DEF SetHeldSeats, RowReleased, HoldCall
    <3>4. QED
      BY <3>2, <3>3
  <2>13. ASSUME Rollback PROVE TypeOK'
    <3>1. /\ \A a \in Admissions : [adm[a] EXCEPT !.pc = "failed"] \in AdmCall
          /\ \A c \in Answers : [ans[c] EXCEPT !.pc = "failed"] \in AnsCall
      BY DEF AdmCall, AnsCall
    <3>2. /\ adm' \in [Admissions -> AdmCall]
          /\ ans' \in [Answers -> AnsCall]
          /\ hold' \in [HoldCalls -> HoldCall]
      BY <2>13, <3>1 DEF Rollback, HoldCall
    <3>3. QED
      BY <2>13, <3>2 DEF Rollback, RowReleased
  <2>14. ASSUME NEW e \in Edits, ReadForEdit(e) PROVE TypeOK'
    BY <2>14, EditorsKnown DEF ReadForEdit, EditCall
  <2>15. ASSUME NEW e \in Edits, CheckEdit(e) PROVE TypeOK'
    <3>1. [edit[e] EXCEPT !.pc = "checked"] \in EditCall
      BY DEF EditCall
    <3>2. edit' \in [Edits -> EditCall]
      BY <2>15, <3>1, BlankType DEF CheckEdit
    <3>3. QED
      BY <2>15, <3>2 DEF CheckEdit
  <2>16. ASSUME NEW e \in Edits, WriteEdit(e) PROVE TypeOK'
    <3>1. \A p \in Pools : NewCap(e, p) \in CapColumn
      BY DEF NewCap, EditCall, CapColumn, Keep, NoCap
    <3>2. mode' \in Modes /\ cap' \in [Pools -> CapColumn]
      BY <2>16, <3>1 DEF WriteEdit, EditCall
    <3>3. edit' \in [Edits -> EditCall]
      BY <2>16, BlankType DEF WriteEdit
    <3>4. UNCHANGED <<held, lock, plan, request, released, adm, ans, hold>>
      BY <2>16 DEF WriteEdit
    <3>5. QED
      BY <3>2, <3>3, <3>4
  <2>17. CASE UNCHANGED vars
    BY <2>17 DEF vars, calls
  <2>18. QED
    BY <2>1, <2>2, <2>3, <2>4, <2>5, <2>6, <2>7, <2>8, <2>9, <2>10, <2>11,
       <2>12, <2>13, <2>14, <2>15, <2>16, <2>17 DEF Next
<1>3. QED
  BY <1>1, <1>2, PTL DEF Spec

-----------------------------------------------------------------------------
(* The row lock does what SELECT ... FOR UPDATE is there for: while an     *)
(* admission goes from its count to its commit, nothing takes the seat it  *)
(* counted.  Deleting a plan in between only frees one more.               *)

LEMMA LockStep ==
  ASSUME TypeOK, LockInv, [Next]_vars
  PROVE  LockInv'
<1> USE CallsDistinct DEF LockInv, TypeOK, RowFree, RowReleased
<1>1. CASE UNCHANGED <<lock, adm, ans, hold>>
  BY <1>1
<1>2. ASSUME NEW a \in Admissions, ReadSchedule(a) PROVE LockInv'
  <2>1. /\ adm[a].pc = "idle" /\ lock # a
        /\ adm'[a].pc \in {"failed", "read"}
        /\ \A b \in Admissions \ {a} : adm'[b] = adm[b]
        /\ UNCHANGED <<lock, ans, hold>>
    BY <1>2 DEF ReadSchedule, AdmCall
  <2>2. QED
    BY <2>1
<1>3. ASSUME NEW a \in Admissions,
             LockForSeat(a) \/ CountSeats(a) \/ CommitAdmission(a)
      PROVE LockInv'
  BY <1>3 DEF LockForSeat, CountSeats, CommitAdmission, AdmCall
<1>4. ASSUME NEW c \in Answers, ReadRequest(c) PROVE LockInv'
  <2>1. /\ ans[c].pc = "idle" /\ lock # c
        /\ ans'[c].pc \in {"checked", "failed"}
        /\ \A b \in Answers \ {c} : ans'[b] = ans[b]
        /\ UNCHANGED <<lock, adm, hold>>
    BY <1>4 DEF ReadRequest, AnsCall
  <2>2. QED
    BY <2>1
<1>5. ASSUME NEW c \in Answers,
             \/ LockForRelease(c) \/ ApproveSeatHoldRequest(c)
             \/ RejectSeatHoldRequest(c)
      PROVE LockInv'
  BY <1>5 DEF LockForRelease, ApproveSeatHoldRequest, RejectSeatHoldRequest,
              AnsCall
<1>6. ASSUME NEW h \in HoldCalls, LockForHold(h) \/ SetHeldSeats(h)
      PROVE LockInv'
  BY <1>6 DEF LockForHold, SetHeldSeats, HoldCall
<1>7. CASE Rollback
  BY <1>7 DEF Rollback
<1>8. QED
  BY <1>1, <1>2, <1>3, <1>4, <1>5, <1>6, <1>7
     DEF Next, vars, calls, DeletePlan, CreateSeatHoldRequest, ReadForEdit,
         CheckEdit, WriteEdit

LEMMA SeatStaysFree ==
  ASSUME TypeOK, NEW a \in Admissions, SeatFree(a), UNCHANGED row,
         adm'[a].dm = adm[a].dm, \A p \in Pools : Booked(p)' <= Booked(p)
  PROVE  SeatFree(a)'
<1> DEFINE p == SeatPoolOf(a)
<1>1. p \in Pools /\ p' = p /\ Bookable(p)' = Bookable(p)
  BY DEF SeatPoolOf, SeatFree, Bookable, row, TypeOK, AdmCall, Pools,
         Deliveries
<1>2. Booked(p) \in Nat /\ Booked(p)' \in Nat
  <2>1. Booked(p) \in Nat
    BY BookedType
  <2>2. \A q \in Pools : IsFiniteSet(Holders(q)')
    BY CallsFinite, FS_Subset DEF Holders
  <2>3. QED
    BY <1>1, <2>1, <2>2, FS_CardinalityType DEF Booked
<1>3. Bookable(p) \in Int
  BY <1>1, RowNumbers DEF Bookable, Larger
<1>4. QED
  BY <1>1, <1>2, <1>3 DEF SeatFree, row

LEMMA ReservedStep ==
  ASSUME TypeOK, LockInv, ReservedInv, [Next]_vars
  PROVE  ReservedInv'
<1> SUFFICES ASSUME NEW a \in Admissions
             PROVE  /\ adm'[a].pc = "reserved" => SeatFree(a)'
                    /\ adm'[a].pc # "done" => plan'[a] = "none"
  BY DEF ReservedInv
<1>0. /\ adm[a].pc = "reserved" => SeatFree(a)
      /\ adm[a].pc # "done" => plan[a] = "none"
  BY DEF ReservedInv
<1>1. CASE UNCHANGED <<row, plan, adm>>
  <2>1. \A p \in Pools : Booked(p)' = Booked(p) /\ Booked(p) \in Nat
    BY <1>1, BookedSame, BookedType
  <2>2. \A p \in Pools : Booked(p)' <= Booked(p)
    BY <2>1
  <2>3. QED
    BY <1>0, <1>1, <2>2, SeatStaysFree
<1>2. ASSUME NEW b \in Admissions, ReadSchedule(b) \/ LockForSeat(b)
             \/ CountSeats(b)
      PROVE /\ adm'[a].pc = "reserved" => SeatFree(a)'
            /\ adm'[a].pc # "done" => plan'[a] = "none"
  <2>1. UNCHANGED <<row, plan>>
    BY <1>2 DEF ReadSchedule, LockForSeat, CountSeats
  <2>2. \A p \in Pools : Booked(p)' <= Booked(p)
    <3>1. \A p \in Pools : Booked(p)' = Booked(p) /\ Booked(p) \in Nat
      BY <2>1, BookedSame, BookedType
    <3>2. QED
      BY <3>1
  <2>3. adm'[a].pc = "reserved" => SeatFree(a) /\ adm'[a].dm = adm[a].dm
    <3>1. CASE a # b
      BY <1>0, <1>2, <3>1 DEF ReadSchedule, LockForSeat, CountSeats, TypeOK
    <3>2. CASE a = b /\ (ReadSchedule(b) \/ LockForSeat(b))
      BY <3>2 DEF ReadSchedule, LockForSeat, TypeOK, AdmCall
    <3>3. CASE a = b /\ CountSeats(b)
      BY <3>3 DEF CountSeats, TypeOK, AdmCall
    <3>4. QED
      BY <1>2, <3>1, <3>2, <3>3
  <2>4. adm[a].pc = "done" => adm'[a].pc = "done"
    BY <1>2 DEF ReadSchedule, LockForSeat, CountSeats, TypeOK, AdmCall
  <2>5. adm'[a].pc = "reserved" => SeatFree(a)'
    BY <2>1, <2>2, <2>3, SeatStaysFree
  <2>6. QED
    BY <1>0, <2>1, <2>4, <2>5
<1>3. ASSUME NEW b \in Admissions, CommitAdmission(b)
      PROVE /\ adm'[a].pc = "reserved" => SeatFree(a)'
            /\ adm'[a].pc # "done" => plan'[a] = "none"
  <2>1. lock = b /\ adm'[b].pc = "done"
    BY <1>3 DEF CommitAdmission, LockInv, TypeOK, AdmCall
  <2>2. CASE a = b
    BY <2>1, <2>2
  <2>3. CASE a # b
    <3>1. adm[a].pc # "reserved"
      BY <2>1, <2>3 DEF LockInv
    <3>2. plan'[a] = plan[a] /\ adm'[a] = adm[a]
      BY <1>3, <2>3 DEF CommitAdmission, TypeOK
    <3>3. QED
      BY <1>0, <3>1, <3>2
  <2>4. QED
    BY <2>2, <2>3
<1>4. ASSUME NEW b \in Admissions, DeletePlan(b)
      PROVE /\ adm'[a].pc = "reserved" => SeatFree(a)'
            /\ adm'[a].pc # "done" => plan'[a] = "none"
  <2>1. \A p \in Pools : Booked(p)' <= Booked(p)
    <3>1. \A p \in Pools : /\ Booked(p) \in Nat
                           /\ Booked(p)' \in {Booked(p), Booked(p) - 1}
      BY <1>4, BookedType, BookedRemove DEF DeletePlan
    <3>2. QED
      BY <3>1
  <2>2. UNCHANGED <<row, adm>>
    BY <1>4 DEF DeletePlan, calls
  <2>3. QED
    <3>1. adm'[a].pc = "reserved" => SeatFree(a)'
      BY <1>0, <2>1, <2>2, SeatStaysFree
    <3>2. plan[a] = "none" => plan'[a] = "none"
      BY <1>4 DEF DeletePlan, TypeOK
    <3>3. QED
      BY <1>0, <2>2, <3>1, <3>2
<1>5. CASE \/ \E c \in Answers : ApproveSeatHoldRequest(c)
           \/ \E h \in HoldCalls : SetHeldSeats(h)
           \/ \E e \in Edits : WriteEdit(e)
  <2>1. lock \notin Admissions
    BY <1>5, CallsDistinct
       DEF ApproveSeatHoldRequest, SetHeldSeats, WriteEdit, RowFree, LockInv
  <2>2. UNCHANGED <<adm, plan>>
    BY <1>5 DEF ApproveSeatHoldRequest, SetHeldSeats, WriteEdit
  <2>3. QED
    BY <1>0, <2>1, <2>2 DEF LockInv
<1>5a. CASE Rollback
  <2>1. adm'[a].pc # "reserved"
    BY <1>5a DEF Rollback, LockInv, TypeOK, AdmCall
  <2>2. adm[a].pc = "done" => adm'[a].pc = "done"
    BY <1>5a DEF Rollback, LockInv
  <2>3. QED
    BY <1>0, <1>5a, <2>1, <2>2 DEF Rollback
<1>6. QED
  BY <1>1, <1>2, <1>3, <1>4, <1>5, <1>5a
     DEF Next, vars, calls, CreateSeatHoldRequest, ReadRequest, LockForRelease,
         RejectSeatHoldRequest, LockForHold, ReadForEdit, CheckEdit

(* What a request asks for is written once; an answer leaves it.           *)
LEMMA AskedStep ==
  ASSUME TypeOK, AskedInv, [Next]_vars
  PROVE  /\ AskedInv'
         /\ \A q \in Requests : \/ request'[q].n = request[q].n
                               \/ request[q].n = 0
<1> DEFINE Good == /\ AskedInv'
                   /\ \A q \in Requests : \/ request'[q].n = request[q].n
                                         \/ request[q].n = 0
<1>1. CASE UNCHANGED request
  BY <1>1 DEF AskedInv
<1>2. ASSUME NEW r \in Requests, CreateSeatHoldRequest(r) PROVE Good
  <2>1. /\ request[r].n = 0 /\ request'[r].status = "PENDING"
        /\ \A q \in Requests : q # r => request'[q] = request[q]
    BY <1>2 DEF CreateSeatHoldRequest, TypeOK, AskedInv
  <2>2. QED
    BY <2>1 DEF AskedInv
<1>3. ASSUME NEW c \in Answers,
             ApproveSeatHoldRequest(c) \/ RejectSeatHoldRequest(c)
      PROVE Good
  <2>1. \/ UNCHANGED request
        \/ \E v \in {"APPROVED", "REJECTED"} :
             request' = [request EXCEPT ![ans[c].req].status = v]
    BY <1>3 DEF ApproveSeatHoldRequest, RejectSeatHoldRequest
  <2>2. \A q \in Requests :
          /\ request'[q].n = request[q].n
          /\ request'[q].status = "none" => request[q].status = "none"
    BY <2>1 DEF TypeOK, SeatHoldRequest
  <2>3. QED
    BY <2>2 DEF AskedInv
<1>4. QED
  BY <1>1, <1>2, <1>3
     DEF Next, vars, row, calls, ReadSchedule, LockForSeat, CountSeats,
         CommitAdmission, DeletePlan, ReadRequest, LockForRelease, LockForHold,
         SetHeldSeats, Rollback, ReadForEdit, CheckEdit, WriteEdit

(* The invariant the two results below rest on.                            *)
THEOREM LockProtectsSeat == Spec => []IInv
<1>1. Init => LockInv /\ ReservedInv /\ AskedInv
  BY CallsDistinct DEF Init, LockInv, ReservedInv, AskedInv
<1>2. TypeOK /\ LockInv /\ ReservedInv /\ AskedInv /\ [Next]_vars
        => LockInv' /\ ReservedInv' /\ AskedInv'
  BY LockStep, ReservedStep, AskedStep
<1>3. QED
  BY <1>1, <1>2, TypeCorrect, PTL DEF Spec, IInv

-----------------------------------------------------------------------------
(* While no screen edits the row, its mode and capacities are those it was *)
(* created with.                                                           *)
RowInv == \A e \in Edits : edit[e].pc = "idle"

(* A request that asked for a negative number stays, whatever is answered. *)
NoneNegative == \A q \in Requests : request[q].n >= 0

LEMMA NoneNegativeBefore ==
  ASSUME IInv, [Next]_vars, NoneNegative'
  PROVE  NoneNegative
<1>1. \A q \in Requests : request'[q].n = request[q].n \/ request[q].n = 0
  BY AskedStep DEF IInv
<1>2. QED
  BY <1>1 DEF NoneNegative

LEMMA RowStep ==
  ASSUME Editors = {}, TypeOK, RowInv, [Next]_vars
  PROVE  RowInv' /\ UNCHANGED <<mode, cap>>
<1>1. UNCHANGED <<edit, mode, cap>>
  BY DEF Next, vars, row, calls, RowInv, ReadSchedule, LockForSeat, CountSeats,
         CommitAdmission, DeletePlan, CreateSeatHoldRequest, ReadRequest,
         LockForRelease, ApproveSeatHoldRequest, RejectSeatHoldRequest,
         LockForHold, SetHeldSeats, Rollback, ReadForEdit, CheckEdit, WriteEdit
<1>2. QED
  BY <1>1 DEF RowInv

LEMMA OversoldStep ==
  ASSUME IInv, RowInv, UNCHANGED <<mode, cap>>, NeverOversold,
         [Next]_vars
  PROVE  NeverOversold'
<1>0. /\ TypeOK
      /\ \A p \in Pools : Booked(p) \in Nat /\ held[p] \in Nat /\ cap[p] \in Int
  BY RowNumbers, BookedType DEF IInv
<1> SUFFICES ASSUME NoneNegative',
                    NEW p \in Pools, p \in InForce(mode), cap[p] # NoCap
             PROVE  Booked(p)' + held'[p] <= Larger(cap[p], 0)
  BY DEF NeverOversold, NoneNegative, InForce, Pools
<1> DEFINE limit == Larger(cap[p], 0)
<1>a. NoneNegative
  BY NoneNegativeBefore
<1>b. limit \in Nat /\ (cap[p] > 0 => limit = cap[p]) /\ limit >= cap[p]
  BY <1>0 DEF Larger
<1>1. Booked(p) + held[p] <= limit
  BY <1>a DEF NeverOversold, NoneNegative
<1> HIDE DEF limit
<1>2. ASSUME UNCHANGED <<held, plan>> PROVE Booked(p)' + held'[p] <= limit
  BY <1>1, <1>2, BookedSame
<1>3. ASSUME NEW a \in Admissions, CommitAdmission(a)
      PROVE Booked(p)' + held'[p] <= limit
  <2>1. /\ SeatFree(a) /\ plan[a] = "none" /\ adm[a].dm \in Deliveries
        /\ plan' = [plan EXCEPT ![a] = adm[a].dm] /\ held' = held
    BY <1>0, <1>3 DEF CommitAdmission, IInv, ReservedInv, TypeOK, AdmCall, row
  <2>2. Booked(p)' = IF p \in {"ALL", adm[a].dm} THEN Booked(p) + 1
                                                 ELSE Booked(p)
    BY <1>0, <2>1, BookedAdd
  <2>4. p \in {"ALL", adm[a].dm} => p = SeatPoolOf(a)
    BY DEF SeatPoolOf, InForce
  <2>5. p = SeatPoolOf(a) => Booked(p) < Bookable(p)
    BY <2>1 DEF SeatFree
  <2>6. Booked(p) < Bookable(p) => Booked(p) < cap[p] - held[p]
    BY <1>0 DEF Bookable, Larger
  <2>7. QED
    BY <1>0, <1>b, <1>1, <2>1, <2>2, <2>4, <2>5, <2>6
<1>4. ASSUME NEW a \in Admissions, DeletePlan(a)
      PROVE Booked(p)' + held'[p] <= limit
  <2>1. Booked(p)' \in {Booked(p), Booked(p) - 1} /\ held' = held
    BY <1>0, <1>4, BookedRemove DEF DeletePlan, row
  <2>2. QED
    BY <1>0, <1>b, <1>1, <2>1
<1>5. ASSUME NEW c \in Answers, ApproveSeatHoldRequest(c)
      PROVE Booked(p)' + held'[p] <= limit
  <2>1. plan' = plan
    BY <1>5 DEF ApproveSeatHoldRequest
  <2>2. held'[p] \in Nat /\ held'[p] <= held[p]
    <3> DEFINE q == ans[c].req
    <3>1. q \in Requests /\ request[q].n \in Nat /\ ReleasePool(q) \in Pools
      BY <1>0, <1>a, RowNumbers DEF TypeOK, AnsCall, ReleasePool, Pools,
         NoneNegative
    <3>2. \/ held' = held
          \/ /\ StillHeld(q)
             /\ held' = [held EXCEPT ![ReleasePool(q)] = @ - request[q].n]
      BY <1>5 DEF ApproveSeatHoldRequest
    <3>3. held \in [Pools -> Nat]
      BY <1>0 DEF TypeOK
    <3>4. QED
      BY <3>1, <3>2, <3>3 DEF StillHeld
  <2>3. QED
    BY <1>0, <1>b, <1>1, <2>1, <2>2, BookedSame
<1>6. ASSUME NEW h \in HoldCalls, SetHeldSeats(h)
      PROVE Booked(p)' + held'[p] <= limit
  <2>1. plan' = plan
    BY <1>6 DEF SetHeldSeats
  <2>2. \/ held'[p] = held[p]
        \/ held'[p] \in Nat /\ cap[p] - held'[p] >= Booked(p)
    <3>1. CASE UNCHANGED held
      BY <3>1
    <3>2. CASE ~UNCHANGED held
      <4>1. PICK touched \in SUBSET InForce(mode) :
              \E upd \in [touched -> 0 .. MaxSeats] :
                /\ \A x \in touched : /\ cap[x] # NoCap
                                      /\ cap[x] - upd[x] >= Booked(x)
                /\ held' = [x \in Pools |->
                              IF x \in touched THEN upd[x] ELSE held[x]]
        BY <1>6, <3>2 DEF SetHeldSeats
      <4>2. PICK upd \in [touched -> 0 .. MaxSeats] :
                /\ \A x \in touched : /\ cap[x] # NoCap
                                      /\ cap[x] - upd[x] >= Booked(x)
                /\ held' = [x \in Pools |->
                              IF x \in touched THEN upd[x] ELSE held[x]]
        BY <4>1
      <4>3. p \in touched => upd[p] \in Nat
        BY <4>2, MaxSeatsNat
      <4>4. QED
        BY <4>2, <4>3
    <3>3. QED
      BY <3>1, <3>2
  <2>3. QED
    BY <1>0, <1>b, <1>1, <2>1, <2>2, BookedSame
<1>7. Booked(p)' + held'[p] <= limit
  BY <1>2, <1>3, <1>4, <1>5, <1>6
     DEF Next, vars, row, calls, ReadSchedule, LockForSeat, CountSeats,
         CreateSeatHoldRequest, ReadRequest, LockForRelease,
         RejectSeatHoldRequest, LockForHold, Rollback, ReadForEdit, CheckEdit,
         WriteEdit, RowInv
<1>8. QED
  BY <1>7 DEF limit

(* However many admissions, hold changes and answers overlap, the booked   *)
(* and the held seats of a pool of the row's mode together never exceed    *)
(* the capacity set for that pool, as long as no screen edits the row and  *)
(* nobody has asked for a negative number of seats.                        *)
THEOREM SeatsNeverOversold ==
  ASSUME Editors = {}
  PROVE  Spec => []NeverOversold
<1>1. Init => RowInv /\ NeverOversold
  <2> SUFFICES ASSUME Init PROVE RowInv /\ NeverOversold
    OBVIOUS
  <2>1. \A p \in Pools : Booked(p) = 0
    BY FS_EmptySet DEF Init, Booked, Holders, Pools
  <2>2. \A p \in Pools : held[p] = 0 /\ cap[p] \in Int
    BY Numbers DEF Init
  <2>3. NeverOversold
    BY <2>1, <2>2 DEF NeverOversold, Larger, InForce, Pools
  <2>4. RowInv
    BY DEF Init, RowInv, Blank
  <2>5. QED
    BY <2>3, <2>4
<1>2. IInv /\ RowInv /\ NeverOversold /\ [Next]_vars => RowInv' /\ NeverOversold'
  BY RowStep, OversoldStep DEF IInv
<1>3. QED
  BY <1>1, <1>2, LockProtectsSeat, PTL DEF Spec

-----------------------------------------------------------------------------
(* The detailed calls implement the abstract pool: each commit is one of   *)
(* its steps, and everything before it (the reads, the lock, a rollback)   *)
(* is invisible to it.                                                     *)

LEMMA PoolStep ==
  ASSUME IInv, [Next]_vars,
         \A e \in Edits : edit[e].pc # "idle" => Editors # {},
         TypeOK'
  PROVE  [Pool!Next]_(Pool!vars)
<1> USE DEF Pool!Pools, Pool!Deliveries, Pool!NoCap
<1>0. TypeOK
  BY DEF IInv
<1>0a. UNCHANGED request => UNCHANGED Asked
  BY DEF Asked
<1>1. CASE UNCHANGED <<row, plan, request>>
  <2>1. \A p \in Pools : Booked(p)' = Booked(p)
    BY <1>1, BookedSame
  <2>2. QED
    BY <1>0a, <1>1, <2>1 DEF Pool!vars, row, Pools
<1>1a. ASSUME NEW q \in Requests, CreateSeatHoldRequest(q) PROVE Pool!Next
  <2>1. UNCHANGED <<row, plan>>
    BY <1>1a DEF CreateSeatHoldRequest
  <2>2. \A p \in Pools : Booked(p)' = Booked(p)
    BY <2>1, BookedSame
  <2>3. Asked \subseteq Asked' /\ Asked' \subseteq Int
    <3>1. \A x \in Requests : request'[x].n = request[x].n \/ request[x].n = 0
      BY <1>0, AskedStep DEF IInv
    <3>2. \A x \in Requests : request'[x].n \in Int
      BY Numbers DEF TypeOK, SeatHoldRequest
    <3>3. QED
      BY <3>1, <3>2 DEF Asked
  <2>4. Pool!Ask
    BY <2>1, <2>2, <2>3 DEF Pool!Ask, Pools, row
  <2>5. QED
    BY <2>4 DEF Pool!Next
<1>1b. ASSUME NEW c \in Answers, RejectSeatHoldRequest(c)
       PROVE [Pool!Next]_(Pool!vars)
  <2>1. UNCHANGED <<row, plan>>
    BY <1>1b DEF RejectSeatHoldRequest
  <2>2. \A p \in Pools : Booked(p)' = Booked(p)
    BY <2>1, BookedSame
  <2>3. \A x \in Requests : request'[x].n = request[x].n
    BY <1>0, <1>1b DEF RejectSeatHoldRequest, TypeOK, SeatHoldRequest, AnsCall
  <2>4. UNCHANGED Asked
    BY <2>3 DEF Asked
  <2>5. QED
    BY <2>1, <2>2, <2>4 DEF Pool!vars, row, Pools
<1>2. ASSUME NEW a \in Admissions, CommitAdmission(a) PROVE Pool!Next
  <2> DEFINE d == adm[a].dm
  <2>1. /\ SeatFree(a) /\ plan[a] = "none" /\ d \in Deliveries
        /\ plan' = [plan EXCEPT ![a] = d] /\ UNCHANGED <<row, request>>
    BY <1>0, <1>2 DEF CommitAdmission, IInv, ReservedInv, TypeOK, AdmCall
  <2>2. \A p \in Pools :
          Booked(p)' = IF p \in {"ALL", d} THEN Booked(p) + 1 ELSE Booked(p)
    BY <1>0, <2>1, BookedAdd
  <2>3. SeatPoolOf(a) \in Pools
    BY <2>1 DEF SeatFree, SeatPoolOf, Pools, Deliveries
  <2>4. /\ Booked(SeatPoolOf(a)) \in Nat
        /\ cap[SeatPoolOf(a)] \in Int /\ held[SeatPoolOf(a)] \in Nat
    BY <1>0, <2>3, RowNumbers, BookedType
  <2>5. \/ cap[SeatPoolOf(a)] = NoCap
        \/ Booked(SeatPoolOf(a)) < cap[SeatPoolOf(a)] - held[SeatPoolOf(a)]
    BY <2>1, <2>4 DEF SeatFree, Bookable, Larger
  <2>6. Pool!Book(d)
    BY <1>0a, <2>1, <2>2, <2>3, <2>5
       DEF Pool!Book, Pool!HasRoom, SeatPoolOf, Pools, NoCap, row
  <2>7. QED
    BY <2>1, <2>6 DEF Pool!Next, Deliveries
<1>3. ASSUME NEW a \in Admissions, DeletePlan(a) PROVE Pool!Next
  <2> DEFINE d == plan[a]
  <2>1. d \in Deliveries /\ UNCHANGED <<row, request>>
    BY <1>0, <1>3 DEF DeletePlan, TypeOK
  <2>2. \A p \in Pools :
          /\ Booked(p)' = IF p \in {"ALL", d} THEN Booked(p) - 1 ELSE Booked(p)
    BY <1>0, <1>3, BookedRemove DEF DeletePlan
  <2>3. \A p \in Pools : Booked(p)' >= 0
    <3>1. \A p \in Pools : IsFiniteSet(Holders(p)')
      BY CallsFinite, FS_Subset DEF Holders
    <3>2. \A p \in Pools : Booked(p)' \in Nat
      BY <3>1, FS_CardinalityType DEF Booked
    <3>3. QED
      BY <3>2
  <2>4. Pool!Unbook(d)
    BY <1>0a, <2>1, <2>2, <2>3 DEF Pool!Unbook, Pools, row
  <2>5. QED
    BY <2>1, <2>4 DEF Pool!Next, Deliveries
<1>4. ASSUME NEW c \in Answers, ApproveSeatHoldRequest(c)
      PROVE [Pool!Next]_(Pool!vars)
  <2> DEFINE q == ans[c].req
             p == ReleasePool(q)
  <2>1. UNCHANGED <<mode, cap, plan>>
    BY <1>4 DEF ApproveSeatHoldRequest
  <2>2. \A x \in Pools : Booked(x)' = Booked(x)
    BY <2>1, BookedSame
  <2>2a. UNCHANGED Asked
    <3>1. \A x \in Requests : request'[x].n = request[x].n
      BY <1>0, <1>4 DEF ApproveSeatHoldRequest, TypeOK, SeatHoldRequest, AnsCall
    <3>2. QED
      BY <3>1 DEF Asked
  <2>3. CASE UNCHANGED held
    BY <2>1, <2>2, <2>2a, <2>3 DEF Pool!vars, Pools
  <2>4. CASE ~UNCHANGED held
    <3>1. /\ q \in Requests /\ request[q].n \in Int /\ p \in InForce(mode)
      BY <1>0, RowNumbers DEF TypeOK, AnsCall, ReleasePool, Pools, InForce
    <3>2. /\ StillHeld(q)
          /\ held' = [held EXCEPT ![p] = @ - request[q].n]
      BY <1>4, <2>4 DEF ApproveSeatHoldRequest
    <3>3. held[p] \in Nat
      BY <1>0, <3>1 DEF TypeOK, InForce, Pools
    <3>4. request[q].n \in Asked /\ request[q].n <= held[p]
      BY <3>1, <3>2, <3>3 DEF StillHeld, Asked
    <3>5. Pool!Release
      BY <2>1, <2>2, <2>2a, <3>1, <3>2, <3>4 DEF Pool!Release, Pool!InForce, InForce, Pools
    <3>6. QED
      BY <3>5 DEF Pool!Next
  <2>5. QED
    BY <2>3, <2>4
<1>5. ASSUME NEW h \in HoldCalls, SetHeldSeats(h)
      PROVE [Pool!Next]_(Pool!vars)
  <2>1. UNCHANGED <<mode, cap, plan, request>>
    BY <1>5 DEF SetHeldSeats
  <2>2. \A x \in Pools : Booked(x)' = Booked(x)
    BY <2>1, BookedSame
  <2>3. CASE UNCHANGED held
    BY <1>0a, <2>1, <2>2, <2>3 DEF Pool!vars, Pools
  <2>4. CASE ~UNCHANGED held
    <3>1. PICK touched \in SUBSET InForce(mode) :
            \E upd \in [touched -> 0 .. MaxSeats] :
              /\ \A x \in touched : /\ cap[x] # NoCap
                                    /\ cap[x] - upd[x] >= Booked(x)
              /\ held' = [x \in Pools |->
                            IF x \in touched THEN upd[x] ELSE held[x]]
      BY <1>5, <2>4 DEF SetHeldSeats
    <3>2. \A x \in Pools : held'[x] # held[x] =>
            x \in InForce(mode) /\ cap[x] # NoCap /\ cap[x] - held'[x] >= Booked(x)
      BY <3>1
    <3>3. held' \in [Pools -> Nat]
      BY MaxSeatsNat DEF TypeOK
    <3>4. Pool!SetHold
      BY <1>0a, <2>1, <2>2, <3>2, <3>3
         DEF Pool!SetHold, Pool!InForce, InForce, Pools, NoCap
    <3>5. QED
      BY <3>4 DEF Pool!Next
  <2>5. QED
    BY <2>3, <2>4
<1>6. ASSUME NEW e \in Edits, WriteEdit(e) PROVE Pool!Next
  <2>1. Editors # {} /\ UNCHANGED <<held, plan, request>>
    BY <1>6 DEF WriteEdit
  <2>2. \A x \in Pools : Booked(x)' = Booked(x)
    BY <2>1, BookedSame
  <2>3. mode' \in Pool!Modes /\ cap' \in [Pools -> Pool!Caps]
    BY Numbers DEF TypeOK, Pool!Modes, Pool!Caps, Modes
  <2>4. Pool!Edit
    BY <1>0a, <2>1, <2>2, <2>3 DEF Pool!Edit, Pools
  <2>5. QED
    BY <2>4 DEF Pool!Next
<1>7. QED
  BY <1>1, <1>1a, <1>1b, <1>2, <1>3, <1>4, <1>5, <1>6
     DEF Next, vars, calls, ReadSchedule, LockForSeat, CountSeats,
         ReadRequest, LockForRelease, LockForHold, Rollback, ReadForEdit, CheckEdit

(* Only a screen that exists starts an edit. *)
EditInv == \A e \in Edits : edit[e].pc # "idle" => Editors # {}

THEOREM SeatsImplementPool == Spec => ImplementsPool
<1>1. Init => Pool!Init /\ EditInv
  <2> SUFFICES ASSUME Init PROVE Pool!Init /\ EditInv
    OBVIOUS
  <2>1. \A p \in Pools : Booked(p) = 0
    BY FS_EmptySet DEF Init, Booked, Holders, Pools
  <2>2. mode \in Pool!Modes /\ cap \in [Pool!Pools -> Pool!Caps]
    BY Numbers DEF Init, Pools, Modes, Pool!Modes, Pool!Caps, Pool!Pools
  <2>3. Asked = {0}
    BY DEF Init, Asked
  <2>4. QED
    BY <2>1, <2>2, <2>3 DEF Init, Pool!Init, Pool!Pools, Pools, EditInv, Blank
<1>2. TypeOK /\ EditInv /\ [Next]_vars => EditInv'
  BY DEF EditInv, TypeOK, Next, vars, row, calls, ReadSchedule, LockForSeat,
         CountSeats, CommitAdmission, DeletePlan, CreateSeatHoldRequest,
         ReadRequest, LockForRelease, ApproveSeatHoldRequest,
         RejectSeatHoldRequest, LockForHold, SetHeldSeats, Rollback,
         ReadForEdit, CheckEdit, WriteEdit, EditCall, Blank
<1>3. IInv /\ EditInv /\ TypeOK' /\ [Next]_vars => [Pool!Next]_(Pool!vars)
  BY PoolStep DEF EditInv
<1>4. QED
  BY <1>1, <1>2, <1>3, TypeCorrect, LockProtectsSeat, PTL
     DEF Spec, ImplementsPool, Pool!Spec
=============================================================================
