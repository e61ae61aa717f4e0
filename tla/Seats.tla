------------------------------- MODULE Seats --------------------------------
(***************************************************************************)
(* The seats of one BatchCourseSchedule row: createAdmission booking one,  *)
(* Admin holding seats back, reps asking for held seats and Admin          *)
(* answering them, and the two screens that edit the row.  Every endpoint  *)
(* call is a process whose steps are its database statements; `lock' is    *)
(* the row lock that SELECT ... FOR UPDATE takes until the transaction     *)
(* ends.  A statement that updates the row waits for that lock.            *)
(***************************************************************************)
EXTENDS Integers, FiniteSets

CONSTANTS
  Admissions,      \* calls of createAdmission
  Requests,        \* rows of SeatHoldRequest
  Answers,         \* calls of the approve and reject endpoints
  HoldCalls,       \* calls of setHeldSeatsEndpoint
  Edits,           \* calls of updateBatchSchedule / updateSchedule
  Editors,         \* the screens in use: "admission", "production"
  Capacities,      \* numbers a capacity may be set to
  Wanted,          \* numbers of seats a request may ask for
  MaxSeats         \* bound: largest hold set directly

ASSUME CallsFinite == IsFiniteSet(Admissions)
ASSUME CallsDistinct == /\ "free" \notin Admissions \cup Answers \cup HoldCalls
                        /\ Admissions \cap Answers = {}
                        /\ Admissions \cap HoldCalls = {}
                        /\ Answers \cap HoldCalls = {}
ASSUME EditorsKnown == Editors \subseteq {"admission", "production"}
ASSUME MaxSeatsNat == MaxSeats \in Nat
(* -1 is any negative capacity: no screen refuses one, and each gives no   *)
(* seat.                                                                   *)
ASSUME NumbersTyped == Capacities \subseteq Nat \cup {-1} /\ Wanted \subseteq Int

NoCap == -2                   \* a null capacity column: no limit
Keep == -3                    \* a field the request body leaves out
Modes == {"ONLINE", "OFFLINE", "HYBRID"}
Pools == {"ALL", "ONLINE", "OFFLINE"}
Deliveries == {"unset", "ONLINE", "OFFLINE"}   \* unset: deliveryMode is null
CapColumn == Capacities \cup {NoCap}
SeatHoldRequest == [status : {"none", "PENDING", "APPROVED", "REJECTED"},
                    dm : Deliveries, n : Wanted \cup {0}]

VARIABLES
  mode, cap, held,     \* the row: mode, capacity and held columns per pool
  lock,      \* the transaction that holds the row lock, or "free"
  plan,      \* per admission: its FeePaymentPlan's deliveryMode, or "none"
  request,   \* per SeatHoldRequest: status, delivery, seatsRequested
  released,  \* history: seats each request has taken off the hold so far
  adm, ans, hold, edit     \* the calls: where each is and what it has read

row == <<mode, cap, held>>
calls == <<adm, ans, hold, edit>>
vars == <<row, lock, plan, request, released, adm, ans, hold, edit>>

InForce(m) == IF m = "HYBRID" THEN {"ONLINE", "OFFLINE"} ELSE {"ALL"}

(* The live count of reserveSeat, setHeldSeats and getSeatAvailability. *)
Holders(p) == {a \in Admissions : IF p = "ALL" THEN plan[a] # "none"
                                               ELSE plan[a] = p}
Booked(p) == Cardinality(Holders(p))

Larger(a, b) == IF a > b THEN a ELSE b

\* Mutant: the bookable total forgets the seats held back.
BookableWithHeld(p) == cap[p]

(* computeBand's and reserveSeat's bookable total: max(0, rawTotal - held) *)
Bookable(p) == Larger(cap[p] - held[p], 0)

\* Mutant: a plain SELECT instead of SELECT ... FOR UPDATE.
NoRowLock == TRUE

(* SELECT ... FOR UPDATE, or an UPDATE of the row, waits for this. *)
RowFree == lock = "free"

\* Mutant: a transaction that ends without COMMIT or ROLLBACK.
LockLeaked == UNCHANGED lock

(* COMMIT or ROLLBACK of the transaction that holds the row. *)
RowReleased == lock' = "free"

AdmCall == [pc : {"idle", "read", "locked", "reserved", "done", "failed"},
            dm : Deliveries]
AnsCall == [pc : {"idle", "checked", "locked", "done", "failed"},
            kind : {"approve", "reject"}, req : Requests]
HoldCall == {"idle", "locked", "done", "failed"}
EditCall == [pc : {"idle", "read", "checked", "done", "failed"},
             by : {"admission", "production"}, was : Modes, to : Modes,
             caps : [Pools -> CapColumn \cup {Keep}]]

TypeOK ==
  /\ mode \in Modes
  /\ cap \in [Pools -> CapColumn]
  /\ held \in [Pools -> Nat]
  /\ lock \in Admissions \cup Answers \cup HoldCalls \cup {"free"}
  /\ plan \in [Admissions -> Deliveries \cup {"none"}]
  /\ request \in [Requests -> SeatHoldRequest]
  /\ released \in [Requests -> Int]
  /\ adm \in [Admissions -> AdmCall]
  /\ ans \in [Answers -> AnsCall]
  /\ hold \in [HoldCalls -> HoldCall]
  /\ edit \in [Edits -> EditCall]

(* An edit that keeps nothing it has read. *)
Blank(pc) == [pc |-> pc, by |-> "admission", was |-> "ONLINE", to |-> "ONLINE",
              caps |-> [p \in Pools |-> Keep]]

(* Admission's new row: one capacity, or at least one of a HYBRID row's two. *)
CreateBatchSchedule(m, c) ==
  /\ \A p \in Pools \ InForce(m) : c[p] = NoCap
  /\ m = "HYBRID" => \E p \in InForce(m) : c[p] # NoCap

(* Production's new row: `capacity' and no other, on a HYBRID row too.     *)
AddSchedule(c) == \A p \in Pools \ {"ALL"} : c[p] = NoCap

Init ==
  /\ mode \in Modes /\ cap \in [Pools -> CapColumn]
  /\ CreateBatchSchedule(mode, cap) \/ AddSchedule(cap)
  /\ held = [p \in Pools |-> 0]
  /\ lock = "free"
  /\ plan = [a \in Admissions |-> "none"]
  /\ request = [q \in Requests |-> [status |-> "none", dm |-> "unset", n |-> 0]]
  /\ released = [q \in Requests |-> 0]
  /\ adm = [a \in Admissions |-> [pc |-> "idle", dm |-> "unset"]]
  /\ ans \in [Answers -> {[pc |-> "idle", kind |-> "approve", req |-> q] :
                          q \in Requests}]
  /\ hold = [h \in HoldCalls |-> "idle"]
  /\ edit = [e \in Edits |-> Blank("idle")]

-----------------------------------------------------------------------------
(* createAdmission: the schedule is read before the transaction, only to   *)
(* decide which deliveryMode to store; reserveSeat then locks the row.     *)

ReadSchedule(a) ==
  /\ adm[a].pc = "idle"
  /\ \E want \in Deliveries :
       adm' = [adm EXCEPT ![a] =
         IF mode = "HYBRID" /\ want = "unset"
         THEN [@ EXCEPT !.pc = "failed"]
         ELSE [pc |-> "read",
               dm |-> IF mode = "HYBRID" THEN want ELSE "unset"]]
  /\ UNCHANGED <<row, lock, plan, request, released, ans, hold, edit>>

LockForSeat(a) ==
  /\ adm[a].pc = "read"
  /\ RowFree
  /\ lock' = a
  /\ adm' = [adm EXCEPT ![a].pc = "locked"]
  /\ UNCHANGED <<row, plan, request, released, ans, hold, edit>>

\* Mutant: a Hybrid row counted as one pool.
OnePool(a) == "ALL"

(* The pool an admission is counted against, by the mode of the locked row. *)
SeatPoolOf(a) == IF mode = "HYBRID" THEN adm[a].dm ELSE "ALL"

SeatFree(a) == LET p == SeatPoolOf(a)
               IN /\ p # "unset"
                  /\ cap[p] = NoCap \/ Booked(p) < Bookable(p)

(* The count inside the transaction: go on, or throw and roll back. *)
CountSeats(a) ==
  /\ adm[a].pc = "locked"
  /\ \/ /\ SeatFree(a)
        /\ adm' = [adm EXCEPT ![a].pc = "reserved"]
        /\ UNCHANGED lock
     \/ /\ ~SeatFree(a)
        /\ adm' = [adm EXCEPT ![a].pc = "failed"]
        /\ RowReleased
  /\ UNCHANGED <<row, plan, request, released, ans, hold, edit>>

CommitAdmission(a) ==
  /\ adm[a].pc = "reserved"
  /\ plan' = [plan EXCEPT ![a] = adm[a].dm]
  /\ adm' = [adm EXCEPT ![a].pc = "done"]
  /\ RowReleased
  /\ UNCHANGED <<row, request, released, ans, hold, edit>>

(* approveDeletePlan, or undo of an onboarding: the plan row goes away. *)
DeletePlan(a) ==
  /\ plan[a] # "none"
  /\ plan' = [plan EXCEPT ![a] = "none"]
  /\ UNCHANGED <<row, lock, request, released, calls>>

-----------------------------------------------------------------------------
(* Seat hold-back and release requests. *)

(* The number is taken as it comes, a zero or a negative one too. *)
CreateSeatHoldRequest(q) ==
  /\ request[q].status = "none"
  /\ \E d \in Deliveries, n \in Wanted :
       /\ (d = "unset") = (mode # "HYBRID")
       /\ request' = [request EXCEPT ![q] =
                        [status |-> "PENDING", dm |-> d, n |-> n]]
  /\ UNCHANGED <<row, lock, plan, released, calls>>

(* Both endpoints read the request first; approve does so inside its       *)
(* transaction, but before the statement that locks the schedule.          *)
ReadRequest(c) ==
  /\ ans[c].pc = "idle"
  /\ \E q \in Requests, k \in {"approve", "reject"} :
       /\ request[q].status # "none"
       /\ ans' = [ans EXCEPT ![c] =
            [pc |-> IF request[q].status = "PENDING" THEN "checked"
                                                     ELSE "failed",
             kind |-> k, req |-> q]]
  /\ UNCHANGED <<row, lock, plan, request, released, adm, hold, edit>>

LockForRelease(c) ==
  /\ ans[c].pc = "checked" /\ ans[c].kind = "approve"
  /\ RowFree
  /\ lock' = c
  /\ ans' = [ans EXCEPT ![c].pc = "locked"]
  /\ UNCHANGED <<row, plan, request, released, adm, hold, edit>>

ReleasePool(q) == IF mode # "HYBRID" THEN "ALL"
                  ELSE IF request[q].dm = "ONLINE" THEN "ONLINE"
                  ELSE "OFFLINE"

\* Mutant: releases what is asked for without looking at the hold.
HoldNotChecked(q) == TRUE

StillHeld(q) == held[ReleasePool(q)] >= request[q].n

ApproveSeatHoldRequest(c) ==
  /\ ans[c].pc = "locked"
  /\ RowReleased
  /\ LET q == ans[c].req
         p == ReleasePool(q)
         n == request[q].n
     IN \/ /\ ~StillHeld(q)
           /\ ans' = [ans EXCEPT ![c].pc = "failed"]
           /\ UNCHANGED <<held, request, released>>
        \/ /\ StillHeld(q)
           /\ held' = [held EXCEPT ![p] = @ - n]
           /\ request' = [request EXCEPT ![q].status = "APPROVED"]
           /\ released' = [released EXCEPT ![q] = @ + n]
           /\ ans' = [ans EXCEPT ![c].pc = "done"]
  /\ UNCHANGED <<mode, cap, plan, adm, hold, edit>>

RejectSeatHoldRequest(c) ==
  /\ ans[c].pc = "checked" /\ ans[c].kind = "reject"
  /\ request' = [request EXCEPT ![ans[c].req].status = "REJECTED"]
  /\ ans' = [ans EXCEPT ![c].pc = "done"]
  /\ UNCHANGED <<row, lock, plan, released, adm, hold, edit>>

LockForHold(h) ==
  /\ hold[h] = "idle"
  /\ RowFree
  /\ lock' = h
  /\ hold' = [hold EXCEPT ![h] = "locked"]
  /\ UNCHANGED <<row, plan, request, released, adm, ans, edit>>

(* Only the columns of the mode in force are looked at; one bad value      *)
(* fails the whole request.                                                *)
SetHeldSeats(h) ==
  /\ hold[h] = "locked"
  /\ RowReleased
  /\ \E touched \in SUBSET InForce(mode) :
     \E upd \in [touched -> 0 .. MaxSeats] :
       LET ok == \A p \in touched : /\ cap[p] # NoCap
                                    /\ cap[p] - upd[p] >= Booked(p)
       IN \/ /\ ok
             /\ held' = [p \in Pools |->
                           IF p \in touched THEN upd[p] ELSE held[p]]
             /\ hold' = [hold EXCEPT ![h] = "done"]
          \/ /\ ~ok
             /\ hold' = [hold EXCEPT ![h] = "failed"]
             /\ UNCHANGED held
  /\ UNCHANGED <<mode, cap, plan, request, released, adm, ans, edit>>

(* The transaction that holds the lock may fail at any statement, or       *)
(* outlive its time limit: it rolls back and its call answers an error.    *)
Rollback ==
  /\ lock # "free"
  /\ RowReleased
  /\ adm' = [a \in Admissions |->
               IF a = lock THEN [adm[a] EXCEPT !.pc = "failed"] ELSE adm[a]]
  /\ ans' = [c \in Answers |->
               IF c = lock THEN [ans[c] EXCEPT !.pc = "failed"] ELSE ans[c]]
  /\ hold' = [h \in HoldCalls |->
               IF h = lock THEN "failed" ELSE hold[h]]
  /\ UNCHANGED <<row, plan, request, released, edit>>

-----------------------------------------------------------------------------
(* Editing the row.  Admission's screen reads the row, then the live seat  *)
(* counts, checks the new numbers against them and writes; Production's    *)
(* reads the row and writes, with no check of the seats.                   *)

ReadForEdit(e) ==
  /\ edit[e].pc = "idle"
  /\ \E by \in Editors, to \in Modes :
     \E caps \in [Pools -> CapColumn \cup {Keep}] :
       /\ \A p \in Pools \ InForce(to) : caps[p] = Keep
       /\ edit' = [edit EXCEPT ![e] =
            [pc |-> IF by = "admission" THEN "read" ELSE "checked",
             by |-> by, was |-> mode, to |-> to, caps |-> caps]]
  /\ UNCHANGED <<row, lock, plan, request, released, adm, ans, hold>>

(* getSeatAvailability: the counts of the pools of the mode it finds; the  *)
(* other bands are undefined, which the checks read as 0.                  *)
SeenBooked(p) ==
  IF mode = "HYBRID"
  THEN IF p = "ALL" THEN Booked("ONLINE") + Booked("OFFLINE") ELSE Booked(p)
  ELSE IF p = "ALL" THEN Booked("ALL") ELSE 0

CheckEdit(e) ==
  /\ edit[e].pc = "read"
  /\ LET seenTotal == IF edit[e].was = "HYBRID"
                      THEN SeenBooked("ONLINE") + SeenBooked("OFFLINE")
                      ELSE SeenBooked("ALL")
         ok == /\ edit[e].to # edit[e].was => seenTotal = 0
               /\ \A p \in InForce(edit[e].to) :
                    edit[e].caps[p] \notin {NoCap, Keep} =>
                      edit[e].caps[p] >= SeenBooked(p)
     IN edit' = [edit EXCEPT ![e] = IF ok THEN [@ EXCEPT !.pc = "checked"]
                                          ELSE Blank("failed")]
  /\ UNCHANGED <<row, lock, plan, request, released, adm, ans, hold>>

(* A body without a mode keeps the row's, whatever it is by then.          *)
(* updateBatchSchedule always clears the columns of the other mode;        *)
(* updateSchedule clears them, and the columns it is not given, only when  *)
(* the mode it read differs from the one asked for.                        *)
NewCap(e, p) ==
  LET given == p \in InForce(edit[e].to)
      clears == \/ edit[e].by = "admission" /\ ~given
                \/ edit[e].by = "production" /\ edit[e].to # edit[e].was
  IN IF edit[e].caps[p] # Keep THEN edit[e].caps[p]
     ELSE IF clears THEN NoCap ELSE cap[p]

WriteEdit(e) ==
  /\ edit[e].pc = "checked"
  /\ RowFree
  /\ mode' \in {edit[e].to} \cup (IF edit[e].to = edit[e].was THEN {mode}
                                                              ELSE {})
  /\ cap' = [p \in Pools |-> NewCap(e, p)]
  /\ edit' = [edit EXCEPT ![e] = Blank("done")]
  /\ UNCHANGED <<held, lock, plan, request, released, adm, ans, hold>>

-----------------------------------------------------------------------------
Next ==
  \/ \E a \in Admissions :
       \/ ReadSchedule(a) \/ LockForSeat(a) \/ CountSeats(a)
       \/ CommitAdmission(a) \/ DeletePlan(a)
  \/ \E q \in Requests : CreateSeatHoldRequest(q)
  \/ \E c \in Answers :
       \/ ReadRequest(c) \/ LockForRelease(c)
       \/ ApproveSeatHoldRequest(c) \/ RejectSeatHoldRequest(c)
  \/ \E h \in HoldCalls : LockForHold(h) \/ SetHeldSeats(h)
  \/ Rollback
  \/ \E e \in Edits : ReadForEdit(e) \/ CheckEdit(e) \/ WriteEdit(e)

Spec == Init /\ [][Next]_vars

(* A started call keeps running: the server's event loop resumes it, and   *)
(* the database grants the row lock to a waiting statement.                *)
Fairness ==
  /\ \A a \in Admissions : WF_vars(LockForSeat(a) \/ CountSeats(a)
                                    \/ CommitAdmission(a))
  /\ \A c \in Answers : WF_vars(LockForRelease(c) \/ ApproveSeatHoldRequest(c)
                                 \/ RejectSeatHoldRequest(c))
  /\ \A h \in HoldCalls : WF_vars(SetHeldSeats(h))
  /\ \A e \in Edits : WF_vars(CheckEdit(e) \/ WriteEdit(e))

FairSpec == Spec /\ Fairness

-----------------------------------------------------------------------------
(* No admission takes a seat that is held back, and no hold is put on a    *)
(* seat already taken: the setHeldSeats and reserveSeat comments           *)
(* (admissionFeeEngine.ts:561-568, :418-424).  Said of the capacities the  *)
(* row's mode looks at, a negative one being none; the `capacity' that     *)
(* addSchedule puts on a HYBRID row is looked at by nobody, and such a row *)
(* is not limited by it.  Holds while nobody edits the row and nobody has  *)
(* asked for a negative number of seats: approving that raises the hold,   *)
(* whatever is booked.                                                     *)
NeverOversold ==
  (\A q \in Requests : request[q].n >= 0) =>
    \A p \in InForce(mode) :
      cap[p] # NoCap => Booked(p) + held[p] <= Larger(cap[p], 0)

(* The numbers of seats asked for so far. *)
Asked == {0} \cup {request[q].n : q \in Requests}

(* Whatever the two screens do to the row, the calls together behave as    *)
(* the seat pool promises.                                                 *)
Pool == INSTANCE SeatPool WITH
          booked <- [p \in Pools |-> Booked(p)],
          asked <- Asked,
          Editable <- Editors # {}
ImplementsPool == Pool!Spec

(* An admission or an answer that has started always ends: no transaction  *)
(* keeps the row lock for ever.                                            *)
EveryCallEnds ==
  /\ \A a \in Admissions : adm[a].pc = "read" ~> adm[a].pc \in {"done", "failed"}
  /\ \A c \in Answers : ans[c].pc = "checked" ~> ans[c].pc \in {"done", "failed"}

(* schema.prisma:2220-2223: approving a request lowers the hold by         *)
(* seatsRequested; a request answered once cannot be answered again.       *)
ReleasedOnce == \A q \in Requests : released[q] \in {0, request[q].n}

=============================================================================
