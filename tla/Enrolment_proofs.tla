-------------------------- MODULE Enrolment_proofs --------------------------
(***************************************************************************)
(* Proofs about module Enrolment for any schedules, requests and calls,    *)
(* however they overlap: the types, that the requests and the rows agree,  *)
(* that an addition needs an approval, that an answer stands and that no   *)
(* move strands a student.                                                 *)
(***************************************************************************)
EXTENDS Enrolment, TLAPS

(* What a call carries, by where it is. *)
CallOK(cl) ==
  /\ cl.pc = "idle" => cl = Idle
  /\ cl.pc # "idle" => cl.s \in Schedules
  /\ cl.pc \in {"tx", "commit"} => cl.op \in {"enroll", "move", "transfer", "approve"}
  /\ cl.op \in {"move", "transfer"} <=> cl.prev # "none"
  /\ cl.op \in {"approve", "reject"} <=> cl.r # "none"
  /\ cl.op = "update" <=> cl.st # "none"
  /\ cl.pc = "set" => cl.op = "update"
  /\ cl.pc = "elsewhere" => cl.op \in {"bulk", "update"}
  /\ cl.pc \in {"insert", "reactivate"} => cl.op = "bulk"
  /\ cl.pc = "reject" => cl.op = "reject"
  /\ cl.pc \in {"bare", "create", "held"} => cl.op = "create"

ShapeInv == \A c \in Calls : CallOK(call[c])

(* Rows and requests belong to open schedules; a schedule being opened is  *)
(* named by its own call only; an approval that is under way is about the  *)
(* schedule of its request, unless that is gone.                           *)
Opening(c) == call[c].pc \in {"bare", "create", "held"}

ScheduleInv ==
  /\ \A s \in Schedules : sched[s] # "open" => row[s] = "none"
  /\ \A r \in Requests : req[r] # Unfiled => sched[req[r].s] = "open"
  /\ \A c \in Calls : call[c].pc # "idle" =>
       (sched[call[c].s] = "new" <=> Opening(c))
  /\ \A c, d \in Calls : Opening(c) /\ call[d].s = call[c].s => c = d
  /\ \A c \in Calls : call[c].op = "approve" =>
       sched[call[c].s] = "gone" \/ req[call[c].r].s = call[c].s

(* One call at a time: what it read still holds. *)
StillTrue(c) ==
  LET cl == call[c] IN
  /\ cl.pc = "commit" =>
       cl.saw = IF cl.prev = cl.s THEN Retired(row[cl.s]) ELSE row[cl.s]
  /\ cl.pc \in {"tx", "commit"} /\ cl.op = "enroll" => ~Elsewhere(cl.s)
  /\ cl.pc \in {"tx", "commit"} /\ cl.op = "transfer" =>
       cl.prev # cl.s /\ row[cl.prev] = "ACTIVE" /\ cl.sawPrev = "ACTIVE"
  /\ cl.pc = "create" => ~Elsewhere(cl.s)
  /\ cl.pc = "set" /\ cl.st = "ACTIVE" => row[cl.s] = "ACTIVE" \/ ~Elsewhere(cl.s)
  /\ cl.pc \in {"tx", "commit"} /\ cl.op = "approve" =>
       req[cl.r] = [s |-> cl.s, status |-> "PENDING"]
  /\ cl.pc = "reject" => req[cl.r] = [s |-> cl.s, status |-> "PENDING"]
  /\ cl.pc = "request" => MayFile(cl.s)

SerialInv ==
  use.serial =>
    /\ \A c, d \in Calls : call[c].pc # "idle" /\ call[d].pc # "idle" => c = d
    /\ \A c \in Calls : StillTrue(c)

(* Only endpoints in use are called. *)
InUse == \A c \in Calls : call[c].pc # "idle" => call[c].op \in use.ops

IInv ==
  /\ TypeOK /\ ShapeInv /\ InUse
  /\ ScheduleInv /\ ApprovedHasRow /\ SerialInv /\ OnePending

-----------------------------------------------------------------------------
(* Types and shapes. *)

LEMMA IdleOK == Idle \in CallState /\ CallOK(Idle)
BY NoneOutside DEF Idle, CallState, CallOK, Row

(* A call that goes on as v leaves the others where they are. *)
LEMMA CallStep ==
  ASSUME TypeOK, ShapeInv, NEW c \in Calls, NEW v \in CallState, CallOK(v),
         call' = [call EXCEPT ![c] = v]
  PROVE  /\ call' \in [Calls -> CallState] /\ ShapeInv'
         /\ call'[c] = v /\ \A d \in Calls \ {c} : call'[d] = call[d]
BY DEF TypeOK, ShapeInv

LEMMA EndedStep ==
  ASSUME TypeOK, ShapeInv, NEW c \in Calls, Ended(c)
  PROVE  /\ call' \in [Calls -> CallState] /\ ShapeInv'
         /\ call'[c] = Idle /\ \A d \in Calls \ {c} : call'[d] = call[d]
BY IdleOK, CallStep DEF Ended

LEMMA GoesStep ==
  ASSUME TypeOK, ShapeInv, NEW c \in Calls, NEW pc, Goes(c, pc),
         [call[c] EXCEPT !.pc = pc] \in CallState,
         CallOK([call[c] EXCEPT !.pc = pc])
  PROVE  /\ call' \in [Calls -> CallState] /\ ShapeInv'
         /\ call'[c] = [call[c] EXCEPT !.pc = pc]
         /\ \A d \in Calls \ {c} : call'[d] = call[d]
<1>1. call' = [call EXCEPT ![c] = [call[c] EXCEPT !.pc = pc]]
  BY DEF Goes
<1>2. QED
  BY <1>1, CallStep

LEMMA BeginStep ==
  ASSUME TypeOK, ShapeInv, NEW c \in Calls, NEW op, NEW pc, NEW s \in Schedules,
         Begin(c, op, pc, s),
         \/ op = "enroll" /\ pc \in {"file", "tx"}
         \/ op = "bulk" /\ pc \in {"elsewhere", "reactivate"}
         \/ op = "create" /\ pc \in {"bare", "held", "create"}
         \/ op = "delete" /\ pc = "delete"
  PROVE  /\ call' \in [Calls -> CallState] /\ ShapeInv'
         /\ call'[c] = [Idle EXCEPT !.op = op, !.pc = pc, !.s = s]
         /\ \A d \in Calls \ {c} : call'[d] = call[d]
<1> DEFINE v == [Idle EXCEPT !.op = op, !.pc = pc, !.s = s]
<1>1. v \in CallState /\ CallOK(v)
  BY NoneOutside DEF Idle, CallState, CallOK, Row, Op
<1>2. QED
  BY <1>1, CallStep DEF Begin

LEMMA RowType ==
  /\ \A st \in BatchEnrollmentStatus : st \in Row /\ st # "none"
  /\ "none" \in Row /\ "ACTIVE" \in Row
  /\ \A st \in Row : Retired(st) \in Row
BY DEF Row, BatchEnrollmentStatus, Retired

LEMMA CommittedType ==
  ASSUME TypeOK, NEW cl \in CallState
  PROVE  Committed(cl) \in [Schedules -> Row]
BY DEF Committed, TypeOK, Row, BatchEnrollmentStatus

LEMMA PendingIsRequest ==
  ASSUME TypeOK, NEW r \in Requests, req[r] # Unfiled
  PROVE  /\ req[r] \in Request /\ req[r].s \in Schedules
         /\ \A st \in {"PENDING", "APPROVED", "REJECTED"} :
              [req EXCEPT ![r].status = st] \in [Requests -> Request \cup {Unfiled}]
BY DEF TypeOK, Request

LEMMA TypedStep ==
  ASSUME TypeOK, ShapeInv, Next
  PROVE  TypeOK' /\ ShapeInv'
<1>0. use' = use
  BY DEF Next
<1>00. \A c \in Calls : call[c] \in CallState /\ CallOK(call[c])
  BY DEF TypeOK, ShapeInv
<1>1. ASSUME NEW c \in Calls, NEW s \in Schedules,
             Enroll(c, s) \/ Bulk(c, s) \/ AddSchedule(c, s) \/ CountEnrollments(c, s)
      PROVE  TypeOK' /\ ShapeInv'
  <2>1. UNCHANGED <<sched, row, req>>
    BY <1>1 DEF Enroll, Bulk, AddSchedule, CountEnrollments
  <2>2. \/ Begin(c, "enroll", "file", s) \/ Begin(c, "enroll", "tx", s)
        \/ Begin(c, "bulk", "elsewhere", s) \/ Begin(c, "bulk", "reactivate", s)
        \/ Begin(c, "create", "bare", s) \/ Begin(c, "create", "held", s)
        \/ Begin(c, "create", "create", s) \/ Begin(c, "delete", "delete", s)
    BY <1>1 DEF Enroll, Bulk, AddSchedule, CountEnrollments
  <2>3. call' \in [Calls -> CallState] /\ ShapeInv'
    BY <2>2, BeginStep
  <2>4. QED
    BY <1>0, <2>1, <2>3 DEF TypeOK
<1>2. ASSUME NEW c \in Calls, NEW s \in Schedules, UpdateEnrollment(c, s)
      PROVE  TypeOK' /\ ShapeInv'
  <2>1. PICK st \in BatchEnrollmentStatus :
          call' = [call EXCEPT ![c] =
            [Idle EXCEPT !.op = "update", !.s = s, !.st = st,
                         !.pc = IF NeedsCheck(st, row[s]) THEN "elsewhere" ELSE "set"]]
    BY <1>2 DEF UpdateEnrollment
  <2> DEFINE v == [Idle EXCEPT !.op = "update", !.s = s, !.st = st,
                     !.pc = IF NeedsCheck(st, row[s]) THEN "elsewhere" ELSE "set"]
  <2>2. v \in CallState /\ CallOK(v)
    BY NoneOutside, RowType DEF Idle, CallState, CallOK, Op
  <2>3. call' \in [Calls -> CallState] /\ ShapeInv'
    BY <2>1, <2>2, CallStep
  <2>4. QED
    BY <1>0, <1>2, <2>3 DEF TypeOK, UpdateEnrollment
<1>3. ASSUME NEW c \in Calls, NEW s \in Schedules, NEW prev \in Schedules,
             Move(c, s, prev) \/ Transfer(c, s, prev)
      PROVE  TypeOK' /\ ShapeInv'
  <2>1. PICK op \in {"move", "transfer"}, was \in {"none", "ACTIVE"} :
          BeginMove(c, op, s, prev, was)
    BY <1>3 DEF Move, Transfer
  <2> DEFINE v == [Idle EXCEPT !.op = op, !.pc = "tx", !.s = s,
                               !.prev = prev, !.sawPrev = was]
  <2>2. v \in CallState /\ CallOK(v)
    BY NoneOutside, RowType DEF Idle, CallState, CallOK, Op
  <2>3. call' \in [Calls -> CallState] /\ ShapeInv'
    BY <2>1, <2>2, CallStep DEF BeginMove
  <2>4. QED
    BY <1>0, <2>1, <2>3 DEF TypeOK, BeginMove
<1>4. ASSUME NEW c \in Calls, NEW r \in Requests, Answer(c, r)
      PROVE  TypeOK' /\ ShapeInv'
  <2>1. PICK op \in {"approve", "reject"} :
          call' = [call EXCEPT ![c] = [Idle EXCEPT
                     !.op = op, !.r = r, !.s = req[r].s,
                     !.pc = IF op = "approve" THEN "tx" ELSE "reject"]]
    BY <1>4 DEF Answer
  <2> DEFINE v == [Idle EXCEPT !.op = op, !.r = r, !.s = req[r].s,
                               !.pc = IF op = "approve" THEN "tx" ELSE "reject"]
  <2>2. req[r].s \in Schedules
    <3>1. req[r] # Unfiled
      BY <1>4 DEF Answer, MayAnswer, Unfiled
    <3>2. QED
      BY <3>1, PendingIsRequest
  <2>3. v \in CallState /\ CallOK(v)
    BY <2>2, NoneOutside, RowType DEF Idle, CallState, CallOK, Op
  <2>4. call' \in [Calls -> CallState] /\ ShapeInv'
    BY <2>1, <2>3, CallStep
  <2>5. QED
    BY <1>0, <1>4, <2>4 DEF TypeOK, Answer
<1>5. ASSUME NEW c \in Calls, Snapshot(c)
      PROVE  TypeOK' /\ ShapeInv'
  <2> DEFINE cl == call[c]
             was == IF cl.op = "move" THEN row[cl.prev] ELSE cl.sawPrev
             saw == IF cl.prev = cl.s THEN Retired(row[cl.s]) ELSE row[cl.s]
             v == [cl EXCEPT !.pc = "commit", !.saw = saw, !.sawPrev = was]
  <2>1. cl.s \in Schedules /\ (cl.op = "move" => cl.prev \in Schedules)
    BY <1>00, <1>5 DEF Snapshot, CallOK, CallState
  <2>2. was \in Row /\ saw \in Row
    BY <1>00, <2>1, RowType DEF TypeOK, CallState
  <2>3. v \in CallState /\ CallOK(v)
    <3>1. cl \in CallState /\ CallOK(cl) /\ cl.pc = "tx"
      BY <1>00, <1>5 DEF Snapshot
    <3> HIDE DEF cl, was, saw
    <3>2. QED
      BY <2>2, <3>1 DEF CallState, CallOK
  <2>4. Ended(c) \/ call' = [call EXCEPT ![c] = v]
    BY <1>5 DEF Snapshot
  <2>5. call' \in [Calls -> CallState] /\ ShapeInv'
    BY <2>3, <2>4, CallStep, EndedStep
  <2>6. QED
    BY <1>0, <1>5, <2>5 DEF TypeOK, Snapshot
<1>6. ASSUME NEW c \in Calls, Commit(c)
      PROVE  TypeOK' /\ ShapeInv'
  <2>1. row' \in [Schedules -> Row]
    BY <1>00, <1>6, CommittedType DEF Commit
  <2>2. req' \in [Requests -> Request \cup {Unfiled}]
    <3>1. CASE call[c].op = "approve" /\ ~Fails(call[c])
      <4>1. call[c].r \in Requests /\ req[call[c].r] # Unfiled
        BY <1>00, <3>1 DEF CallOK, CallState, Fails
      <4>2. QED
        BY <1>6, <3>1, <4>1, PendingIsRequest DEF Commit
    <3>2. CASE ~(call[c].op = "approve" /\ ~Fails(call[c]))
      BY <1>6, <3>2 DEF Commit, TypeOK
    <3>3. QED
      BY <3>1, <3>2
  <2>3. QED
    BY <1>0, <1>6, <2>1, <2>2, EndedStep DEF TypeOK, Commit
<1>7. ASSUME NEW c \in Calls, FindPending(c) \/ CheckElsewhere(c)
      PROVE  TypeOK' /\ ShapeInv'
  <2>1. PICK pc \in {"request", "file", "insert", "set"} :
          Ended(c) \/ /\ Goes(c, pc)
                      /\ pc = "insert" => call[c].op = "bulk"
                      /\ pc = "set" => call[c].pc = "elsewhere" /\ call[c].op # "bulk"
    BY <1>7 DEF FindPending, CheckElsewhere
  <2>2. call[c].pc \in {"file", "elsewhere"}
    BY <1>7 DEF FindPending, CheckElsewhere
  <2>3. CASE Goes(c, pc) /\ (pc = "insert" => call[c].op = "bulk")
             /\ (pc = "set" => call[c].pc = "elsewhere" /\ call[c].op # "bulk")
    <3> DEFINE v == [call[c] EXCEPT !.pc = pc]
    <3>1. v \in CallState /\ CallOK(v)
      BY <1>00, <2>2, <2>3 DEF CallState, CallOK
    <3>2. call' \in [Calls -> CallState] /\ ShapeInv'
      BY <2>3, <3>1, GoesStep
    <3>3. QED
      BY <1>0, <1>7, <3>2 DEF TypeOK, FindPending, CheckElsewhere
  <2>4. CASE Ended(c)
    BY <1>0, <1>7, <2>4, EndedStep DEF TypeOK, FindPending, CheckElsewhere
  <2>5. QED
    BY <2>1, <2>3, <2>4
<1>8. ASSUME NEW c \in Calls, CreateRequest(c)
      PROVE  TypeOK' /\ ShapeInv'
  <2>1. [s |-> call[c].s, status |-> "PENDING"] \in Request
    BY <1>00, <1>8 DEF CreateRequest, CallOK, CallState, Request
  <2>2. req' \in [Requests -> Request \cup {Unfiled}]
    BY <1>8, <2>1 DEF CreateRequest, TypeOK
  <2>3. QED
    BY <1>0, <1>8, <2>2, EndedStep DEF TypeOK, CreateRequest
<1>9. ASSUME NEW c \in Calls, Insert(c) \/ Reactivate(c) \/ SetStatus(c)
      PROVE  TypeOK' /\ ShapeInv'
  <2>1. row' \in [Schedules -> Row]
    BY <1>00, <1>9, RowType DEF Insert, Reactivate, SetStatus, TypeOK, CallState
  <2>2. QED
    BY <1>0, <1>9, <2>1, EndedStep DEF TypeOK, Insert, Reactivate, SetStatus
<1>10. ASSUME NEW c \in Calls, Reject(c)
       PROVE  TypeOK' /\ ShapeInv'
  <2>1. call[c].r \in Requests
    BY <1>00, <1>10 DEF Reject, CallOK, CallState
  <2>2. req' \in [Requests -> Request \cup {Unfiled}]
    BY <1>10, <2>1, PendingIsRequest DEF Reject, Rejected, TypeOK
  <2>3. QED
    BY <1>0, <1>10, <2>2, EndedStep DEF TypeOK, Reject
<1>11. ASSUME NEW c \in Calls, OpenSchedule(c)
       PROVE  TypeOK' /\ ShapeInv'
  <2>1. sched' \in [Schedules -> {"new", "open", "gone"}] /\ row' \in [Schedules -> Row]
    BY <1>11, RowType DEF OpenSchedule, TypeOK
  <2>2. call' \in [Calls -> CallState] /\ ShapeInv'
    <3>1. CASE call[c].pc = "held"
      <4> DEFINE v == [call[c] EXCEPT !.pc = "file"]
      <4>1. v \in CallState /\ CallOK(v)
        BY <1>00, <3>1 DEF CallState, CallOK
      <4>2. QED
        BY <1>11, <3>1, <4>1, GoesStep DEF OpenSchedule
    <3>2. CASE call[c].pc # "held"
      BY <1>11, <3>2, EndedStep DEF OpenSchedule
    <3>3. QED
      BY <3>1, <3>2
  <2>3. QED
    BY <1>0, <1>11, <2>1, <2>2 DEF TypeOK, OpenSchedule
<1>12. ASSUME NEW c \in Calls, DeleteSchedule(c)
       PROVE  TypeOK' /\ ShapeInv'
  <2>1. /\ sched' \in [Schedules -> {"new", "open", "gone"}]
        /\ row' \in [Schedules -> Row] /\ req' \in [Requests -> Request \cup {Unfiled}]
    BY <1>12, RowType DEF DeleteSchedule, TypeOK
  <2>2. QED
    BY <1>0, <1>12, <2>1, EndedStep DEF TypeOK, DeleteSchedule
<1>13. QED
  BY <1>1, <1>2, <1>3, <1>4, <1>5, <1>6, <1>7, <1>8, <1>9, <1>10, <1>11, <1>12
  DEF Next

(* Every variable of the enrolments keeps its type.                        *)
THEOREM EnrolmentTyped == Spec => []TypeOK
<1>1. Init => TypeOK /\ ShapeInv
  BY IdleOK, RowType DEF Init, TypeOK, ShapeInv
<1>2. TypeOK /\ ShapeInv /\ UNCHANGED vars => (TypeOK /\ ShapeInv)'
  BY DEF TypeOK, ShapeInv, CallOK, vars
<1>3. TypeOK /\ ShapeInv /\ [Next]_vars => (TypeOK /\ ShapeInv)'
  BY <1>2, TypedStep
<1>4. QED
  BY <1>1, <1>3, PTL DEF Spec

-----------------------------------------------------------------------------
(* Schedules, their rows and their requests. *)

(* A call goes on and nothing else changes. *)
LEMMA ScheduleCall ==
  ASSUME TypeOK, ShapeInv, ScheduleInv, NEW c \in Calls,
         UNCHANGED <<sched, row, req>>,
         \A d \in Calls \ {c} : call'[d] = call[d],
         call'[c].pc # "idle" => (sched[call'[c].s] = "new" <=> Opening(c)'),
         Opening(c)' => \A d \in Calls \ {c} : call[d].s # call'[c].s,
         \A d \in Calls \ {c} : Opening(d) => call[d].s # call'[c].s,
         call'[c].op = "approve" =>
           sched[call'[c].s] = "gone" \/ req[call'[c].r].s = call'[c].s
  PROVE  ScheduleInv'
<1>1. \A d \in Calls : call'[d].pc # "idle" =>
        (sched[call'[d].s] = "new" <=> call'[d].pc \in {"bare", "create", "held"})
  BY DEF ScheduleInv, Opening
<1>2. \A d, e \in Calls :
        call'[d].pc \in {"bare", "create", "held"} /\ call'[e].s = call'[d].s => d = e
  BY DEF ScheduleInv, Opening
<1>3. \A d \in Calls : call'[d].op = "approve" =>
        sched[call'[d].s] = "gone" \/ req[call'[d].r].s = call'[d].s
  BY DEF ScheduleInv
<1>4. QED
  BY <1>1, <1>2, <1>3 DEF ScheduleInv, Opening

(* An open schedule is named by no call that opens one. *)
LEMMA OpenNotOpening ==
  ASSUME TypeOK, ShapeInv, ScheduleInv, NEW s \in Schedules, sched[s] # "new"
  PROVE  \A d \in Calls : Opening(d) => call[d].s # s
BY DEF ScheduleInv, Opening

(* A call ends; what else changes leaves the schedules as they are, takes  *)
(* no row from an open one and keeps the requests where they were.         *)
LEMMA ScheduleEnd ==
  ASSUME TypeOK, ShapeInv, ScheduleInv, NEW c \in Calls, Ended(c),
         UNCHANGED sched,
         \A s \in Schedules : sched[s] # "open" => row'[s] = "none",
         \A r \in Requests : req'[r] # Unfiled => sched[req'[r].s] = "open",
         \A r \in Requests : req[r] # Unfiled => req'[r].s = req[r].s
  PROVE  ScheduleInv'
<1>1. call'[c] = Idle /\ \A d \in Calls \ {c} : call'[d] = call[d]
  BY EndedStep
<1>2. \A d \in Calls : call[d] \in CallState /\ CallOK(call[d])
  BY DEF TypeOK, ShapeInv
<1>3. \A d \in Calls : call'[d].pc # "idle" => d # c /\ call'[d] = call[d]
  BY <1>1 DEF Idle
<1>4. \A d, e \in Calls :
        call'[d].pc \in {"bare", "create", "held"} /\ call'[e].s = call'[d].s => d = e
  <2> SUFFICES ASSUME NEW d \in Calls, NEW e \in Calls, Opening(d), d # c,
                      call'[e].s = call[d].s
               PROVE  d = e
    BY <1>1, <1>3 DEF Opening
  <2>1. call[d].s # "none"
    BY <1>2, NoneOutside DEF Opening, CallOK
  <2>2. QED
    BY <1>1, <2>1 DEF Idle, ScheduleInv
<1>5. \A d \in Calls : call'[d].op = "approve" =>
        sched[call'[d].s] = "gone" \/ req'[call'[d].r].s = call'[d].s
  <2> SUFFICES ASSUME NEW d \in Calls, d # c, call[d].op = "approve",
                      sched[call[d].s] # "gone"
               PROVE  req'[call[d].r].s = call[d].s
    BY <1>1 DEF Idle
  <2>1. call[d].r \in Requests /\ call[d].s \in Schedules
    BY <1>2, NoneOutside DEF CallOK, CallState, Idle
  <2>2. req[call[d].r].s = call[d].s
    BY DEF ScheduleInv
  <2>3. req[call[d].r] # Unfiled
    BY <2>1, <2>2, NoneOutside DEF Unfiled
  <2>4. QED
    BY <2>1, <2>2, <2>3
<1>6. QED
  BY <1>3, <1>4, <1>5 DEF ScheduleInv, Opening

(* A row that is there is not lost, except to a deletion. *)
LEMMA RowsStay ==
  ASSUME TypeOK, ShapeInv, ScheduleInv, NEW c \in Calls,
         Commit(c) \/ Insert(c) \/ Reactivate(c) \/ SetStatus(c)
  PROVE  \A s \in Schedules : /\ row[s] # "none" => row'[s] # "none"
                              /\ sched[s] # "open" => row'[s] = "none"
<1>1. call[c] \in CallState /\ CallOK(call[c])
  BY DEF TypeOK, ShapeInv
<1>2. \A s \in Schedules : sched[s] # "open" => row[s] = "none"
  BY DEF ScheduleInv
<1>3. CASE Commit(c)
  <2>1. CASE Fails(call[c])
    BY <1>2, <1>3, <2>1 DEF Commit, Committed
  <2>2. CASE ~Fails(call[c])
    <3>1. sched[call[c].s] = "open" /\ (Retires(call[c]) => row[call[c].prev] # "none")
      BY <1>1, <1>2, <1>3, <2>2 DEF Commit, Fails, CallOK
    <3>2. call[c].prev # "none" => call[c].prev \in Schedules
      BY <1>1 DEF CallState
    <3>3. Retires(call[c]) => sched[call[c].prev] = "open"
      BY <1>2, <3>1, <3>2 DEF Retires
    <3>4. QED
      BY <1>2, <1>3, <2>2, <3>1, <3>3 DEF Commit, Committed
  <2>3. QED
    BY <2>1, <2>2
<1>4. CASE Insert(c)
  BY <1>2, <1>4 DEF Insert, TypeOK
<1>5. CASE Reactivate(c)
  BY <1>2, <1>5 DEF Reactivate, TypeOK
<1>6. CASE SetStatus(c)
  <2>1. call[c].st # "none"
    BY <1>1, <1>6 DEF SetStatus, CallOK
  <2>2. QED
    BY <1>2, <1>6, <2>1 DEF SetStatus, TypeOK
<1>7. QED
  BY <1>3, <1>4, <1>5, <1>6

LEMMA ScheduleStep ==
  ASSUME TypeOK, ShapeInv, ScheduleInv, ApprovedHasRow, Next
  PROVE  ScheduleInv' /\ ApprovedHasRow'
<1>0. \A c \in Calls : call[c] \in CallState /\ CallOK(call[c])
  BY DEF TypeOK, ShapeInv
<1>00. \A s \in Schedules : sched[s] # "open" => row[s] = "none"
  BY DEF ScheduleInv
<1>000. ASSUME UNCHANGED <<row, req>> PROVE ApprovedHasRow'
  BY <1>000 DEF ApprovedHasRow
<1>1. ASSUME NEW c \in Calls, NEW s \in Schedules,
             Enroll(c, s) \/ Bulk(c, s) \/ CountEnrollments(c, s)
      PROVE  ScheduleInv' /\ ApprovedHasRow'
  <2>1. PICK op \in {"enroll", "bulk", "delete"},
             pc \in {"file", "tx", "elsewhere", "reactivate", "delete"} :
          /\ Begin(c, op, pc, s) /\ sched[s] = "open" /\ UNCHANGED <<sched, row, req>>
          /\ \/ op = "enroll" /\ pc \in {"file", "tx"}
             \/ op = "bulk" /\ pc \in {"elsewhere", "reactivate"}
             \/ op = "delete" /\ pc = "delete"
    BY <1>1 DEF Enroll, Bulk, CountEnrollments
  <2>2. /\ call'[c].pc = pc /\ call'[c].s = s /\ call'[c].op = op
        /\ \A d \in Calls \ {c} : call'[d] = call[d]
    BY <2>1 DEF Begin, TypeOK, Idle
  <2>4. ScheduleInv'
    BY <2>1, <2>2, OpenNotOpening, ScheduleCall DEF Opening
  <2>5. QED
    BY <1>000, <2>1, <2>4
<1>2. ASSUME NEW c \in Calls, NEW s \in Schedules, AddSchedule(c, s)
      PROVE  ScheduleInv' /\ ApprovedHasRow'
  <2>1. PICK pc \in {"bare", "create", "held"} :
          /\ Begin(c, "create", pc, s) /\ sched[s] = "new"
          /\ \A d \in Calls : call[d].s # s
          /\ UNCHANGED <<sched, row, req>>
    BY <1>2 DEF AddSchedule, Known
  <2>2. /\ call'[c].pc = pc /\ call'[c].s = s /\ call'[c].op = "create"
        /\ \A d \in Calls \ {c} : call'[d] = call[d]
    BY <2>1 DEF Begin, TypeOK, Idle
  <2>4. ScheduleInv'
    BY <2>1, <2>2, ScheduleCall DEF Opening
  <2>5. QED
    BY <1>000, <2>1, <2>4
<1>3. ASSUME NEW c \in Calls, NEW s \in Schedules, UpdateEnrollment(c, s)
      PROVE  ScheduleInv' /\ ApprovedHasRow'
  <2>1. PICK st \in BatchEnrollmentStatus :
          call' = [call EXCEPT ![c] =
            [Idle EXCEPT !.op = "update", !.s = s, !.st = st,
                         !.pc = IF NeedsCheck(st, row[s]) THEN "elsewhere" ELSE "set"]]
    BY <1>3 DEF UpdateEnrollment
  <2>2. /\ call'[c].pc \in {"elsewhere", "set"} /\ call'[c].s = s /\ call'[c].op = "update"
        /\ \A d \in Calls \ {c} : call'[d] = call[d]
    BY <2>1 DEF TypeOK, Idle
  <2>4. sched[s] = "open" /\ UNCHANGED <<sched, row, req>>
    BY <1>00, <1>3 DEF UpdateEnrollment
  <2>5. ScheduleInv'
    BY <2>2, <2>4, OpenNotOpening, ScheduleCall DEF Opening
  <2>6. QED
    BY <1>000, <2>4, <2>5
<1>4. ASSUME NEW c \in Calls, NEW s \in Schedules, NEW prev \in Schedules,
             Move(c, s, prev) \/ Transfer(c, s, prev)
      PROVE  ScheduleInv' /\ ApprovedHasRow'
  <2>1. PICK op, was : op \in {"move", "transfer"} /\ BeginMove(c, op, s, prev, was)
    BY <1>4 DEF Move, Transfer
  <2>2. /\ call'[c].pc = "tx" /\ call'[c].s = s /\ call'[c].op = op
        /\ \A d \in Calls \ {c} : call'[d] = call[d]
    BY <2>1 DEF TypeOK, BeginMove, Idle
  <2>4. sched[s] = "open" /\ UNCHANGED <<sched, row, req>>
    BY <2>1 DEF BeginMove
  <2>5. ScheduleInv'
    BY <2>1, <2>2, <2>4, OpenNotOpening, ScheduleCall DEF Opening
  <2>6. QED
    BY <1>000, <2>4, <2>5
<1>5. ASSUME NEW c \in Calls, NEW r \in Requests, Answer(c, r)
      PROVE  ScheduleInv' /\ ApprovedHasRow'
  <2>1. PICK op \in {"approve", "reject"}, pc \in {"tx", "reject"} :
          call' = [call EXCEPT ![c] = [Idle EXCEPT
                     !.op = op, !.r = r, !.s = req[r].s, !.pc = pc]]
    BY <1>5 DEF Answer
  <2>2. /\ call'[c].pc = pc /\ call'[c].s = req[r].s /\ call'[c].op = op /\ call'[c].r = r
        /\ \A d \in Calls \ {c} : call'[d] = call[d]
    BY <2>1 DEF TypeOK, Idle
  <2>4. req[r] # Unfiled
    BY <1>5 DEF Answer, MayAnswer, Unfiled
  <2>5. req[r].s \in Schedules /\ sched[req[r].s] = "open"
    BY <2>4, PendingIsRequest DEF ScheduleInv
  <2>6. UNCHANGED <<sched, row, req>>
    BY <1>5 DEF Answer
  <2>7. ScheduleInv'
    BY <2>2, <2>5, <2>6, OpenNotOpening, ScheduleCall DEF Opening
  <2>8. QED
    BY <1>000, <2>6, <2>7
<1>6. ASSUME NEW c \in Calls, Snapshot(c) \/ FindPending(c) \/ CheckElsewhere(c)
      PROVE  ScheduleInv' /\ ApprovedHasRow'
  <2>1. UNCHANGED <<sched, row, req>>
    BY <1>6 DEF Snapshot, FindPending, CheckElsewhere
  <2>2. CASE Ended(c)
    <3>1. ScheduleInv'
      BY <2>1, <2>2, ScheduleEnd, <1>00 DEF ScheduleInv
    <3>2. QED
      BY <1>000, <2>1, <3>1
  <2>3. CASE ~Ended(c)
    <3>1. PICK v : /\ call' = [call EXCEPT ![c] = v]
                   /\ v.pc \in {"commit", "request", "file", "insert", "set"}
                   /\ v.s = call[c].s /\ v.op = call[c].op /\ v.r = call[c].r
      <4>1. CASE Snapshot(c)
        <5>1. PICK saw, was :
                call' = [call EXCEPT ![c].pc = "commit", ![c].saw = saw, ![c].sawPrev = was]
          BY <2>3, <4>1 DEF Snapshot
        <5> DEFINE v == [call[c] EXCEPT !.pc = "commit", !.saw = saw, !.sawPrev = was]
        <5>2. call' = [call EXCEPT ![c] = v]
          BY <5>1
        <5>3. v.pc = "commit" /\ v.s = call[c].s /\ v.op = call[c].op /\ v.r = call[c].r
          BY <1>0 DEF CallState
        <5> HIDE DEF v
        <5>4. QED
          BY <5>2, <5>3
      <4>2. CASE FindPending(c) \/ CheckElsewhere(c)
        <5>1. PICK pc \in {"request", "file", "insert", "set"} : Goes(c, pc)
          BY <2>3, <4>2 DEF FindPending, CheckElsewhere
        <5> DEFINE v == [call[c] EXCEPT !.pc = pc]
        <5>2. call' = [call EXCEPT ![c] = v]
          BY <5>1 DEF Goes
        <5>3. v.pc = pc /\ v.s = call[c].s /\ v.op = call[c].op /\ v.r = call[c].r
          BY <1>0 DEF CallState
        <5> HIDE DEF v
        <5>4. QED
          BY <5>1, <5>2, <5>3
      <4>3. QED
        BY <1>6, <4>1, <4>2
    <3>2. call'[c] = v /\ \A d \in Calls \ {c} : call'[d] = call[d]
      BY <3>1 DEF TypeOK
    <3>3. /\ ~Opening(c)' /\ call'[c].s = call[c].s
          /\ call'[c].op = call[c].op /\ call'[c].r = call[c].r
      BY <3>1, <3>2 DEF Opening
    <3>4. call[c].pc \in {"tx", "file", "elsewhere"} /\ call[c].s \in Schedules
      BY <1>0, <1>6 DEF Snapshot, FindPending, CheckElsewhere, CallOK
    <3>5. sched[call[c].s] # "new"
      BY <3>4 DEF ScheduleInv, Opening
    <3>6. call[c].op = "approve" =>
            sched[call[c].s] = "gone" \/ req[call[c].r].s = call[c].s
      BY DEF ScheduleInv
    <3>7. \A d \in Calls \ {c} : Opening(d) => call[d].s # call'[c].s
      BY <3>3, <3>4, <3>5, OpenNotOpening
    <3>8. ScheduleInv'
      BY <2>1, <3>2, <3>3, <3>5, <3>6, <3>7, ScheduleCall
    <3>9. QED
      BY <1>000, <2>1, <3>8
  <2>4. QED
    BY <2>2, <2>3
<1>7. ASSUME NEW c \in Calls, Commit(c)
      PROVE  ScheduleInv' /\ ApprovedHasRow'
  <2> DEFINE cl == call[c]
  <2>1. ASSUME cl.op = "approve", ~Fails(cl)
        PROVE  /\ cl.r \in Requests /\ req[cl.r] # Unfiled
               /\ req[cl.r].s = cl.s /\ row'[cl.s] # "none"
               /\ req' = [req EXCEPT ![cl.r].status = "APPROVED"]
    <3>1. cl.r \in Requests /\ req[cl.r] # Unfiled /\ cl.s \in Schedules
      BY <1>0, <1>7, <2>1 DEF CallOK, CallState, Fails, Commit
    <3>2. sched[cl.s] = "open"
      BY <1>00, <2>1, <3>1 DEF Fails
    <3>3. req[cl.r].s = cl.s
      BY <2>1, <3>2 DEF ScheduleInv
    <3>4. row'[cl.s] # "none"
      BY <1>7, <2>1, <3>1 DEF Commit, Committed, Fails
    <3>5. QED
      BY <1>7, <2>1, <3>1, <3>3, <3>4 DEF Commit
  <2>2. \A r \in Requests : /\ req'[r].s = req[r].s
                            /\ req'[r] = Unfiled <=> req[r] = Unfiled
    <3>1. CASE cl.op = "approve" /\ ~Fails(cl)
      BY <2>1, <3>1, PendingIsRequest DEF TypeOK, Unfiled, Request
    <3>2. CASE ~(cl.op = "approve" /\ ~Fails(cl))
      BY <1>7, <3>2 DEF Commit
    <3>3. QED
      BY <3>1, <3>2
  <2>3. ScheduleInv'
    <3>1. Ended(c) /\ UNCHANGED sched
      BY <1>7 DEF Commit
    <3>2. \A s \in Schedules : sched[s] # "open" => row'[s] = "none"
      BY <1>7, RowsStay
    <3>3. QED
      BY <2>2, <3>1, <3>2, ScheduleEnd DEF ScheduleInv
  <2>4. ApprovedHasRow'
    <3> SUFFICES ASSUME NEW r \in Requests, req'[r].status = "APPROVED"
                 PROVE  row'[req'[r].s] # "none"
      BY DEF ApprovedHasRow
    <3>1. CASE cl.op = "approve" /\ ~Fails(cl) /\ r = cl.r
      BY <2>1, <2>2, <3>1
    <3>2. CASE ~(cl.op = "approve" /\ ~Fails(cl) /\ r = cl.r)
      <4>1. req'[r] = req[r]
        BY <1>7, <2>1, <3>2 DEF Commit, TypeOK
      <4>2. req[r] # Unfiled /\ row[req[r].s] # "none"
        BY <4>1 DEF ApprovedHasRow, Unfiled
      <4>3. QED
        BY <1>7, <4>1, <4>2, PendingIsRequest, RowsStay
    <3>3. QED
      BY <3>1, <3>2
  <2>5. QED
    BY <2>3, <2>4
<1>8. ASSUME NEW c \in Calls, Insert(c) \/ Reactivate(c) \/ SetStatus(c)
      PROVE  ScheduleInv' /\ ApprovedHasRow'
  <2>1. Ended(c) /\ UNCHANGED <<sched, req>>
    BY <1>8 DEF Insert, Reactivate, SetStatus
  <2>2. \A s \in Schedules : /\ row[s] # "none" => row'[s] # "none"
                             /\ sched[s] # "open" => row'[s] = "none"
    BY <1>8, RowsStay
  <2>3. ScheduleInv'
    BY <2>1, <2>2, ScheduleEnd DEF ScheduleInv
  <2>4. ApprovedHasRow'
    <3> SUFFICES ASSUME NEW r \in Requests, req[r].status = "APPROVED"
                 PROVE  row'[req[r].s] # "none"
      BY <2>1 DEF ApprovedHasRow
    <3>1. req[r] # Unfiled /\ row[req[r].s] # "none"
      BY DEF ApprovedHasRow, Unfiled
    <3>2. QED
      BY <2>2, <3>1, PendingIsRequest
  <2>5. QED
    BY <2>3, <2>4
<1>9. ASSUME NEW c \in Calls, CreateRequest(c) \/ Reject(c)
      PROVE  ScheduleInv' /\ ApprovedHasRow'
  <2>1. Ended(c) /\ UNCHANGED <<sched, row>>
    BY <1>9 DEF CreateRequest, Reject
  <2>2. \A r \in Requests :
          \/ req'[r] = req[r]
          \/ /\ req[r] = Unfiled /\ sched[call[c].s] = "open"
             /\ req'[r] = [s |-> call[c].s, status |-> "PENDING"]
          \/ req[r] # Unfiled /\ req'[r] = [req[r] EXCEPT !.status = "REJECTED"]
    <3>1. CASE CreateRequest(c)
      BY <3>1 DEF CreateRequest, TypeOK
    <3>2. CASE Reject(c)
      BY <3>2 DEF Reject, Rejected, TypeOK
    <3>3. QED
      BY <1>9, <3>1, <3>2
  <2>3. \A r \in Requests : req[r] # Unfiled => req'[r].s = req[r].s
    BY <2>2, PendingIsRequest DEF Request
  <2>4. \A r \in Requests : req'[r] # Unfiled => sched[req'[r].s] = "open"
    <3> SUFFICES ASSUME NEW r \in Requests, req'[r] # Unfiled
                 PROVE  sched[req'[r].s] = "open"
      OBVIOUS
    <3>1. CASE req[r] = Unfiled
      <4>1. sched[call[c].s] = "open" /\ req'[r] = [s |-> call[c].s, status |-> "PENDING"]
        BY <2>2, <3>1
      <4>2. req'[r].s = call[c].s
        BY <4>1
      <4>3. QED
        BY <4>1, <4>2
    <3>2. CASE req[r] # Unfiled
      BY <2>3, <3>2 DEF ScheduleInv
    <3>3. QED
      BY <3>1, <3>2
  <2>5. ScheduleInv'
    BY <1>00, <2>1, <2>3, <2>4, ScheduleEnd
  <2>6. \A r \in Requests : req'[r].status = "APPROVED" => req'[r] = req[r]
    <3> SUFFICES ASSUME NEW r \in Requests, req'[r] # req[r]
                 PROVE  req'[r].status # "APPROVED"
      OBVIOUS
    <3>1. CASE req'[r] = [s |-> call[c].s, status |-> "PENDING"]
      BY <3>1
    <3>2. CASE req[r] # Unfiled /\ req'[r] = [req[r] EXCEPT !.status = "REJECTED"]
      BY <3>2, PendingIsRequest DEF Request
    <3>3. QED
      BY <2>2, <3>1, <3>2
  <2>7. QED
    BY <2>1, <2>5, <2>6 DEF ApprovedHasRow
<1>10. ASSUME NEW c \in Calls, OpenSchedule(c)
       PROVE  ScheduleInv' /\ ApprovedHasRow'
  <2> DEFINE s == call[c].s
  <2>1. /\ Opening(c) /\ s \in Schedules /\ sched[s] = "new"
        /\ \A d \in Calls \ {c} : call[d].s # s
    BY <1>0, <1>10 DEF OpenSchedule, Opening, ScheduleInv, CallOK
  <2>2. sched' = [sched EXCEPT ![s] = "open"] /\ req' = req
    BY <1>10 DEF OpenSchedule
  <2>3. \A t \in Schedules \ {s} : row'[t] = row[t] /\ sched'[t] = sched[t]
    BY <1>10, <2>1, <2>2 DEF OpenSchedule, TypeOK
  <2>4. /\ \A d \in Calls \ {c} : call'[d] = call[d]
        /\ ~Opening(c)'
        /\ call'[c].pc # "idle" => call'[c].s = s
        /\ call'[c].s \in {s, "none"}
        /\ call'[c].op # "approve"
    <3>1. CASE call[c].pc = "held"
      <4>1. call' = [call EXCEPT ![c] = [call[c] EXCEPT !.pc = "file"]]
        BY <1>10, <3>1 DEF OpenSchedule, Goes
      <4>2. call[c].op = "create" /\ call[c] \in CallState
        BY <1>0, <3>1 DEF CallOK
      <4>3. QED
        BY <4>1, <4>2 DEF TypeOK, CallState, Opening
    <3>2. CASE call[c].pc # "held"
      BY <1>10, <3>2, EndedStep DEF OpenSchedule, Idle, Opening
    <3>3. QED
      BY <3>1, <3>2
  <2>5. \A r \in Requests : req[r] # Unfiled => req[r].s # s /\ req[r].s \in Schedules
    BY <2>1, PendingIsRequest DEF ScheduleInv
  <2>6. \A t \in Schedules : sched'[t] # "open" => row'[t] = "none"
    BY <1>00, <2>1, <2>2, <2>3 DEF TypeOK
  <2>7. \A r \in Requests : req'[r] # Unfiled => sched'[req'[r].s] = "open"
    BY <2>2, <2>3, <2>5 DEF ScheduleInv
  <2>8. \A d \in Calls : call'[d].pc # "idle" =>
          (sched'[call'[d].s] = "new" <=> Opening(d)')
    <3> SUFFICES ASSUME NEW d \in Calls, call'[d].pc # "idle"
                 PROVE  sched'[call'[d].s] = "new" <=> Opening(d)'
      OBVIOUS
    <3>1. CASE d = c
      BY <2>1, <2>2, <2>4, <3>1 DEF TypeOK
    <3>2. CASE d # c
      <4>1. call'[d] = call[d] /\ call[d].s \in Schedules /\ call[d].s # s
        BY <1>0, <2>1, <2>4, <3>2 DEF CallOK
      <4>2. sched[call[d].s] = "new" <=> Opening(d)
        BY <4>1 DEF ScheduleInv
      <4>3. QED
        BY <2>3, <4>1, <4>2 DEF Opening
    <3>3. QED
      BY <3>1, <3>2
  <2>9. \A d, e \in Calls : Opening(d)' /\ call'[e].s = call'[d].s => d = e
    <3> SUFFICES ASSUME NEW d \in Calls, NEW e \in Calls, Opening(d)',
                        call'[e].s = call'[d].s
                 PROVE  d = e
      OBVIOUS
    <3>1. d # c /\ call'[d] = call[d] /\ Opening(d)
      BY <2>4 DEF Opening
    <3>2. call[d].s \in Schedules /\ call[d].s # s
      BY <1>0, <2>1, <3>1 DEF CallOK, Opening
    <3>3. e # c
      BY <2>4, <3>1, <3>2, NoneOutside
    <3>4. QED
      BY <2>4, <3>1, <3>3 DEF ScheduleInv
  <2>10. \A d \in Calls : call'[d].op = "approve" =>
           sched'[call'[d].s] = "gone" \/ req'[call'[d].r].s = call'[d].s
    <3> SUFFICES ASSUME NEW d \in Calls, call'[d].op = "approve"
                 PROVE  sched'[call'[d].s] = "gone" \/ req'[call'[d].r].s = call'[d].s
      OBVIOUS
    <3>1. d # c /\ call'[d] = call[d] /\ call[d].op = "approve"
      BY <2>4
    <3>2. call[d].s \in Schedules \ {s}
      BY <1>0, <2>1, <3>1 DEF CallOK, Idle
    <3>3. QED
      BY <2>2, <2>3, <3>1, <3>2 DEF ScheduleInv
  <2>11. ApprovedHasRow'
    <3> SUFFICES ASSUME NEW r \in Requests, req[r].status = "APPROVED"
                 PROVE  row'[req[r].s] # "none"
      BY <2>2 DEF ApprovedHasRow
    <3>1. req[r] # Unfiled /\ row[req[r].s] # "none"
      BY DEF ApprovedHasRow, Unfiled
    <3>2. QED
      BY <2>3, <2>5, <3>1
  <2>12. QED
    BY <2>6, <2>7, <2>8, <2>9, <2>10, <2>11 DEF ScheduleInv
<1>11. ASSUME NEW c \in Calls, DeleteSchedule(c)
       PROVE  ScheduleInv' /\ ApprovedHasRow'
  <2> DEFINE s == call[c].s
  <2>1. s \in Schedules /\ sched[s] # "new"
    BY <1>0, <1>11 DEF DeleteSchedule, Opening, ScheduleInv, CallOK
  <2>2. /\ sched' = [sched EXCEPT ![s] = "gone"]
        /\ row' = [row EXCEPT ![s] = "none"]
        /\ req' = [r \in Requests |-> IF req[r].s = s THEN Unfiled ELSE req[r]]
        /\ call'[c] = Idle /\ \A d \in Calls \ {c} : call'[d] = call[d]
    BY <1>11, EndedStep DEF DeleteSchedule
  <2>3. \A t \in Schedules : sched'[t] # "open" => row'[t] = "none"
    BY <1>00, <2>1, <2>2 DEF TypeOK
  <2>4. \A r \in Requests : req'[r] # Unfiled =>
          req'[r] = req[r] /\ req[r].s \in Schedules \ {s}
    BY <2>2, PendingIsRequest
  <2>5. \A r \in Requests : req'[r] # Unfiled => sched'[req'[r].s] = "open"
    BY <2>2, <2>4 DEF ScheduleInv, TypeOK
  <2>6. \A d \in Calls : call'[d].pc # "idle" =>
          /\ d # c /\ call'[d] = call[d] /\ call[d].s \in Schedules
          /\ sched'[call[d].s] = "new" <=> sched[call[d].s] = "new"
    BY <1>0, <2>1, <2>2 DEF Idle, TypeOK, CallOK
  <2>7. \A d \in Calls : call'[d].pc # "idle" =>
          (sched'[call'[d].s] = "new" <=> Opening(d)')
    BY <2>6 DEF ScheduleInv, Opening
  <2>8. \A d, e \in Calls : Opening(d)' /\ call'[e].s = call'[d].s => d = e
    <3> SUFFICES ASSUME NEW d \in Calls, NEW e \in Calls, Opening(d)',
                        call'[e].s = call'[d].s
                 PROVE  d = e
      OBVIOUS
    <3>1. call'[d] = call[d] /\ Opening(d) /\ call[d].s \in Schedules
      BY <2>6 DEF Opening
    <3>2. e # c
      BY <2>2, <3>1, NoneOutside DEF Idle
    <3>3. QED
      BY <2>2, <3>1, <3>2 DEF ScheduleInv
  <2>9. \A d \in Calls : call'[d].op = "approve" =>
          sched'[call'[d].s] = "gone" \/ req'[call'[d].r].s = call'[d].s
    <3> SUFFICES ASSUME NEW d \in Calls, call'[d].op = "approve", call'[d].s # s
                 PROVE  sched'[call'[d].s] = "gone" \/ req'[call'[d].r].s = call'[d].s
      BY <2>1, <2>2 DEF TypeOK
    <3>1. d # c /\ call'[d] = call[d] /\ call[d].op = "approve"
      BY <2>2 DEF Idle
    <3>2. call[d].s \in Schedules /\ call[d].r \in Requests
      BY <1>0, <3>1 DEF CallOK, CallState, Idle
    <3>3. QED
      BY <2>2, <3>1, <3>2 DEF ScheduleInv, TypeOK
  <2>10. ApprovedHasRow'
    <3> SUFFICES ASSUME NEW r \in Requests, req'[r].status = "APPROVED"
                 PROVE  row'[req'[r].s] # "none"
      BY DEF ApprovedHasRow
    <3>1. req'[r] # Unfiled
      BY DEF Unfiled
    <3>2. QED
      BY <2>2, <2>4, <3>1 DEF ApprovedHasRow, TypeOK
  <2>11. QED
    BY <2>3, <2>5, <2>7, <2>8, <2>9, <2>10 DEF ScheduleInv
<1>12. QED
  BY <1>1, <1>2, <1>3, <1>4, <1>5, <1>6, <1>7, <1>8, <1>9, <1>10, <1>11 DEF Next

-----------------------------------------------------------------------------
(* One call at a time. *)

LEMMA Alone ==
  ASSUME TypeOK, ShapeInv, SerialInv, use.serial, NEW c \in Calls,
         call[c].pc # "idle" \/ \E op \in Op : Free(c, op)
  PROVE  \A d \in Calls \ {c} : call[d] = Idle
<1>1. \A d \in Calls : call[d].pc = "idle" => call[d] = Idle
  BY DEF ShapeInv, CallOK
<1>2. \A d \in Calls \ {c} : call[d].pc = "idle"
  BY DEF SerialInv, Free, Quiet
<1>3. QED
  BY <1>1, <1>2

(* Whoever moves was the only one; what is left to show is about it. *)
LEMMA SerialCall ==
  ASSUME TypeOK, ShapeInv, SerialInv, use.serial, use' = use, NEW c \in Calls,
         call[c].pc # "idle" \/ \E op \in Op : Free(c, op),
         \A d \in Calls \ {c} : call'[d] = call[d],
         StillTrue(c)'
  PROVE  SerialInv'
<1>1. \A d \in Calls \ {c} : call'[d] = Idle
  BY Alone
<1>2. \A d \in Calls \ {c} : call'[d].pc = "idle"
  BY <1>1 DEF Idle
<1>3. \A d \in Calls \ {c} : StillTrue(d)'
  BY <1>2 DEF StillTrue
<1>4. QED
  BY <1>2, <1>3 DEF SerialInv

LEMMA SerialEnd ==
  ASSUME TypeOK, ShapeInv, SerialInv, use.serial, use' = use, NEW c \in Calls,
         call[c].pc # "idle", Ended(c)
  PROVE  SerialInv'
<1>1. call'[c].pc = "idle" /\ \A d \in Calls \ {c} : call'[d] = call[d]
  BY EndedStep DEF Idle
<1>2. StillTrue(c)'
  BY <1>1 DEF StillTrue
<1>3. QED
  BY <1>1, <1>2, SerialCall

LEMMA SerialStep ==
  ASSUME TypeOK, ShapeInv, SerialInv, Next
  PROVE  SerialInv'
<1> SUFFICES ASSUME use.serial PROVE SerialInv'
  BY DEF SerialInv, Next
<1>0. use' = use
  BY DEF Next
<1>00. \A c \in Calls : call[c] \in CallState /\ CallOK(call[c])
  BY DEF TypeOK, ShapeInv
<1>1. ASSUME NEW c \in Calls, NEW s \in Schedules,
             Enroll(c, s) \/ Bulk(c, s) \/ AddSchedule(c, s) \/ CountEnrollments(c, s)
      PROVE  SerialInv'
  <2>1. PICK op, pc :
          /\ op \in Op /\ Free(c, op) /\ Begin(c, op, pc, s) /\ row' = row
          /\ pc \in {"file", "tx", "elsewhere", "reactivate", "bare", "held", "create",
                     "delete"}
          /\ op \in {"enroll", "bulk", "create", "delete"}
          /\ pc \in {"tx", "create"} => ~Elsewhere(s)
    BY <1>1 DEF Enroll, Bulk, AddSchedule, CountEnrollments, Op
  <2>2. /\ call'[c].pc = pc /\ call'[c].op = op /\ call'[c].s = s
        /\ \A d \in Calls \ {c} : call'[d] = call[d]
    BY <2>1 DEF Begin, TypeOK, Idle
  <2>3. ~Elsewhere(s)' <=> ~Elsewhere(s)
    BY <2>1 DEF Elsewhere, LiveIn
  <2>4. StillTrue(c)'
    BY <2>1, <2>2, <2>3 DEF StillTrue
  <2>5. QED
    BY <1>0, <2>1, <2>2, <2>4, SerialCall
<1>2. ASSUME NEW c \in Calls, NEW s \in Schedules, UpdateEnrollment(c, s)
      PROVE  SerialInv'
  <2>1. PICK st \in BatchEnrollmentStatus :
          call' = [call EXCEPT ![c] =
            [Idle EXCEPT !.op = "update", !.s = s, !.st = st,
                         !.pc = IF NeedsCheck(st, row[s]) THEN "elsewhere" ELSE "set"]]
    BY <1>2 DEF UpdateEnrollment
  <2>2. /\ call'[c].pc = IF NeedsCheck(st, row[s]) THEN "elsewhere" ELSE "set"
        /\ call'[c].s = s /\ call'[c].st = st /\ call'[c].op = "update"
        /\ \A d \in Calls \ {c} : call'[d] = call[d]
    BY <2>1 DEF TypeOK, Idle
  <2>3. Free(c, "update") /\ row[s] # "none" /\ row' = row
    BY <1>2 DEF UpdateEnrollment
  <2>4. StillTrue(c)'
    BY <2>2, <2>3 DEF StillTrue, NeedsCheck
  <2>5. QED
    BY <1>0, <2>2, <2>3, <2>4, SerialCall DEF Op
<1>3. ASSUME NEW c \in Calls, NEW s \in Schedules, NEW prev \in Schedules,
             Move(c, s, prev) \/ Transfer(c, s, prev)
      PROVE  SerialInv'
  <2>1. PICK op, was :
          /\ op \in {"move", "transfer"} /\ BeginMove(c, op, s, prev, was)
          /\ op = "transfer" => s # prev /\ row[prev] = "ACTIVE" /\ was = "ACTIVE"
    BY <1>3 DEF Move, Transfer
  <2>2. /\ call'[c].pc = "tx" /\ call'[c].s = s /\ call'[c].op = op
        /\ call'[c].prev = prev /\ call'[c].sawPrev = was
        /\ \A d \in Calls \ {c} : call'[d] = call[d]
        /\ Free(c, op) /\ row' = row /\ op \in Op
    BY <2>1 DEF BeginMove, TypeOK, Idle, Op
  <2>3. StillTrue(c)'
    BY <2>1, <2>2 DEF StillTrue
  <2>4. QED
    BY <1>0, <2>2, <2>3, SerialCall
<1>4. ASSUME NEW c \in Calls, NEW r \in Requests, Answer(c, r)
      PROVE  SerialInv'
  <2>1. PICK op \in {"approve", "reject"} :
          /\ Free(c, op) /\ req' = req
          /\ call' = [call EXCEPT ![c] = [Idle EXCEPT
                     !.op = op, !.r = r, !.s = req[r].s,
                     !.pc = IF op = "approve" THEN "tx" ELSE "reject"]]
    BY <1>4 DEF Answer
  <2>2. /\ call'[c].pc = (IF op = "approve" THEN "tx" ELSE "reject")
        /\ call'[c].s = req[r].s /\ call'[c].op = op /\ call'[c].r = r
        /\ \A d \in Calls \ {c} : call'[d] = call[d]
    BY <2>1 DEF TypeOK, Idle
  <2>3. req[r] = [s |-> req[r].s, status |-> "PENDING"]
    <3>1. req[r].status = "PENDING" /\ req[r] # Unfiled
      BY <1>4 DEF Answer, MayAnswer, Unfiled
    <3>2. QED
      BY <3>1, PendingIsRequest DEF Request
  <2>4. StillTrue(c)'
    BY <2>1, <2>2, <2>3 DEF StillTrue
  <2>5. QED
    BY <1>0, <2>1, <2>2, <2>4, SerialCall DEF Op
<1>5. ASSUME NEW c \in Calls, Snapshot(c)
      PROVE  SerialInv'
  <2>1. CASE Ended(c)
    BY <1>0, <1>5, <2>1, SerialEnd DEF Snapshot
  <2>2. CASE ~Ended(c)
    <3> DEFINE cl == call[c]
               was == IF cl.op = "move" THEN row[cl.prev] ELSE cl.sawPrev
               saw == IF cl.prev = cl.s THEN Retired(row[cl.s]) ELSE row[cl.s]
    <3>1. call' = [call EXCEPT ![c].pc = "commit", ![c].saw = saw, ![c].sawPrev = was]
      BY <1>5, <2>2 DEF Snapshot
    <3>2. /\ call'[c].pc = "commit" /\ call'[c].saw = saw /\ call'[c].sawPrev = was
          /\ call'[c].s = cl.s /\ call'[c].op = cl.op /\ call'[c].prev = cl.prev
          /\ call'[c].r = cl.r /\ call'[c].st = cl.st
          /\ \A d \in Calls \ {c} : call'[d] = call[d]
      BY <1>00, <3>1 DEF CallState, TypeOK
    <3>3. cl.pc = "tx" /\ StillTrue(c) /\ UNCHANGED <<row, req>>
      BY <1>5 DEF Snapshot, SerialInv
    <3>4. StillTrue(c)'
      BY <3>2, <3>3 DEF StillTrue, Elsewhere, LiveIn
    <3>5. QED
      BY <1>0, <3>2, <3>3, <3>4, SerialCall
  <2>3. QED
    BY <2>1, <2>2
<1>6. ASSUME NEW c \in Calls,
             Commit(c) \/ CreateRequest(c) \/ Insert(c) \/ Reactivate(c)
               \/ SetStatus(c) \/ Reject(c) \/ DeleteSchedule(c)
      PROVE  SerialInv'
  <2>1. Ended(c) /\ call[c].pc # "idle"
    BY <1>6 DEF Commit, CreateRequest, Insert, Reactivate, SetStatus, Reject, DeleteSchedule
  <2>2. QED
    BY <1>0, <2>1, SerialEnd
<1>7. ASSUME NEW c \in Calls, FindPending(c) \/ CheckElsewhere(c) \/ OpenSchedule(c)
      PROVE  SerialInv'
  <2>1. call[c].pc # "idle"
    BY <1>7 DEF FindPending, CheckElsewhere, OpenSchedule
  <2>2. CASE Ended(c)
    BY <1>0, <2>1, <2>2, SerialEnd
  <2>3. CASE ~Ended(c)
    <3>1. PICK pc \in {"request", "file", "insert", "set"} :
            /\ Goes(c, pc)
            /\ pc = "request" => MayFile(call[c].s) /\ req' = req
            /\ pc = "set" => ~Elsewhere(call[c].s) /\ row' = row
      BY <1>7, <2>3 DEF FindPending, CheckElsewhere, OpenSchedule
    <3>2. /\ call'[c].pc = pc /\ call'[c].s = call[c].s
          /\ \A d \in Calls \ {c} : call'[d] = call[d]
      BY <1>00, <3>1 DEF Goes, CallState, TypeOK
    <3>3. StillTrue(c)'
      BY <3>1, <3>2 DEF StillTrue, Elsewhere, LiveIn, MayFile
    <3>4. QED
      BY <1>0, <2>1, <3>2, <3>3, SerialCall
  <2>4. QED
    BY <2>2, <2>3
<1>8. QED
  BY <1>1, <1>2, <1>3, <1>4, <1>5, <1>6, <1>7 DEF Next

-----------------------------------------------------------------------------
(* One question at a time. *)

LEMMA OnePendingStep ==
  ASSUME IInv, Next
  PROVE  OnePending'
<1> SUFFICES ASSUME use.serial PROVE OnePending'
  BY DEF OnePending, Next
<1>0. /\ \A c \in Calls : call[c] \in CallState /\ CallOK(call[c])
      /\ req \in [Requests -> Request \cup {Unfiled}]
      /\ \A r1, r2 \in Requests :
           req[r1].status = "PENDING" /\ req[r1] = req[r2] => r1 = r2
  BY DEF IInv, TypeOK, ShapeInv, OnePending
<1>1. ASSUME NEW c \in Calls, CreateRequest(c)
      PROVE  OnePending'
  <2> DEFINE q == [s |-> call[c].s, status |-> "PENDING"]
  <2>1. \A r \in Requests : req[r] # q
    BY <1>1 DEF CreateRequest, IInv, SerialInv, StillTrue, MayFile
  <2>2. CASE req' = req
    BY <1>0, <2>2 DEF OnePending
  <2>3. CASE \E r \in Requests : req' = [req EXCEPT ![r] = q]
    BY <1>0, <2>1, <2>3 DEF OnePending
  <2>4. QED
    BY <1>1, <2>2, <2>3 DEF CreateRequest
<1>2. ASSUME \A r \in Requests : req'[r].status = "PENDING" => req'[r] = req[r]
      PROVE  OnePending'
  BY <1>0, <1>2 DEF OnePending
<1>3. ASSUME NEW c \in Calls, Commit(c)
      PROVE  OnePending'
  <2>1. CASE call[c].op = "approve" /\ ~Fails(call[c])
    <3>1. call[c].r \in Requests
      BY <1>0, <2>1 DEF CallOK, CallState
    <3>2. req' = [req EXCEPT ![call[c].r] = [req[call[c].r] EXCEPT !.status = "APPROVED"]]
      BY <1>3, <2>1 DEF Commit
    <3>3. req[call[c].r] # Unfiled
      BY <2>1 DEF Fails
    <3>4. [req[call[c].r] EXCEPT !.status = "APPROVED"].status # "PENDING"
      BY <1>0, <3>1, <3>3 DEF Request
    <3>5. QED
      BY <1>0, <1>2, <3>1, <3>2, <3>4
  <2>2. CASE ~(call[c].op = "approve" /\ ~Fails(call[c]))
    BY <1>2, <1>3, <2>2 DEF Commit
  <2>3. QED
    BY <2>1, <2>2
<1>4. ASSUME NEW c \in Calls, Reject(c)
      PROVE  OnePending'
  <2>1. call[c].r \in Requests
    BY <1>0, <1>4 DEF CallOK, CallState, Reject
  <2>2. CASE req[call[c].r] = Unfiled
    BY <1>2, <1>4, <2>2 DEF Reject, Rejected
  <2>3. CASE req[call[c].r] # Unfiled
    <3>1. req' = [req EXCEPT ![call[c].r] = [req[call[c].r] EXCEPT !.status = "REJECTED"]]
      BY <1>4, <2>3 DEF Reject, Rejected
    <3>2. [req[call[c].r] EXCEPT !.status = "REJECTED"].status # "PENDING"
      BY <1>0, <2>1, <2>3 DEF Request
    <3>3. QED
      BY <1>0, <1>2, <2>1, <3>1, <3>2
  <2>4. QED
    BY <2>2, <2>3
<1>5. ASSUME NEW c \in Calls, DeleteSchedule(c)
      PROVE  OnePending'
  BY <1>0, <1>2, <1>5 DEF DeleteSchedule, Unfiled
<1>6. ASSUME req' = req
      PROVE  OnePending'
  BY <1>2, <1>6
<1>7. QED
  BY <1>1, <1>3, <1>4, <1>5, <1>6
  DEF Next, Enroll, Bulk, UpdateEnrollment, AddSchedule, CountEnrollments, Move,
      Transfer, BeginMove, Answer, Snapshot, FindPending, CheckElsewhere, Insert,
      Reactivate, SetStatus, OpenSchedule

LEMMA InUseStep ==
  ASSUME TypeOK, ShapeInv, InUse, Next
  PROVE  InUse'
<1>0. use' = use /\ \A c \in Calls : call[c] \in CallState
  BY DEF Next, TypeOK
<1>1. ASSUME NEW c \in Calls, NEW v, v.op \in use.ops, call' = [call EXCEPT ![c] = v]
      PROVE  InUse'
  BY <1>0, <1>1 DEF InUse, TypeOK
<1>2. ASSUME NEW c \in Calls, NEW op, NEW pc, NEW s, Free(c, op), Begin(c, op, pc, s)
      PROVE  InUse'
  <2>1. op \in use.ops /\ [Idle EXCEPT !.op = op, !.pc = pc, !.s = s].op = op
    BY <1>2 DEF Free, Idle
  <2>2. QED
    BY <1>1, <1>2, <2>1 DEF Begin
<1>3. ASSUME NEW c \in Calls, Ended(c)
      PROVE  InUse'
  BY <1>0, <1>3 DEF InUse, Ended, Idle, TypeOK
<1>4. ASSUME NEW c \in Calls, NEW pc, Goes(c, pc), call[c].pc # "idle"
      PROVE  InUse'
  <2>1. [call[c] EXCEPT !.pc = pc].op = call[c].op /\ call[c].op \in use.ops
    BY <1>0, <1>4 DEF InUse, CallState
  <2>2. QED
    BY <1>1, <1>4, <2>1 DEF Goes
<1>5. ASSUME NEW c \in Calls, NEW s \in Schedules,
             Enroll(c, s) \/ Bulk(c, s) \/ AddSchedule(c, s) \/ CountEnrollments(c, s)
      PROVE  InUse'
  BY <1>2, <1>5 DEF Enroll, Bulk, AddSchedule, CountEnrollments
<1>6. ASSUME NEW c \in Calls, NEW s \in Schedules, UpdateEnrollment(c, s)
      PROVE  InUse'
  <2>1. PICK st, pc :
          call' = [call EXCEPT ![c] = [Idle EXCEPT !.op = "update", !.s = s,
                                                   !.st = st, !.pc = pc]]
    BY <1>6 DEF UpdateEnrollment
  <2>2. [Idle EXCEPT !.op = "update", !.s = s, !.st = st, !.pc = pc].op \in use.ops
    BY <1>6 DEF UpdateEnrollment, Free, Idle
  <2>3. QED
    BY <1>1, <2>1, <2>2
<1>7. ASSUME NEW c \in Calls, NEW op, NEW s, NEW prev, NEW was,
             BeginMove(c, op, s, prev, was)
      PROVE  InUse'
  <2>1. [Idle EXCEPT !.op = op, !.pc = "tx", !.s = s, !.prev = prev,
                     !.sawPrev = was].op \in use.ops
    BY <1>7 DEF BeginMove, Free, Idle
  <2>2. QED
    BY <1>1, <1>7, <2>1 DEF BeginMove
<1>8. ASSUME NEW c \in Calls, NEW r \in Requests, Answer(c, r)
      PROVE  InUse'
  <2>1. PICK op, pc :
          /\ Free(c, op)
          /\ call' = [call EXCEPT ![c] = [Idle EXCEPT !.op = op, !.r = r,
                                                      !.s = req[r].s, !.pc = pc]]
    BY <1>8 DEF Answer
  <2>2. [Idle EXCEPT !.op = op, !.r = r, !.s = req[r].s, !.pc = pc].op \in use.ops
    BY <2>1 DEF Free, Idle
  <2>3. QED
    BY <1>1, <2>1, <2>2
<1>9. ASSUME NEW c \in Calls, Snapshot(c)
      PROVE  InUse'
  <2>1. CASE Ended(c)
    BY <1>3, <2>1
  <2>2. CASE ~Ended(c)
    <3>1. PICK saw, was :
            call' = [call EXCEPT ![c].pc = "commit", ![c].saw = saw, ![c].sawPrev = was]
      BY <1>9, <2>2 DEF Snapshot
    <3>2. /\ call'[c].op = call[c].op /\ call[c].pc # "idle"
          /\ \A d \in Calls \ {c} : call'[d] = call[d]
      BY <1>0, <1>9, <3>1 DEF Snapshot, TypeOK, CallState
    <3>3. QED
      BY <1>0, <3>2 DEF InUse
  <2>3. QED
    BY <2>1, <2>2
<1>10. QED
  BY <1>3, <1>4, <1>5, <1>6, <1>7, <1>8, <1>9
  DEF Next, Move, Transfer, FindPending, CheckElsewhere, OpenSchedule, Commit,
      CreateRequest, Insert, Reactivate, SetStatus, Reject, DeleteSchedule

LEMMA IInvInit == Init => IInv
<1> SUFFICES ASSUME Init PROVE IInv
  OBVIOUS
<1>1. TypeOK /\ ShapeInv
  BY IdleOK, RowType DEF Init, TypeOK, ShapeInv
<1>2. \A c \in Calls : call[c].pc = "idle" /\ call[c].op = "none"
  BY DEF Init, Idle
<1>3. ScheduleInv
  BY <1>2 DEF Init, ScheduleInv, Opening
<1>4. ApprovedHasRow /\ OnePending
  BY DEF Init, ApprovedHasRow, OnePending, Unfiled
<1>5. SerialInv /\ InUse
  BY <1>2 DEF SerialInv, StillTrue, InUse
<1>6. QED
  BY <1>1, <1>3, <1>4, <1>5 DEF IInv

LEMMA IInvStutter == IInv /\ UNCHANGED vars => IInv'
BY DEF IInv, vars, TypeOK, ShapeInv, InUse, CallOK, ScheduleInv, Opening, ApprovedHasRow,
       SerialInv, StillTrue, MayFile, Elsewhere, LiveIn, OnePending

LEMMA IInvStep == IInv /\ [Next]_vars => IInv'
BY TypedStep, InUseStep, ScheduleStep, SerialStep, OnePendingStep, IInvStutter DEF IInv

LEMMA IInvHolds == Spec => []IInv
BY IInvInit, IInvStep, PTL DEF Spec

(* The requests and the rows agree: with one call at a time a schedule has *)
(* one question open (fileDoubleEnrollmentRequest reuses it), and however  *)
(* the calls overlap an approved request's schedule has a row.             *)
THEOREM RequestsAndRowsAgree == Spec => []RequestsAgree
<1>1. IInv => RequestsAgree
  BY DEF IInv, RequestsAgree
<1>2. QED
  BY <1>1, IInvHolds, PTL

-----------------------------------------------------------------------------
(* What a step never does. *)

(* A step that changes no row strands, adds and approves nobody.           *)
RowsKept ==
  \/ \E c \in Calls :
       \/ FindPending(c) \/ CreateRequest(c) \/ CheckElsewhere(c) \/ Reject(c)
       \/ Snapshot(c)
  \/ \E c \in Calls, s \in Schedules :
       \/ Enroll(c, s) \/ Bulk(c, s) \/ UpdateEnrollment(c, s)
       \/ AddSchedule(c, s) \/ CountEnrollments(c, s)
       \/ \E prev \in Schedules : Move(c, s, prev) \/ Transfer(c, s, prev)
  \/ \E c \in Calls, r \in Requests : Answer(c, r)

LEMMA RowsKeptStep == RowsKept => row' = row
BY DEF RowsKept, FindPending, CreateRequest, CheckElsewhere, Reject, Snapshot, Enroll,
       Bulk, UpdateEnrollment, AddSchedule, CountEnrollments, Move, Transfer,
       BeginMove, Answer

(* A commit brings the row wanted to life or fails as a whole; it leaves   *)
(* every row but that one and the one it retires.                          *)
LEMMA CommitRow ==
  ASSUME TypeOK, ShapeInv, NEW c \in Calls, Commit(c)
  PROVE  LET cl == call[c] IN
         /\ cl.s \in Schedules
         /\ \/ row' = row
            \/ /\ ~Fails(cl) /\ row'[cl.s] = "ACTIVE"
               /\ \A s \in Schedules \ {cl.s} :
                    row'[s] = IF s = cl.prev /\ Retires(cl) THEN "DROPPED" ELSE row[s]
<1> DEFINE cl == call[c]
<1>1. cl \in CallState /\ CallOK(cl) /\ cl.s \in Schedules /\ row' = Committed(cl)
  BY DEF TypeOK, ShapeInv, Commit, CallOK
<1>2. CASE Fails(cl)
  BY <1>1, <1>2 DEF Committed
<1>3. CASE ~Fails(cl) /\ cl.op = "approve" /\ cl.saw = "ACTIVE"
  <2>1. cl.prev = "none"
    BY <1>1, <1>3 DEF CallOK
  <2>2. \A s \in Schedules : row'[s] = row[s]
    BY <1>1, <1>3, <2>1, NoneOutside DEF Committed, Retires
  <2>3. row' = row
    BY <1>1, <2>2, CommittedType DEF TypeOK
  <2>4. QED
    BY <1>1, <2>3
<1>4. CASE ~Fails(cl) /\ ~(cl.op = "approve" /\ cl.saw = "ACTIVE")
  BY <1>1, <1>4 DEF Committed
<1>5. QED
  BY <1>2, <1>3, <1>4

(* However moves, transfers and approvals interleave, no step but a status *)
(* set by hand (updateEnrollment) or a deletion takes the last live        *)
(* enrolment of the student away.                                          *)
THEOREM NobodyIsStranded == Spec => NeverStranded
<1> DEFINE Strands == LiveIn(row) # {} /\ LiveIn(row') = {}
           ByHand == \E c \in Calls : call[c].pc \in {"set", "delete"}
<1>1. ASSUME IInv, Next, Strands
      PROVE  ByHand
  <2>0. TypeOK /\ ShapeInv /\ \A s \in Schedules : row'[s] # "ACTIVE"
    BY <1>1 DEF IInv, LiveIn
  <2>1. CASE RowsKept
    BY <1>1, <2>1, RowsKeptStep DEF LiveIn
  <2>2. ASSUME NEW c \in Calls, Commit(c) PROVE ByHand
    BY <1>1, <2>0, <2>2, CommitRow DEF LiveIn
  <2>3. ASSUME NEW c \in Calls, Insert(c) \/ Reactivate(c) \/ OpenSchedule(c)
        PROVE  ByHand
    <3>1. call[c].s \in Schedules
      BY <2>0, <2>3 DEF ShapeInv, CallOK, Insert, Reactivate, OpenSchedule
    <3>2. \A s \in Schedules : row'[s] = row[s]
      BY <2>0, <2>3, <3>1 DEF Insert, Reactivate, OpenSchedule, TypeOK
    <3>3. QED
      BY <1>1, <3>2 DEF LiveIn
  <2>4. ASSUME NEW c \in Calls, SetStatus(c) \/ DeleteSchedule(c) PROVE ByHand
    BY <2>4 DEF SetStatus, DeleteSchedule
  <2>5. QED
    BY <1>1, <2>1, <2>2, <2>3, <2>4 DEF Next, RowsKept
<1>2. IInv /\ [Next]_vars => [Strands => ByHand]_vars
  BY <1>1 DEF vars
<1>3. QED
  BY <1>2, IInvHolds, PTL DEF Spec, NeverStranded

(* One call at a time, a request answered keeps its answer until its       *)
(* schedule is deleted, and the one that is approved leaves the student    *)
(* ACTIVE in its schedule (approveDoubleEnrollment, rejectDoubleEnrollment).*)
THEOREM AnswersAreFinal == Spec => AnswersStand
<1> DEFINE Stands(r) ==
             /\ req[r].status \in {"APPROVED", "REJECTED"} => req'[r] \in {req[r], Unfiled}
             /\ req[r].status # "APPROVED" /\ req'[r].status = "APPROVED"
                  => row'[req[r].s] = "ACTIVE"
<1>1. ASSUME IInv, Next, use.serial, NEW r \in Requests
      PROVE  Stands(r)
  <2>0. /\ TypeOK /\ ShapeInv /\ req \in [Requests -> Request \cup {Unfiled}]
        /\ \A c \in Calls : call[c] \in CallState /\ CallOK(call[c]) /\ StillTrue(c)
    BY <1>1 DEF IInv, SerialInv, TypeOK, ShapeInv
  <2>1. CASE req'[r] = req[r] \/ req'[r] = Unfiled
    BY <2>1 DEF Unfiled
  <2>2. ASSUME NEW c \in Calls, Commit(c) PROVE Stands(r)
    <3>1. CASE call[c].op = "approve" /\ ~Fails(call[c]) /\ r = call[c].r
      <4>1. /\ req[r] = [s |-> call[c].s, status |-> "PENDING"]
            /\ call[c].saw = row[call[c].s] /\ call[c].s \in Schedules
        BY <2>0, <2>2, <3>1, NoneOutside DEF StillTrue, Commit, CallOK
      <4>2. row'[call[c].s] = "ACTIVE"
        BY <2>2, <3>1, <4>1 DEF Commit, Committed
      <4>3. QED
        BY <4>1, <4>2
    <3>2. CASE ~(call[c].op = "approve" /\ ~Fails(call[c]) /\ r = call[c].r)
      <4>1. req'[r] = req[r]
        BY <2>0, <2>2, <3>2 DEF Commit
      <4>2. QED
        BY <2>1, <4>1
    <3>3. QED
      BY <3>1, <3>2
  <2>3. ASSUME NEW c \in Calls, CreateRequest(c) PROVE Stands(r)
    <3>1. \/ req'[r] = req[r]
          \/ req[r] = Unfiled /\ req'[r] = [s |-> call[c].s, status |-> "PENDING"]
      BY <2>0, <2>3 DEF CreateRequest
    <3>2. QED
      BY <2>1, <3>1 DEF Unfiled
  <2>4. ASSUME NEW c \in Calls, Reject(c) PROVE Stands(r)
    <3>1. req[call[c].r].status = "PENDING" /\ req[call[c].r] # Unfiled
      <4>1. req[call[c].r] = [s |-> call[c].s, status |-> "PENDING"]
        BY <2>0, <2>4 DEF StillTrue, Reject
      <4>2. QED
        BY <4>1 DEF Unfiled
    <3>2. CASE r = call[c].r
      <4>1. req'[r] = [req[r] EXCEPT !.status = "REJECTED"]
        BY <2>0, <2>4, <3>1, <3>2 DEF Reject, Rejected
      <4>2. QED
        BY <2>0, <3>1, <3>2, <4>1 DEF Request
    <3>3. CASE r # call[c].r
      BY <2>0, <2>1, <2>4, <3>3 DEF Reject, Rejected
    <3>4. QED
      BY <3>2, <3>3
  <2>5. ASSUME NEW c \in Calls, DeleteSchedule(c) PROVE Stands(r)
    BY <2>1, <2>5 DEF DeleteSchedule
  <2>6. CASE req' = req
    BY <2>1, <2>6
  <2>7. QED
    BY <1>1, <2>2, <2>3, <2>4, <2>5, <2>6
    DEF Next, Enroll, Bulk, UpdateEnrollment, AddSchedule, CountEnrollments, Move,
        Transfer, BeginMove, Answer, Snapshot, FindPending, CheckElsewhere, Insert,
        Reactivate, SetStatus, OpenSchedule
<1>2. IInv /\ [Next]_vars => [use.serial => \A r \in Requests : Stands(r)]_vars
  BY <1>1 DEF vars
<1>3. QED
  BY <1>2, IInvHolds, PTL DEF Spec, AnswersStand

(* A further enrolment beside a live one comes only in the step that       *)
(* approves its request: not by enrollStudent, a new sub-batch, a transfer *)
(* or a status set by hand, one call at a time and without the two screens *)
(* AdditionNeedsApproval leaves out.                                       *)
THEOREM AdditionsAreApproved == Spec => AdditionNeedsApproval
<1> DEFINE Guarded == use.serial /\ use.ops \cap {"bulk", "move"} = {}
<1>1. ASSUME IInv, Next, Guarded, NEW s \in Schedules, AddedUnasked(s)
      PROVE  FALSE
  <2>0. /\ TypeOK /\ ShapeInv
        /\ \A c \in Calls : call[c] \in CallState /\ CallOK(call[c]) /\ StillTrue(c)
        /\ \A c \in Calls : call[c].pc # "idle" => call[c].op \notin {"bulk", "move"}
    BY <1>1 DEF IInv, SerialInv, TypeOK, ShapeInv, InUse
  <2>1. CASE RowsKept
    BY <1>1, <2>1, RowsKeptStep DEF AddedUnasked
  <2>2. ASSUME NEW c \in Calls, ~Elsewhere(call[c].s), call[c].s \in Schedules,
               \A t \in Schedules \ {call[c].s} : row'[t] = row[t]
        PROVE  FALSE
    <3>1. s = call[c].s
      BY <1>1, <2>2 DEF AddedUnasked
    <3>2. LiveIn(row') = {s}
      BY <1>1, <2>2, <3>1 DEF AddedUnasked, LiveIn, Elsewhere
    <3>3. QED
      BY <1>1, <3>2 DEF AddedUnasked
  <2>3. ASSUME NEW c \in Calls, Commit(c) PROVE FALSE
    <3> DEFINE cl == call[c]
    <3>1. /\ cl.s \in Schedules /\ ~Fails(cl) /\ cl.pc = "commit"
          /\ \A t \in Schedules \ {cl.s} :
               row'[t] = IF t = cl.prev /\ Retires(cl) THEN "DROPPED" ELSE row[t]
      BY <1>1, <2>0, <2>3, CommitRow DEF AddedUnasked, Commit
    <3>2. CASE cl.op = "enroll"
      <4>1. cl.prev = "none" /\ ~Elsewhere(cl.s)
        BY <2>0, <3>1, <3>2 DEF CallOK, StillTrue
      <4>2. \A t \in Schedules \ {cl.s} : row'[t] = row[t]
        BY <3>1, <4>1, NoneOutside
      <4>3. QED
        BY <2>2, <3>1, <4>1, <4>2
    <3>3. CASE cl.op = "transfer"
      <4>1. /\ cl.prev \in Schedules \ {cl.s} /\ row[cl.prev] = "ACTIVE"
            /\ Retires(cl)
        BY <2>0, <3>1, <3>3, NoneOutside DEF CallOK, StillTrue, CallState, Retires
      <4>2. row'[cl.prev] = "DROPPED"
        BY <3>1, <4>1
      <4>3. QED
        BY <1>1, <4>1, <4>2 DEF AddedUnasked, LiveIn
    <3>4. CASE cl.op = "approve"
      <4>1. /\ cl.r \in Requests /\ req[cl.r] = [s |-> cl.s, status |-> "PENDING"]
            /\ cl.prev = "none"
        BY <2>0, <3>1, <3>4 DEF CallOK, StillTrue, CallState
      <4>2. s = cl.s
        BY <1>1, <3>1, <4>1, NoneOutside DEF AddedUnasked
      <4>3. req'[cl.r] = [req[cl.r] EXCEPT !.status = "APPROVED"]
        BY <2>0, <2>3, <3>1, <3>4, <4>1 DEF Commit, TypeOK
      <4>4. QED
        BY <1>1, <4>1, <4>2, <4>3 DEF AddedUnasked
    <3>5. QED
      BY <2>0, <3>1, <3>2, <3>3, <3>4 DEF CallOK
  <2>4. ASSUME NEW c \in Calls, Insert(c) \/ Reactivate(c) PROVE FALSE
    BY <2>0, <2>4 DEF CallOK, Insert, Reactivate
  <2>5. ASSUME NEW c \in Calls, SetStatus(c) PROVE FALSE
    <3>1. /\ call[c].s \in Schedules
          /\ \A t \in Schedules \ {call[c].s} : row'[t] = row[t]
      BY <2>0, <2>5 DEF CallOK, SetStatus, TypeOK
    <3>2. s = call[c].s /\ call[c].st = "ACTIVE"
      BY <1>1, <2>0, <2>5, <3>1 DEF AddedUnasked, SetStatus, TypeOK
    <3>3. ~Elsewhere(call[c].s)
      BY <1>1, <2>0, <2>5, <3>2 DEF AddedUnasked, SetStatus, StillTrue
    <3>4. QED
      BY <2>2, <3>1, <3>3
  <2>6. ASSUME NEW c \in Calls, OpenSchedule(c) PROVE FALSE
    <3>1. /\ call[c].s \in Schedules
          /\ \A t \in Schedules \ {call[c].s} : row'[t] = row[t]
      BY <2>0, <2>6 DEF CallOK, OpenSchedule, TypeOK
    <3>2. call[c].pc = "create" /\ ~Elsewhere(call[c].s)
      BY <1>1, <2>0, <2>6 DEF AddedUnasked, OpenSchedule, StillTrue
    <3>3. QED
      BY <2>2, <3>1, <3>2
  <2>7. ASSUME NEW c \in Calls, DeleteSchedule(c) PROVE FALSE
    BY <1>1, <2>0, <2>7 DEF AddedUnasked, DeleteSchedule, TypeOK
  <2>8. QED
    BY <1>1, <2>1, <2>3, <2>4, <2>5, <2>6, <2>7 DEF Next, RowsKept
<1>2. IInv /\ [Next]_vars => [Guarded => \A s \in Schedules : ~AddedUnasked(s)]_vars
  <2>1. ASSUME IInv, UNCHANGED vars, NEW s \in Schedules, AddedUnasked(s)
        PROVE  FALSE
    BY <2>1 DEF vars, AddedUnasked
  <2>2. QED
    BY <1>1, <2>1
<1>3. QED
  BY <1>2, IInvHolds, PTL DEF Spec, AdditionNeedsApproval
=============================================================================
