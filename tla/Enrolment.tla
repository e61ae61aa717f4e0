------------------------------ MODULE Enrolment -----------------------------
(***************************************************************************)
(* The enrolments of one student: rows of StudentBatchEnrollment, one per  *)
(* sub-batch schedule, and the requests that ask the production manager    *)
(* for a second one.  A handler's transaction reads a snapshot and then    *)
(* commits; what it read before the transaction may be older still.        *)
(***************************************************************************)
EXTENDS Integers, FiniteSets

CONSTANTS
  Calls,      \* how many calls may be in flight at once
  Uses,       \* ways the endpoints may be used: see use
  Schedules,  \* sub-batches that may be opened
  Requests    \* double-enrolment requests that may be filed

Op == {"create", "delete", "enroll", "move", "transfer", "update", "bulk",
       "approve", "reject"}

ASSUME UsesShape == Uses \subseteq [serial : BOOLEAN, ops : SUBSET Op, most : Nat]
ASSUME SchedulesFinite == IsFiniteSet(Schedules)
ASSUME NoneOutside == "none" \notin Schedules \cup Requests

BatchEnrollmentStatus == {"ACTIVE", "COMPLETED", "DROPPED", "ON_HOLD"}
Row == BatchEnrollmentStatus \cup {"none"}

VARIABLES
  use,    \* of this behaviour: the endpoints in use, whether one call at a
          \* time, and the most sub-batches it opens; never changes
  sched,  \* a schedule is new, open or gone
  row,    \* status of the row per schedule; "none": there is none
  req,    \* DoubleEnrollmentRequest: schedule and status
  call    \* the calls in flight

vars == <<use, sched, row, req, call>>

Unfiled == [s |-> "none", status |-> "none"]
Request == [s : Schedules, status : {"PENDING", "APPROVED", "REJECTED"}]

Idle == [pc |-> "idle", op |-> "none", s |-> "none", prev |-> "none",
         saw |-> "none", sawPrev |-> "none", r |-> "none", st |-> "none"]

CallState ==
  [pc : {"idle", "tx", "commit", "elsewhere", "insert", "reactivate", "set",
         "file", "request", "bare", "create", "held", "delete", "reject"},
   op : Op \cup {"none"}, s : Schedules \cup {"none"},
   prev : Schedules \cup {"none"}, saw : Row, sawPrev : Row,
   r : Requests \cup {"none"}, st : Row]

TypeOK ==
  /\ use \in Uses
  /\ sched \in [Schedules -> {"new", "open", "gone"}]
  /\ row \in [Schedules -> Row]
  /\ req \in [Requests -> Request \cup {Unfiled}]
  /\ call \in [Calls -> CallState]

Init ==
  /\ use \in Uses
  /\ sched = [s \in Schedules |-> "new"]
  /\ row = [s \in Schedules |-> "none"]
  /\ req = [r \in Requests |-> Unfiled]
  /\ call = [c \in Calls |-> Idle]

Quiet == \A c \in Calls : call[c].pc = "idle"
Free(c, op) == /\ op \in use.ops
               /\ IF use.serial THEN Quiet ELSE call[c].pc = "idle"
Begin(c, op, pc, s) ==
  call' = [call EXCEPT ![c] = [Idle EXCEPT !.op = op, !.pc = pc, !.s = s]]
Goes(c, pc) == call' = [call EXCEPT ![c].pc = pc]
Ended(c) == call' = [call EXCEPT ![c] = Idle]

LiveIn(rows) == {s \in Schedules : rows[s] \in {"ACTIVE", "ON_HOLD"}}

\* Mutant: only ACTIVE rows count as live.
ElsewhereActive(s) == \E t \in Schedules \ {s} : row[t] = "ACTIVE"

(* activeElsewhere: live in a different sub-batch. *)
Elsewhere(s) == \E t \in Schedules \ {s} : t \in LiveIn(row)

-----------------------------------------------------------------------------
(* Filing a request: reuse a PENDING one or create it.                     *)

\* Mutant: every refusal files a request of its own.
MayFileAgain(s) == TRUE

MayFile(s) == \A r \in Requests : req[r] # [s |-> s, status |-> "PENDING"]

FindPending(c) ==
  /\ call[c].pc = "file"
  /\ IF MayFile(call[c].s) THEN Goes(c, "request") ELSE Ended(c)
  /\ UNCHANGED <<sched, row, req>>

CreateRequest(c) ==
  /\ call[c].pc = "request"
  /\ IF sched[call[c].s] = "open"
     THEN \E r \in Requests : /\ req[r] = Unfiled
                              /\ req' = [req EXCEPT ![r] = [s |-> call[c].s,
                                                            status |-> "PENDING"]]
     ELSE UNCHANGED req
  /\ Ended(c)
  /\ UNCHANGED <<sched, row>>

-----------------------------------------------------------------------------
(* A move is an enrolment that names the earlier one; transferBatch moves  *)
(* whoever it found ACTIVE there.                                          *)

Enroll(c, s) ==
  /\ Free(c, "enroll") /\ sched[s] = "open"
  /\ Begin(c, "enroll", IF Elsewhere(s) THEN "file" ELSE "tx", s)
  /\ UNCHANGED <<sched, row, req>>

BeginMove(c, op, s, prev, sawPrev) ==
  /\ Free(c, op) /\ sched[s] = "open"
  /\ call' = [call EXCEPT ![c] = [Idle EXCEPT !.op = op, !.pc = "tx", !.s = s,
                                              !.prev = prev, !.sawPrev = sawPrev]]
  /\ UNCHANGED <<sched, row, req>>

Move(c, s, prev) == BeginMove(c, "move", s, prev, "none")

Transfer(c, s, prev) ==
  /\ s # prev /\ row[prev] = "ACTIVE"
  /\ BeginMove(c, "transfer", s, prev, "ACTIVE")

Retired(st) == IF st = "ACTIVE" THEN "DROPPED" ELSE st

(* Only enrollStudent refuses a student who is ACTIVE there already. *)
Refused(op, st) == op \in {"enroll", "move"} /\ st = "ACTIVE"

(* The transaction's snapshot: the earlier row and the one wanted, seen    *)
(* after the earlier was retired.                                          *)
Snapshot(c) ==
  /\ call[c].pc = "tx"
  /\ LET cl == call[c]
         was == IF cl.op = "move" THEN row[cl.prev] ELSE cl.sawPrev
         saw == IF cl.prev = cl.s THEN Retired(row[cl.s]) ELSE row[cl.s]
     IN  IF Refused(cl.op, saw) THEN Ended(c)
         ELSE call' = [call EXCEPT ![c].pc = "commit", ![c].saw = saw,
                                   ![c].sawPrev = was]
  /\ UNCHANGED <<sched, row, req>>

Retires(cl) == cl.prev # "none" /\ cl.sawPrev = "ACTIVE"

(* The commit fails as a whole: the row appeared meanwhile (unique key),   *)
(* or one it read, the schedule or the request is gone.                    *)
Fails(cl) ==
  \/ cl.saw = "none" /\ (row[cl.s] # "none" \/ sched[cl.s] # "open")
  \/ cl.saw # "none" /\ row[cl.s] = "none"
  \/ Retires(cl) /\ row[cl.prev] = "none"
  \/ cl.op = "approve" /\ req[cl.r] = Unfiled

\* Mutant: the earlier row is dropped before the transaction.
CommittedApart(cl) ==
  [s \in Schedules |-> IF s = cl.prev /\ Retires(cl) THEN "DROPPED"
                       ELSE IF s = cl.s /\ ~Fails(cl) THEN "ACTIVE" ELSE row[s]]

\* Mutant: an approval stamps the request only.
CommittedStampOnly(cl) ==
  [s \in Schedules |-> IF s = cl.s /\ cl.op # "approve" THEN "ACTIVE"
                       ELSE IF s = cl.prev /\ Retires(cl) THEN "DROPPED" ELSE row[s]]

(* An approval that saw the row ACTIVE leaves it alone. *)
Committed(cl) ==
  IF Fails(cl) THEN row
  ELSE [s \in Schedules |->
          IF s = cl.s THEN IF cl.op = "approve" /\ cl.saw = "ACTIVE" THEN row[s]
                           ELSE "ACTIVE"
          ELSE IF s = cl.prev /\ Retires(cl) THEN "DROPPED" ELSE row[s]]

Commit(c) ==
  /\ call[c].pc = "commit"
  /\ row' = Committed(call[c])
  /\ req' = IF call[c].op = "approve" /\ ~Fails(call[c])
            THEN [req EXCEPT ![call[c].r].status = "APPROVED"] ELSE req
  /\ Ended(c)
  /\ UNCHANGED sched

-----------------------------------------------------------------------------
(* bulkEnrollStudents and updateEnrollment.                                *)

Bulk(c, s) ==
  /\ Free(c, "bulk") /\ sched[s] = "open" /\ row[s] # "ACTIVE"
  /\ Begin(c, "bulk", IF row[s] = "none" THEN "elsewhere" ELSE "reactivate", s)
  /\ UNCHANGED <<sched, row, req>>

(* Where a handler goes on from activeElsewhere. *)
CheckElsewhere(c) ==
  /\ call[c].pc = "elsewhere"
  /\ Goes(c, IF Elsewhere(call[c].s) THEN "file"
             ELSE IF call[c].op = "bulk" THEN "insert" ELSE "set")
  /\ UNCHANGED <<sched, row, req>>

(* createMany with skipDuplicates. *)
Insert(c) ==
  /\ call[c].pc = "insert"
  /\ row' = [row EXCEPT ![call[c].s] =
               IF @ = "none" /\ sched[call[c].s] = "open" THEN "ACTIVE" ELSE @]
  /\ Ended(c)
  /\ UNCHANGED <<sched, req>>

(* updateMany by the ids read. *)
Reactivate(c) ==
  /\ call[c].pc = "reactivate"
  /\ row' = [row EXCEPT ![call[c].s] = IF @ = "none" THEN @ ELSE "ACTIVE"]
  /\ Ended(c)
  /\ UNCHANGED <<sched, req>>

\* Mutant: an enrolment may be activated without the check.
NeedsCheckNever(st, old) == FALSE

NeedsCheck(st, old) == st = "ACTIVE" /\ old \notin {"ACTIVE", "none"}

UpdateEnrollment(c, s) ==
  /\ Free(c, "update") /\ row[s] # "none"
  /\ \E st \in BatchEnrollmentStatus :
       call' = [call EXCEPT ![c] =
         [Idle EXCEPT !.op = "update", !.s = s, !.st = st,
                      !.pc = IF NeedsCheck(st, row[s]) THEN "elsewhere" ELSE "set"]]
  /\ UNCHANGED <<sched, row, req>>

SetStatus(c) ==
  /\ call[c].pc = "set"
  /\ row' = [row EXCEPT ![call[c].s] = IF @ = "none" THEN @ ELSE call[c].st]
  /\ Ended(c)
  /\ UNCHANGED <<sched, req>>

-----------------------------------------------------------------------------
(* Answers to a request.                                                   *)

\* Mutant: a rejected request may still be approved.
MayAnswerRejected(r) == req[r].status \in {"PENDING", "REJECTED"}

MayAnswer(r) == req[r].status = "PENDING"

Answer(c, r) ==
  /\ MayAnswer(r)
  /\ \E op \in {"approve", "reject"} :
       /\ Free(c, op)
       /\ call' = [call EXCEPT ![c] = [Idle EXCEPT
              !.op = op, !.r = r, !.s = req[r].s,
              !.pc = IF op = "approve" THEN "tx" ELSE "reject"]]
  /\ UNCHANGED <<sched, row, req>>

\* Mutant: the request is written without looking whether it is there.
RejectedBlind(r) == [req EXCEPT ![r].status = "REJECTED"]

Rejected(r) ==
  IF req[r] = Unfiled THEN req ELSE [req EXCEPT ![r].status = "REJECTED"]

Reject(c) ==
  /\ call[c].pc = "reject"
  /\ req' = Rejected(call[c].r)
  /\ Ended(c)
  /\ UNCHANGED <<sched, row>>

-----------------------------------------------------------------------------
(* Schedules come, with the student or without, and go.                    *)

Known(s) == sched[s] # "new" \/ \E c \in Calls : call[c].s = s

(* A new schedule has an id of its own, which no other call can name yet.  *)
AddSchedule(c, s) ==
  /\ Free(c, "create") /\ ~Known(s)
  /\ Cardinality({t \in Schedules : Known(t)}) < use.most
  /\ \E pc \in {"bare", IF Elsewhere(s) THEN "held" ELSE "create"} :
       Begin(c, "create", pc, s)
  /\ UNCHANGED <<sched, row, req>>

(* The transaction commits; a student held back has a request filed.       *)
OpenSchedule(c) ==
  /\ call[c].pc \in {"bare", "create", "held"}
  /\ sched' = [sched EXCEPT ![call[c].s] = "open"]
  /\ row' = IF call[c].pc = "create"
            THEN [row EXCEPT ![call[c].s] = "ACTIVE"] ELSE row
  /\ IF call[c].pc = "held" THEN Goes(c, "file") ELSE Ended(c)
  /\ UNCHANGED req

Deletable(st) == st \in {"none", "DROPPED"}

CountEnrollments(c, s) ==
  /\ Free(c, "delete") /\ sched[s] = "open" /\ Deletable(row[s])
  /\ Begin(c, "delete", "delete", s)
  /\ UNCHANGED <<sched, row, req>>

(* The schedule goes with its rows and, by cascade, its requests. *)
DeleteSchedule(c) ==
  /\ call[c].pc = "delete"
  /\ LET s == call[c].s
     IN  /\ sched' = [sched EXCEPT ![s] = "gone"]
         /\ row' = [row EXCEPT ![s] = "none"]
         /\ req' = [r \in Requests |-> IF req[r].s = s THEN Unfiled ELSE req[r]]
  /\ Ended(c)

Next ==
  /\ use' = use
  /\ \E c \in Calls :
       \/ \E s \in Schedules :
            \/ Enroll(c, s) \/ Bulk(c, s) \/ UpdateEnrollment(c, s)
            \/ AddSchedule(c, s) \/ CountEnrollments(c, s)
            \/ \E prev \in Schedules : Move(c, s, prev) \/ Transfer(c, s, prev)
       \/ \E r \in Requests : Answer(c, r)
       \/ Snapshot(c) \/ Commit(c) \/ FindPending(c) \/ CreateRequest(c)
       \/ CheckElsewhere(c) \/ Insert(c) \/ Reactivate(c) \/ SetStatus(c)
       \/ Reject(c) \/ OpenSchedule(c) \/ DeleteSchedule(c)

Spec == Init /\ [][Next]_vars
-----------------------------------------------------------------------------
(* The properties.                                                         *)

(* An enrolment that comes to life beside another live one, with none      *)
(* retired in the same step and no approval given in it.                   *)
AddedUnasked(s) ==
  /\ row[s] # "ACTIVE" /\ row'[s] = "ACTIVE"
  /\ LiveIn(row') # {s} /\ LiveIn(row) \subseteq LiveIn(row')
  /\ \A r \in Requests : req[r].s = s /\ req'[r].status = "APPROVED"
                           => req[r].status = "APPROVED"

(* A further enrolment beside a live one comes with the production         *)
(* manager's approval, in the same step: "a genuinely ADDITIONAL           *)
(* enrollment ... is NOT created here" (enrollStudent).  True of one call  *)
(* at a time without the bulk screen, which brings rows back unasked, and  *)
(* without moves, which may name an enrolment that is not ACTIVE.          *)
AdditionNeedsApproval ==
  [][use.serial /\ use.ops \cap {"bulk", "move"} = {}
       => \A s \in Schedules : ~AddedUnasked(s)]_vars

(* "Re-activating an enrollment must not become a back door around the     *)
(* double-enrollment approval" (updateEnrollment), whatever endpoint       *)
(* activates it.                                                           *)
NoBackDoor ==
  [][\A s \in Schedules :
       AddedUnasked(s) => row[s] \notin {"DROPPED", "COMPLETED", "ON_HOLD"}]_vars

(* "File (or reuse) a PENDING double-enrollment request": never two for    *)
(* one schedule, one call at a time.                                       *)
OnePending ==
  use.serial =>
    \A r1, r2 \in Requests :
      req[r1].status = "PENDING" /\ req[r1] = req[r2] => r1 = r2

(* An answer is final ("this request was already ...") and an approval     *)
(* says the truth ("Approved - the student is now enrolled in the second   *)
(* sub-batch."), one call at a time.                                       *)
AnswersStand ==
  [][use.serial => \A r \in Requests :
       /\ req[r].status \in {"APPROVED", "REJECTED"} => req'[r] \in {req[r], Unfiled}
       /\ req[r].status # "APPROVED" /\ req'[r].status = "APPROVED"
            => row'[req[r].s] = "ACTIVE"]_vars

(* However moves, transfers and approvals interleave, only a status set by *)
(* hand or a deletion leaves a live student without a live enrolment.      *)
NeverStranded ==
  [][LiveIn(row) # {} /\ LiveIn(row') = {}
       => \E c \in Calls : call[c].pc \in {"set", "delete"}]_vars

(* An approved request's schedule has a row for the student, whatever      *)
(* deletions and enrolments it raced.                                      *)
ApprovedHasRow ==
  \A r \in Requests : req[r].status = "APPROVED" => row[req[r].s] # "none"

(* The requests and the rows agree: one question at a time is open for a   *)
(* schedule, and the one answered yes has its row.                         *)
RequestsAgree == OnePending /\ ApprovedHasRow
=============================================================================
