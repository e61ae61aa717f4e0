------------------------------- MODULE Leave --------------------------------
(***************************************************************************)
(* Leave of one employee in one year: the balances per leave type, the     *)
(* leave requests that reserve and use them, the monthly accrual, the      *)
(* confirmation after probation, and compensatory days earned by work on a *)
(* day off.  No endpoint uses a transaction: each call checks in one       *)
(* statement and writes in later ones, so calls interleave between them.   *)
(***************************************************************************)
EXTENDS Integers, FiniteSets

CONSTANTS
  Reqs, CompReqs,  \* rows of LeaveRequest and CompOffRequest
  Calls,           \* how many calls may be in flight at once
  Sizes,           \* lengths a leave may have, in days: see CheckBalance
  Dates,           \* days off the employee may work on
  Offered,         \* statuses of the requests the manager's screens offer
  Yearly,          \* maxDaysPerYear of the casual leave type
  MaxTotal,        \* bound: largest totalDays an accrual or a credit makes
  NoReq, NoDate

Types == {"CASUAL", "COMPENSATORY", "LOSS_OF_PAY"}
Op == {"apply", "approve", "reject", "accrueMonthly", "confirm", "setStatus",
       "switchType", "submitCompOff", "approveCompOff", "rejectCompOff"}

VARIABLES
  use,      \* of this behaviour: the endpoints and calls in use, whether at
            \* least each request gets one answer, and the company's leave types
  emp,      \* Employee.status
  bal,      \* LeaveBalance per type; "has": the row exists
  req,      \* the leave requests
  comp,     \* the comp off requests
  compType, \* the COMPENSATORY type is active
  credited, \* history: days credited per work date
  call      \* the calls in flight

Answered == {"APPROVED", "REJECTED"}
EmployeeStatus == {"ON_PROBATION", "ACTIVE"}       \* those that matter here
LeaveBalance == [has : BOOLEAN, total : Nat, used : Int, pending : Int]
LeaveRequest == [st : Answered \cup {"none", "PENDING"},
                 type : Types \cup {"none"}, days : Sizes \cup {0}]
CompOffRequest == [st : Answered \cup {"none", "PENDING"},
                   date : Dates \cup {NoDate}]
CallState == [pc : {"idle", "create", "reserve", "write", "move", "balance",
                    "increment", "insert", "activate", "allocate", "submit",
                    "stamp", "credit"},
              op : Op \cup {"none"}, r : Reqs \cup CompReqs \cup {NoReq},
              type : Types \cup {"none"}, days : Sizes \cup {0},
              date : Dates \cup {NoDate}]

TypeOK ==
  /\ emp \in EmployeeStatus
  /\ bal \in [Types -> LeaveBalance]
  /\ req \in [Reqs -> LeaveRequest]
  /\ comp \in [CompReqs -> CompOffRequest]
  /\ compType \in BOOLEAN
  /\ credited \in [Dates -> Nat]
  /\ call \in [Calls -> CallState]

Idle == [pc |-> "idle", op |-> "none", r |-> NoReq, type |-> "none",
         days |-> 0, date |-> NoDate]

(* An employee just created: on probation with no balance, or permanent    *)
(* with the casual days HR typed in.                                       *)
Init ==
  /\ \/ /\ emp = "ON_PROBATION"
        /\ bal = [t \in Types |-> [has |-> FALSE, total |-> 0, used |-> 0,
                                   pending |-> 0]]
     \/ /\ emp = "ACTIVE"
        /\ \E n \in 0 .. (IF "CASUAL" \in use.types THEN Yearly ELSE 0) :
             bal = [t \in Types |->
                      [has |-> t = "CASUAL" /\ n > 0,
                       total |-> IF t = "CASUAL" THEN n ELSE 0,
                       used |-> 0, pending |-> 0]]
  /\ req = [r \in Reqs |-> [st |-> "none", type |-> "none", days |-> 0]]
  /\ comp = [k \in CompReqs |-> [st |-> "none", date |-> NoDate]]
  /\ compType = ("COMPENSATORY" \in use.types)
  /\ credited = [d \in Dates |-> 0]
  /\ call = [c \in Calls |-> Idle]

Serial == Cardinality(use.calls) = 1
Quiet == \A c \in Calls : call[c].pc = "idle"
Free(c, op) == op \in use.ops /\ c \in use.calls /\ call[c].pc = "idle"
At(c, op, pc) == call[c].op = op /\ call[c].pc = pc
Goes(c, pc) == call' = [call EXCEPT ![c].pc = pc]
Ended(c) == call' = [call EXCEPT ![c] = Idle]
InUse(r) == \E c \in Calls : call[c].pc # "idle" /\ call[c].r = r

-----------------------------------------------------------------------------
(* leaveController.apply                                                   *)

\* Mutant: days already reserved do not count.
LacksUsedOnly(t, d) ==
  t = "CASUAL" /\ (~bal[t].has \/ bal[t].total - bal[t].used < d)

(* Only a paid type that is no comp off has its balance looked at. *)
Lacks(t, d) ==
  /\ t = "CASUAL"
  /\ ~bal[t].has \/ bal[t].total - bal[t].used - bal[t].pending < d

(* d is the end less the start plus one, as they come: an end before the   *)
(* start gives no days, or fewer than none.                                *)
CheckBalance(c, r, t, d) ==
  /\ Free(c, "apply") /\ req[r].st = "none" /\ ~InUse(r)
  /\ ~Lacks(t, d)
  /\ call' = [call EXCEPT ![c] = [Idle EXCEPT !.pc = "create", !.op = "apply",
                                    !.r = r, !.type = t, !.days = d]]
  /\ UNCHANGED <<emp, bal, req, comp, compType, credited>>

CreateRequest(c) ==
  /\ At(c, "apply", "create")
  /\ req' = [req EXCEPT ![call[c].r] = [st |-> "PENDING", type |-> call[c].type,
                                        days |-> call[c].days]]
  /\ IF call[c].type = "CASUAL" THEN Goes(c, "reserve") ELSE Ended(c)
  /\ UNCHANGED <<emp, bal, comp, compType, credited>>

(* The row was there at the check and is never deleted. *)
ReservePending(c) ==
  /\ At(c, "apply", "reserve")
  /\ bal' = [bal EXCEPT ![call[c].type].pending = @ + call[c].days]
  /\ Ended(c)
  /\ UNCHANGED <<emp, req, comp, compType, credited>>

-----------------------------------------------------------------------------
(* leaveController.approve and reject check no status: pendingForManager   *)
(* offers the PENDING requests, teamAll those of every status.             *)

ReadRequest(c, op, r) ==
  /\ Free(c, op) /\ req[r].st \in Offered
  /\ use.oneAnswer => ~\E k \in Calls : call[k].op \in {"approve", "reject"}
                                    /\ call[k].r = r
  /\ call' = [call EXCEPT ![c] = [Idle EXCEPT !.pc = "write", !.op = op, !.r = r,
                                    !.type = req[r].type, !.days = req[r].days]]
  /\ UNCHANGED <<emp, bal, req, comp, compType, credited>>

Answer(op) == IF op \in {"approve", "approveCompOff"} THEN "APPROVED" ELSE "REJECTED"

WriteStatus(c, op) ==
  /\ At(c, op, "write")
  /\ req' = [req EXCEPT ![call[c].r].st = Answer(op)]
  /\ IF call[c].type = "LOSS_OF_PAY" THEN Ended(c) ELSE Goes(c, "move")
  /\ UNCHANGED <<emp, bal, comp, compType, credited>>

\* Mutant: a rejection keeps the days reserved.
MovedOnApproval(b, op, d) ==
  IF op = "approve" THEN [b EXCEPT !.pending = @ - d, !.used = @ + d] ELSE b

\* Mutant: days are added where they should be taken and taken where added.
MovedBack(b, op, d) == [b EXCEPT !.pending = @ + d,
                                 !.used = @ - (IF op = "approve" THEN d ELSE 0)]

Moved(b, op, d) == [b EXCEPT !.pending = @ - d,
                             !.used = @ + (IF op = "approve" THEN d ELSE 0)]

(* updateMany: nothing happens when the type has no balance row. *)
MoveBalance(c, op) ==
  /\ At(c, op, "move")
  /\ LET t == call[c].type
     IN  bal' = [bal EXCEPT ![t] = IF @.has THEN Moved(@, op, call[c].days) ELSE @]
  /\ Ended(c)
  /\ UNCHANGED <<emp, req, comp, compType, credited>>

-----------------------------------------------------------------------------
(* accrueMonthly promotes who has served three months, then adds a day.    *)

Accrue(c) ==
  /\ Free(c, "accrueMonthly")
  /\ emp' \in {emp, "ACTIVE"}
  /\ IF emp' = "ACTIVE"
     THEN call' = [call EXCEPT ![c] = [Idle EXCEPT !.pc = "balance",
                                                   !.op = "accrueMonthly",
                                                   !.type = "CASUAL"]]
     ELSE UNCHANGED call
  /\ UNCHANGED <<bal, req, comp, compType, credited>>

(* Looking a balance row up before writing it: by hand in accrueMonthly,   *)
(* inside the database client's upsert in confirm and compOff.approve.     *)
ReadBalance(c) ==
  /\ call[c].pc = "balance"
  /\ Goes(c, IF bal[call[c].type].has THEN "increment" ELSE "insert")
  /\ UNCHANGED <<emp, bal, req, comp, compType, credited>>

IsCredit(c) == call[c].op = "approveCompOff"
Credit(c) == IF IsCredit(c) THEN credited' = [credited EXCEPT ![call[c].date] = @ + 1]
                            ELSE UNCHANGED credited

\* Mutant: the increment writes what an earlier statement read.
TotalReset(c, t) == IF call[c].op = "confirm" THEN Yearly ELSE 1

TotalWritten(c, t) == IF call[c].op = "confirm" THEN Yearly ELSE t + 1

IncrementTotal(c) ==
  /\ call[c].pc = "increment"
  /\ TotalWritten(c, bal[call[c].type].total) <= MaxTotal
  /\ bal' = [bal EXCEPT ![call[c].type].total = TotalWritten(c, @)]
  /\ Credit(c) /\ Ended(c)
  /\ UNCHANGED <<emp, req, comp, compType>>

InsertBalance(c) ==
  /\ call[c].pc = "insert" /\ ~bal[call[c].type].has
  /\ bal' = [bal EXCEPT ![call[c].type] =
               [has |-> TRUE, total |-> TotalWritten(c, 0), used |-> 0,
                pending |-> 0]]
  /\ Credit(c) /\ Ended(c)
  /\ UNCHANGED <<emp, req, comp, compType>>

(* Another call inserted the row first: the unique key refuses this one    *)
(* and the endpoint fails, its earlier writes kept.                        *)
InsertRefused(c) ==
  /\ call[c].pc = "insert" /\ bal[call[c].type].has
  /\ Ended(c)
  /\ UNCHANGED <<emp, bal, req, comp, compType, credited>>

-----------------------------------------------------------------------------
(* employeeController.confirm, and update when it sets the status back.    *)

ReadEmployee(c) ==
  /\ Free(c, "confirm") /\ emp = "ON_PROBATION"
  /\ call' = [call EXCEPT ![c] = [Idle EXCEPT !.pc = "activate", !.op = "confirm",
                                              !.type = "CASUAL"]]
  /\ UNCHANGED <<emp, bal, req, comp, compType, credited>>

Confirm(c) ==
  /\ At(c, "confirm", "activate")
  /\ emp' = "ACTIVE" /\ Goes(c, "balance")
  /\ UNCHANGED <<bal, req, comp, compType, credited>>

SetStatus(c) ==
  /\ Free(c, "setStatus")
  /\ emp' \in {"ON_PROBATION", "ACTIVE"} \ {emp}
  /\ UNCHANGED <<bal, req, comp, compType, credited, call>>

(* createType and deleteType turn the compensatory type on and off. *)
SwitchCompType(c) ==
  /\ Free(c, "switchType")
  /\ compType' = ~compType
  /\ UNCHANGED <<emp, bal, req, comp, credited, call>>

-----------------------------------------------------------------------------
(* compOffController                                                       *)

\* Mutant: only a request still waiting counts as a duplicate.
AskedPending(d) == \E k \in CompReqs : comp[k].st = "PENDING" /\ comp[k].date = d

AskedFor(d) ==
  \E k \in CompReqs : comp[k].st \in {"PENDING", "APPROVED"} /\ comp[k].date = d

StartSubmit(c, k, d) ==
  /\ Free(c, "submitCompOff") /\ comp[k].st = "none" /\ ~InUse(k)
  /\ ~AskedFor(d)
  /\ call' = [call EXCEPT ![c] = [Idle EXCEPT !.pc = "submit",
                                    !.op = "submitCompOff", !.r = k, !.date = d]]
  /\ UNCHANGED <<emp, bal, req, comp, compType, credited>>

Submit(c) ==
  /\ At(c, "submitCompOff", "submit")
  /\ comp' = [comp EXCEPT ![call[c].r] = [st |-> "PENDING", date |-> call[c].date]]
  /\ Ended(c)
  /\ UNCHANGED <<emp, bal, req, compType, credited>>

\* Mutant: an approved request may be answered again.
AnswerableNotRejected(st) == st \in {"PENDING", "APPROVED"}

Answerable(st) == st = "PENDING"

ReadCompOff(c, op, k) ==
  /\ Free(c, op) /\ Answerable(comp[k].st)
  /\ call' = [call EXCEPT ![c] = [Idle EXCEPT !.pc = "stamp", !.op = op, !.r = k,
                                    !.type = IF op = "approveCompOff"
                                             THEN "COMPENSATORY" ELSE "none",
                                    !.date = comp[k].date]]
  /\ UNCHANGED <<emp, bal, req, comp, compType, credited>>

StampCompOff(c, op) ==
  /\ At(c, op, "stamp")
  /\ comp' = [comp EXCEPT ![call[c].r].st = Answer(op)]
  /\ IF op = "approveCompOff" THEN Goes(c, "credit") ELSE Ended(c)
  /\ UNCHANGED <<emp, bal, req, compType, credited>>

FindCompType(c) ==
  /\ At(c, "approveCompOff", "credit")
  /\ IF compType THEN Goes(c, "balance") ELSE Ended(c)
  /\ UNCHANGED <<emp, bal, req, comp, compType, credited>>

Next ==
  \E c \in Calls :
    \/ \E r \in Reqs, t \in use.types, d \in use.sizes : CheckBalance(c, r, t, d)
    \/ CreateRequest(c) \/ ReservePending(c)
    \/ \E op \in {"approve", "reject"} :
         \/ \E r \in Reqs : ReadRequest(c, op, r)
         \/ WriteStatus(c, op) \/ MoveBalance(c, op)
    \/ Accrue(c) \/ ReadBalance(c) \/ IncrementTotal(c)
    \/ InsertBalance(c) \/ InsertRefused(c)
    \/ ReadEmployee(c) \/ Confirm(c) \/ SetStatus(c) \/ SwitchCompType(c)
    \/ \E k \in CompReqs, d \in Dates : StartSubmit(c, k, d)
    \/ Submit(c) \/ FindCompType(c)
    \/ \E op \in {"approveCompOff", "rejectCompOff"} :
         \/ \E k \in CompReqs : ReadCompOff(c, op, k)
         \/ StampCompOff(c, op)

-----------------------------------------------------------------------------
(* The properties.                                                         *)

(* The sum of n[x] over S, of those that are positive: how many units lie  *)
(* in rows as long as that; and the sum with the negative ones taken off.  *)
Amount(S, n) == Cardinality(UNION {{x} \X (1 .. n[x]) : x \in S})
Net(S, n) == Amount(S, n) - Amount(S, [x \in DOMAIN n |-> -n[x]])

DaysOf(t, st) == Net({r \in Reqs : req[r].st = st /\ req[r].type = t},
                     [r \in Reqs |-> req[r].days])

(* Casual days reserved and used are exactly those of the requests waiting *)
(* and approved, once the calls in flight are over: apply, approve and     *)
(* reject move the balance by the same days whatever they interleave with, *)
(* as long as no two calls answer one request at once, and none that was   *)
(* answered before.                                                        *)
BalanceMatches ==
  Quiet /\ use.oneAnswer /\ Offered \subseteq {"PENDING"} =>
    /\ bal["CASUAL"].pending = DaysOf("CASUAL", "PENDING")
    /\ bal["CASUAL"].used = DaysOf("CASUAL", "APPROVED")

(* "Insufficient leave balance" (leave.controller.ts:91): an application   *)
(* never reserves more casual days than the balance has left, one call at  *)
(* a time.  An application is all it speaks of: the answer to one whose    *)
(* end is before its start raises the days reserved too, with no look at   *)
(* the balance.                                                            *)
NeverOverdrawn ==
  /\ Serial /\ \E c \in Calls : At(c, "apply", "reserve")
  /\ bal'["CASUAL"].pending > bal["CASUAL"].pending
  => bal'["CASUAL"].used + bal'["CASUAL"].pending <= bal'["CASUAL"].total

(* Every compensatory day in the balance was credited by an approval, and  *)
(* every credited day is there, whichever calls race for the row.          *)
CreditsInBalance ==
  bal["COMPENSATORY"].total = Amount(Dates, credited)

(* "Comp off approved - 1 day credited" (compoff.controller.ts:163) and "A *)
(* comp off request for this date already exists": each approved request   *)
(* has credited its day, and no day off two, one call at a time and while  *)
(* the leave type is active.                                               *)
CreditedOnce ==
  Quiet /\ Serial /\ "COMPENSATORY" \in use.types /\ "switchType" \notin use.ops =>
    \A d \in Dates :
      /\ credited[d] <= 1
      /\ credited[d] = Cardinality({k \in CompReqs : comp[k].st = "APPROVED"
                                                     /\ comp[k].date = d})
=============================================================================
