-------------------------------- MODULE Exit --------------------------------
(***************************************************************************)
(* One employee's way out: the resignation that the manager and HR each    *)
(* answer, the exit clearance they each sign, and the employee's status.   *)
(* Both sides answer with the other side's answer as they read it, and the *)
(* employee's row is written in a statement of its own.                    *)
(***************************************************************************)
EXTENDS Integers, FiniteSets

CONSTANTS
  Rows,   \* rows of ResignationRequest
  Calls,  \* how many calls may be in flight at once
  Uses,   \* ways the endpoints may be used: see use
  Typed,  \* statuses HR types into the employee form
  MaxDay, \* bound: the latest day anybody names
  NoRow

Side == {"manager", "hr"}
Op == {"submit", "approve", "reject", "initiate", "clear", "rejectExit",
       "setStatus", "remove"}
EmpStatus == {"ACTIVE", "INACTIVE", "ON_PROBATION", "RESIGNED", "TERMINATED",
              "ON_LEAVE"}

Day == 0 .. MaxDay

ASSUME MaxDayNat == MaxDay \in Nat
ASSUME UsesShape ==
  Uses \subseteq [serial : BOOLEAN, ops : SUBSET Op, rows : Nat,
                  dates : SUBSET (Day \ {0})]
ASSUME TypedStatus == Typed \subseteq EmpStatus
ASSUME NoRowApart == NoRow \notin Rows

VARIABLES
  use,      \* of this behaviour: the endpoints and dates in use, the bound
            \* rows on how many resignations are filed, and whether one
            \* call at a time; never changes
  emp,      \* Employee.status
  exitDate, \* Employee.exitDate; 0 is none
  resig,    \* the resignations
  clear,    \* the exit clearance of each; "none": not initiated
  cleared,  \* history: the sides that ever signed a clearance
  call      \* the calls in flight

vars == <<use, emp, exitDate, resig, clear, cleared, call>>

Answer == {"PENDING", "APPROVED", "REJECTED"}
Active == {"PENDING", "MANAGER_APPROVED", "HR_APPROVED", "BOTH_APPROVED"}
ClearStatus == {"PENDING", "MANAGER_CLEARED", "HR_CLEARED", "COMPLETED",
                "REJECTED"}

(* date is the LastDate of each side, final the finalLastDate. *)
Resignation == [st : Active \cup {"none", "REJECTED"}, managed : BOOLEAN,
                side : [Side -> Answer], date : [Side -> Day], final : Day]
Clearance == [st : ClearStatus \cup {"none"}, side : [Side -> Answer],
              date : [Side -> Day]]

CallState == [pc : {"idle", "create", "approve", "activate", "insert", "sign",
                    "complete"},
              row : Rows \cup {NoRow}, side : Side, date : Day, final : Day,
              st : Active \cup ClearStatus \cup {"none"}]

TypeOK ==
  /\ use \in Uses
  /\ emp \in EmpStatus
  /\ exitDate \in Day
  /\ resig \in [Rows -> Resignation]
  /\ clear \in [Rows -> Clearance]
  /\ cleared \in [Rows -> SUBSET Side]
  /\ call \in [Calls -> CallState]

Idle == [pc |-> "idle", row |-> NoRow, side |-> "hr", date |-> 0, final |-> 0,
         st |-> "none"]
Unanswered == [s \in Side |-> "PENDING"]
Undated == [s \in Side |-> 0]

Init ==
  /\ use \in Uses
  /\ emp \in {"ACTIVE", "ON_PROBATION"}
  /\ exitDate = 0
  /\ resig = [k \in Rows |-> [st |-> "none", managed |-> FALSE,
                              side |-> Unanswered, date |-> Undated,
                              final |-> 0]]
  /\ clear = [k \in Rows |-> [st |-> "none", side |-> Unanswered,
                              date |-> Undated]]
  /\ cleared = [k \in Rows |-> {}]
  /\ call = [c \in Calls |-> Idle]

Other(s) == IF s = "hr" THEN "manager" ELSE "hr"
Later(a, b) == IF a > b THEN a ELSE b
Free(c, op) == /\ op \in use.ops
               /\ \A d \in IF use.serial THEN Calls ELSE {c} :
                    call[d].pc = "idle"
At(c, pc) == call[c].pc = pc
Ended(c) == call' = [call EXCEPT ![c] = Idle]
(* The manager's endpoints need the row to name the manager. *)
Mine(k, s) == s = "manager" => resig[k].managed

-----------------------------------------------------------------------------
(* The resignation                                                         *)

FindActive(c) ==
  /\ Free(c, "submit")
  /\ \A k \in Rows : resig[k].st \notin Active
  /\ LET filed == {k \in Rows : \/ resig[k].st # "none"
                                \/ \E d \in Calls : call[d].row = k}
     IN /\ Cardinality(filed) < use.rows
        /\ \E k \in Rows \ filed :
             call' = [call EXCEPT ![c] = [Idle EXCEPT !.pc = "create", !.row = k]]
  /\ UNCHANGED <<emp, exitDate, resig, clear, cleared>>

(* The employee stays as it is; without a manager only HR can answer. *)
CreateResignation(c) ==
  /\ At(c, "create")
  /\ \E m \in BOOLEAN :
       resig' = [resig EXCEPT ![call[c].row].st = "PENDING",
                              ![call[c].row].managed = m]
  /\ Ended(c)
  /\ UNCHANGED <<emp, exitDate, clear, cleared>>

\* Mutant: the last working day is the earlier of the two.
FirstDate(k, s, d) ==
  IF resig[k].date[Other(s)] < d THEN resig[k].date[Other(s)] ELSE d

\* Mutant: the two notice periods are added up.
SumOfDates(k, s, d) == d + resig[k].date[Other(s)]

(* The later of the two last days once both sides gave one. *)
AgreedDate(k, s, d) == Later(d, resig[k].date[Other(s)])

(* status and finalLastDate are worked out from the row as read; nothing   *)
(* is looked at but the side's own answer.                                 *)
ReadAnswers(c, k, s, d) ==
  /\ Free(c, "approve") /\ resig[k].st # "none" /\ Mine(k, s)
  /\ resig[k].side[s] = "PENDING"
  /\ LET both == resig[k].side[Other(s)] = "APPROVED" IN
     call' = [call EXCEPT ![c] =
       [pc |-> "approve", row |-> k, side |-> s, date |-> d,
        final |-> IF both THEN AgreedDate(k, s, d) ELSE 0,
        st |-> IF both THEN "BOTH_APPROVED"
               ELSE IF s = "hr" THEN "HR_APPROVED" ELSE "MANAGER_APPROVED"]]
  /\ UNCHANGED <<emp, exitDate, resig, clear, cleared>>

(* An undefined finalLastDate leaves the column as it was. *)
Approve(c) ==
  LET v == call[c] IN
  /\ At(c, "approve")
  /\ resig' = [resig EXCEPT
       ![v.row].side[v.side] = "APPROVED", ![v.row].date[v.side] = v.date,
       ![v.row].st = v.st,
       ![v.row].final = IF v.final = 0 THEN @ ELSE v.final]
  /\ Ended(c)
  /\ UNCHANGED <<emp, exitDate, clear, cleared>>

(* No answer already given is looked at. *)
Reject(c, k, s) ==
  /\ Free(c, "reject") /\ resig[k].st # "none" /\ Mine(k, s)
  /\ resig' = [resig EXCEPT ![k].side[s] = "REJECTED", ![k].st = "REJECTED"]
  /\ call' = [call EXCEPT ![c] = [Idle EXCEPT !.pc = "activate"]]
  /\ UNCHANGED <<emp, exitDate, clear, cleared>>

Reactivate(c) ==
  /\ At(c, "activate")
  /\ emp' = "ACTIVE"
  /\ Ended(c)
  /\ UNCHANGED <<exitDate, resig, clear, cleared>>

-----------------------------------------------------------------------------
(* The exit clearance                                                      *)

StartClearance(c, k) ==
  /\ Free(c, "initiate")
  /\ resig[k].st \in Active \ {"PENDING"} /\ clear[k].st = "none"
  /\ call' = [call EXCEPT ![c] = [Idle EXCEPT !.pc = "insert", !.row = k]]
  /\ UNCHANGED <<emp, exitDate, resig, clear, cleared>>

(* resignationId is unique: the second of two inserts is refused. *)
InsertClearance(c) ==
  /\ At(c, "insert")
  /\ clear' = [clear EXCEPT ![call[c].row].st = IF @ = "none" THEN "PENDING"
                                                ELSE @]
  /\ Ended(c)
  /\ UNCHANGED <<emp, exitDate, resig, cleared>>

\* Mutant: any answer of the other side completes the exit.
SignedStatusAnyAnswer(k, s) ==
  IF clear[k].side[Other(s)] # "PENDING" THEN "COMPLETED"
  ELSE IF s = "hr" THEN "HR_CLEARED" ELSE "MANAGER_CLEARED"

(* status as the other side's answer makes it; the answer to the           *)
(* resignation and the documents are not looked at.                        *)
SignedStatus(k, s) ==
  IF clear[k].side[Other(s)] = "APPROVED" THEN "COMPLETED"
  ELSE IF s = "hr" THEN "HR_CLEARED" ELSE "MANAGER_CLEARED"

(* The day HR named overrules the manager's; HR's is weighed against the   *)
(* manager's; with neither, the agreed one, which may be none.             *)
LastDay(k, s, d) ==
  LET theirs == IF clear[k].side[Other(s)] = "APPROVED"
                  THEN clear[k].date[Other(s)] ELSE 0
  IN CASE theirs > 0 /\ s = "manager" -> theirs
       [] theirs > 0 /\ s = "hr" -> Later(d, theirs)
       [] OTHER -> IF d > 0 THEN d ELSE resig[k].final

ReadClearance(c, k, s, d) ==
  /\ Free(c, "clear") /\ clear[k].st # "none" /\ Mine(k, s)
  /\ clear[k].side[s] = "PENDING"
  /\ call' = [call EXCEPT ![c] =
       [pc |-> "sign", row |-> k, side |-> s, date |-> d,
        final |-> LastDay(k, s, d), st |-> SignedStatus(k, s)]]
  /\ UNCHANGED <<emp, exitDate, resig, clear, cleared>>

(* A side that names no day leaves the one it had. *)
Sign(c) ==
  LET v == call[c] IN
  /\ At(c, "sign")
  /\ clear' = [clear EXCEPT
       ![v.row].side[v.side] = "APPROVED", ![v.row].st = v.st,
       ![v.row].date[v.side] = IF v.date = 0 THEN @ ELSE v.date]
  /\ cleared' = [cleared EXCEPT ![v.row] = @ \cup {v.side}]
  /\ call' = [call EXCEPT ![c] = IF v.st = "COMPLETED"
                                   THEN [v EXCEPT !.pc = "complete"] ELSE Idle]
  /\ UNCHANGED <<emp, exitDate, resig>>

CompleteExit(c) ==
  /\ At(c, "complete")
  /\ emp' = "RESIGNED" /\ exitDate' = call[c].final
  /\ Ended(c)
  /\ UNCHANGED <<resig, clear, cleared>>

\* Mutant: a rejection leaves the side's signature as it was.
RejectExitStatusOnly(c, k, s, d) ==
  /\ Free(c, "rejectExit") /\ clear[k].st # "none" /\ Mine(k, s)
  /\ clear' = [clear EXCEPT ![k].st = "REJECTED",
                            ![k].date[s] = IF d = 0 THEN @ ELSE d]
  /\ UNCHANGED <<emp, exitDate, resig, cleared, call>>

RejectExit(c, k, s, d) ==
  /\ Free(c, "rejectExit") /\ clear[k].st # "none" /\ Mine(k, s)
  /\ clear' = [clear EXCEPT ![k].side[s] = "REJECTED", ![k].st = "REJECTED",
                            ![k].date[s] = IF d = 0 THEN @ ELSE d]
  /\ UNCHANGED <<emp, exitDate, resig, cleared, call>>

-----------------------------------------------------------------------------
(* The employee's row                                                      *)

(* Any status HR types, RESIGNED too: no clearance is looked for, and no    *)
(* exit date is written.                                                   *)
SetStatus(c) ==
  /\ Free(c, "setStatus")
  /\ emp' \in Typed
  /\ UNCHANGED <<exitDate, resig, clear, cleared, call>>

Remove(c) ==
  /\ Free(c, "remove")
  /\ emp' = "TERMINATED"
  /\ UNCHANGED <<exitDate, resig, clear, cleared, call>>

Answering(c, k) ==
  \E s \in Side :
    \/ \E d \in use.dates : ReadAnswers(c, k, s, d)
    \/ Reject(c, k, s)
    \/ \E d \in use.dates \cup {0} :
         ReadClearance(c, k, s, d) \/ RejectExit(c, k, s, d)

Next ==
  /\ \E c \in Calls :
       \/ FindActive(c) \/ CreateResignation(c) \/ Approve(c)
       \/ Reactivate(c) \/ InsertClearance(c) \/ Sign(c) \/ CompleteExit(c)
       \/ SetStatus(c) \/ Remove(c)
       \/ \E k \in Rows : StartClearance(c, k) \/ Answering(c, k)
  /\ UNCHANGED use

Spec == Init /\ [][Next]_vars

-----------------------------------------------------------------------------
(* With one call at a time the three status columns of a resignation, and  *)
(* of its clearance, never disagree: BOTH_APPROVED exactly when both sides *)
(* approved, with the later of their two days as the last one; COMPLETED   *)
(* exactly when both signed.  managerApprove, hrApprove and the rejections *)
(* each write their own side and the combined status.                      *)
AnswersAgree ==
  use.serial =>
    \A k \in Rows :
      /\ resig[k].st = "BOTH_APPROVED" <=>
           \A s \in Side : resig[k].side[s] = "APPROVED"
      /\ resig[k].st = "BOTH_APPROVED" =>
           resig[k].final = Later(resig[k].date["hr"], resig[k].date["manager"])
      /\ clear[k].st = "COMPLETED" <=>
           \A s \in Side : clear[k].side[s] = "APPROVED"

(* "Status only becomes RESIGNED at _completeExit()"                       *)
(* (resignation.controller.ts:101-102) holds but for one way round it:     *)
(* HR's employee form writes RESIGNED when HR types it                     *)
(* (employee.controller.ts:228), clearance or none.  Otherwise, however    *)
(* the answers overlap, nobody becomes RESIGNED before the manager and HR  *)
(* have signed one and the same clearance at some time; and nobody gets    *)
(* another exit date before that, whatever the form writes.                *)
LeavesCleared ==
  [][LET Signed == \E k \in Rows : cleared[k] = Side IN
     /\ (emp # "RESIGNED" /\ emp' = "RESIGNED") =>
          Signed \/ \E c \in Calls : SetStatus(c)
     /\ exitDate' # exitDate => Signed]_vars

=============================================================================
