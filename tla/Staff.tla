------------------------------- MODULE Staff -------------------------------
(***************************************************************************)
(* The office's records of its staff: how people join and their papers     *)
(* (Joining), leave (Leave), the day's attendance (Attendance) and the way *)
(* out (Exit) of one employee.  A behaviour is about one of the four.  The *)
(* process may stop once while people join.                                *)
(***************************************************************************)
EXTENDS Exit, Sequences

CONSTANTS
  Duties,
  People, Files, MaxCode, Nobody, Slots,
  Reqs, CompReqs, Sizes, Dates, Offered, Yearly, MaxTotal, NoReq, NoDate,
  Requests, Asked, TypedHours, Half, Full, EndOfDay, MaxSessions, NoRequest

VARIABLES
  duty,   \* of this behaviour: its part, endpoints and inputs; never changes
  doing, login, joiner, onb, paper, letter, crashed,
  taking, standing, bal, req, comp, compType, credited,
  clocking, now, day, sessions, request, applied

Desk == INSTANCE Joining WITH use <- duty, call <- doing, emp <- joiner
Leaves == INSTANCE Leave WITH use <- duty, call <- taking, emp <- standing
Days == INSTANCE Attendance WITH use <- duty, call <- clocking, Typed <- TypedHours

ASSUME DutiesShape ==
  \A u \in Duties :
    /\ u.part \in {"joining", "leave", "day", "exit"}
    /\ u.calls \subseteq Calls /\ u.ops \subseteq STRING /\ u.alone \subseteq STRING
    /\ u.people \subseteq People /\ u.students \subseteq People
    /\ u.codes \subseteq 1 .. MaxCode /\ u.sheets \subseteq Seq(People) \ {<<>>} /\ u.rows \in Nat
    /\ u.types \subseteq Leaves!Types /\ u.sizes \subseteq Sizes /\ u.oneAnswer \in BOOLEAN
    /\ u.until \in 0 .. EndOfDay
ASSUME Bounds ==
  /\ {MaxCode, Yearly, MaxTotal, Half, Full, EndOfDay, MaxSessions} \subseteq Nat
  /\ Files \subseteq Nat \ {0} /\ Slots \subseteq Nat \ {0} /\ Sizes \subseteq Int
  /\ TypedHours \subseteq 0 .. EndOfDay
  /\ Offered \subseteq {"PENDING", "APPROVED", "REJECTED"}
ASSUME Finite ==
  /\ IsFiniteSet(Calls) /\ IsFiniteSet(Reqs) /\ IsFiniteSet(CompReqs) /\ IsFiniteSet(Dates)
  /\ IsFiniteSet(Slots)
ASSUME Apart ==
  /\ Nobody \notin People /\ NoReq \notin Reqs \cup CompReqs
  /\ NoDate \notin Dates /\ NoRequest \notin Requests

office == <<doing, login, joiner, onb, paper, letter, crashed>>
leave == <<taking, standing, bal, req, comp, compType, credited>>
attendance == <<clocking, now, day, sessions, request, applied>>
exit == vars
staff == <<duty, office, leave, attendance, exit>>

(* The parts a behaviour is not about start in one way only, and who       *)
(* resigns is on probation: no endpoint of the exit reads the status.      *)
StaffInit ==
  /\ duty \in Duties /\ crashed = FALSE
  /\ Desk!CallsInit /\ Desk!JoiningInit /\ Desk!PapersInit
  /\ Leaves!Init /\ (duty.part # "leave" => standing = "ON_PROBATION")
  /\ Days!Init /\ (duty.part # "day" => \A r \in Requests : request[r].for = "HALF_DAY")
  /\ Init /\ (duty.part = "exit") = (use.ops # {})
  /\ emp = IF duty.part = "exit" THEN "ON_PROBATION" ELSE "ACTIVE"

KeepJoining ==
  /\ duty.part = "joining" /\ Desk!JoiningNext
  /\ UNCHANGED <<duty, paper, letter, crashed, leave, attendance, exit>>
KeepPapers ==
  /\ duty.part = "joining" /\ Desk!PapersNext
  /\ UNCHANGED <<duty, crashed, leave, attendance, exit>>
KeepLeave ==
  duty.part = "leave" /\ Leaves!Next /\ UNCHANGED <<duty, office, attendance, exit>>
KeepDay == duty.part = "day" /\ Days!Next /\ UNCHANGED <<duty, office, leave, exit>>
KeepExit == duty.part = "exit" /\ Next /\ UNCHANGED <<duty, office, leave, attendance>>

Crash ==
  /\ "crash" \in duty.ops /\ ~crashed /\ ~Desk!AllIdle
  /\ crashed' = TRUE /\ doing' = [c \in Calls |-> Desk!Idle]
  /\ UNCHANGED <<duty, login, joiner, onb, paper, letter, leave, attendance, exit>>

StaffNext == KeepJoining \/ KeepPapers \/ KeepLeave \/ KeepDay \/ KeepExit \/ Crash

StaffSpec == StaffInit /\ [][StaffNext]_staff

-----------------------------------------------------------------------------
StaffTypeOK ==
  /\ duty \in Duties /\ crashed \in BOOLEAN
  /\ Desk!CallsTypeOK /\ Desk!JoiningTypeOK /\ Desk!PapersTypeOK
  /\ Leaves!TypeOK /\ Days!TypeOK /\ TypeOK

(* How people join and their papers agree: logins, employees and requests, *)
(* documents and letters (Joining).                                        *)
JoiningAgrees == Desk!JoiningAgrees(crashed) /\ Desk!PapersAgree(crashed)

(* The balances are those of the requests, and of the credited days.       *)
LeaveAgrees == Leaves!BalanceMatches /\ Leaves!CreditsInBalance /\ Leaves!CreditedOnce

(* The day's row, its sessions and its corrections agree.                  *)
DayAgrees == Days!SessionsMatchDay /\ Days!WfhOnlyAway /\ Days!CorrectedIffApproved

(* No application overdraws the leave, and no step takes an employee's     *)
(* login or code, or replaces what HR has verified.                        *)
NoStep ==
  /\ [][Leaves!NeverOverdrawn]_leave
  /\ [][Desk!StaffStays /\ Desk!VerifiedStays]_office
=============================================================================
