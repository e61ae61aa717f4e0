----------------------------- MODULE Attendance -----------------------------
(***************************************************************************)
(* One employee's attendance on one day: the day's row, its sessions, the  *)
(* requests to correct it and the approval of work from home.  Every       *)
(* endpoint reads the row in one statement and writes it, its sessions or  *)
(* a request in later ones, with no transaction.                           *)
(***************************************************************************)
EXTENDS Integers, FiniteSets, SequencesExt

CONSTANTS
  Calls,       \* how many calls may be in flight at once
  Requests,    \* rows of AttendanceRegularization
  Asked,       \* statuses a request may ask for
  Typed,       \* times of day a correction may give
  Half, Full,  \* worked units that make half a day and a whole one
  EndOfDay,    \* bound: units of time in the day
  MaxSessions, \* bound: sessions of the day
  NoRequest

DayOps == {"checkIn", "checkOut", "approveWfh"}
RequestOps == {"applyRegularization", "approveRegularization",
               "rejectRegularization"}
Op == DayOps \cup RequestOps \cup {"regularize"}

None == -1                          \* null
Time == 0 .. EndOfDay
DayStatus == {"PRESENT", "HALF_DAY", "ABSENT"}   \* those written here

VARIABLES
  use,      \* of this behaviour: the endpoints and calls in use
  now,      \* the clock
  day,      \* the Attendance row
  sessions, \* AttendanceSession in order of creation
  request,  \* the correction requests
  applied,  \* history: requests whose correction was written
  call      \* the calls in flight

DayRow == [row : BOOLEAN, in : Time \cup {None}, out : Time \cup {None},
           hours : Nat, st : DayStatus, away : BOOLEAN,
           wfh : {"none", "PENDING", "APPROVED", "REJECTED"}]
AttendanceSession == [in : Time, done : BOOLEAN, hours : Nat]
AttendanceRegularization ==
  [st : {"none", "PENDING", "APPROVED", "REJECTED"},
   in : Time \cup {None}, out : Time \cup {None}, for : Asked]
CallState == [pc : {"idle", "write", "session", "find", "close", "total",
                    "look", "stamp"},
              op : Op \cup {"none"}, r : Requests \cup {NoRequest},
              seen : DayRow, at : Time, open : 0 .. MaxSessions]

TypeOK ==
  /\ now \in Time
  /\ day \in DayRow
  /\ Len(sessions) <= MaxSessions
  /\ \A n \in DOMAIN sessions :
       sessions[n] \in AttendanceSession
  /\ request \in [Requests -> AttendanceRegularization]
  /\ applied \subseteq Requests
  /\ call \in [Calls -> CallState]

NoDay == [row |-> FALSE, in |-> None, out |-> None, hours |-> 0,
          st |-> "ABSENT", away |-> FALSE, wfh |-> "none"]
Idle == [pc |-> "idle", op |-> "none", r |-> NoRequest, seen |-> NoDay,
         at |-> 0, open |-> 0]

Init ==
  /\ now = 0 /\ day = NoDay /\ sessions = <<>> /\ applied = {}
  /\ request \in [Requests -> {[st |-> "none", in |-> None, out |-> None,
                                for |-> s] : s \in Asked}]
  /\ call = [c \in Calls |-> Idle]

Serial == Cardinality(use.calls) = 1
Quiet == \A c \in Calls : call[c].pc = "idle"
Free(c, op) == op \in use.ops /\ c \in use.calls /\ call[c].pc = "idle"
At(c, op, pc) == call[c].op = op /\ call[c].pc = pc
Goes(c, pc) == call' = [call EXCEPT ![c].pc = pc]
Ended(c) == call' = [call EXCEPT ![c] = Idle]

(* A call that has read the day's row, at the time its later writes carry. *)
Reads(c, op, pc) ==
  call' = [call EXCEPT ![c] = [Idle EXCEPT !.pc = pc, !.op = op,
                                           !.seen = day, !.at = now]]

Tick == /\ now < use.until /\ now' = now + 1 \* bound
        /\ UNCHANGED <<day, sessions, request, applied, call>>

-----------------------------------------------------------------------------
(* attendanceController.checkIn                                            *)

CheckedIn == day.in # None /\ day.out = None

MayCheckIn == ~CheckedIn

StartCheckIn(c) ==
  /\ Free(c, "checkIn") /\ MayCheckIn /\ Len(sessions) < use.rows \* bound
  /\ Reads(c, "checkIn", "write")
  /\ UNCHANGED <<now, day, sessions, request, applied>>

\* Mutant: the work-from-home answer of the last session is kept.
ArrivedKeepsAnswer(d, t, away) ==
  [d EXCEPT !.row = TRUE, !.in = t, !.out = None, !.st = "PRESENT",
            !.away = away, !.wfh = IF away THEN "PENDING" ELSE @]

Arrived(d, t, away) ==
  [d EXCEPT !.row = TRUE, !.in = t, !.out = None, !.st = "PRESENT",
            !.away = away, !.wfh = IF away THEN "PENDING" ELSE "none"]

(* The unique key refuses a second row for the date. *)
WriteCheckIn(c) ==
  /\ At(c, "checkIn", "write")
  /\ IF ~call[c].seen.row /\ day.row
     THEN Ended(c) /\ UNCHANGED day
     ELSE /\ \E away \in BOOLEAN : day' = Arrived(day, call[c].at, away)
          /\ Goes(c, "session")
  /\ UNCHANGED <<now, sessions, request, applied>>

OpenSession(c) ==
  /\ At(c, "checkIn", "session") /\ Len(sessions) < MaxSessions \* bound
  /\ sessions' = Append(sessions, [in |-> call[c].at, done |-> FALSE, hours |-> 0])
  /\ Ended(c)
  /\ UNCHANGED <<now, day, request, applied>>

-----------------------------------------------------------------------------
(* attendanceController.checkOut: the hours of the row it read, plus those *)
(* since the check-in it read.                                             *)

Worked(c) == call[c].at - call[c].seen.in

StartCheckOut(c) ==
  /\ Free(c, "checkOut") /\ CheckedIn
  /\ Reads(c, "checkOut", "find")
  /\ UNCHANGED <<now, day, sessions, request, applied>>

\* Mutant: the oldest session is taken, open or not.
LatestOpenAny == IF sessions = <<>> THEN 0 ELSE 1

LatestOpen == SelectLastInSeq(sessions, LAMBDA s : ~s.done)

FindSession(c) ==
  /\ At(c, "checkOut", "find")
  /\ call' = [call EXCEPT ![c].open = LatestOpen,
                          ![c].pc = IF LatestOpen = 0 THEN "total" ELSE "close"]
  /\ UNCHANGED <<now, day, sessions, request, applied>>

\* Mutant: a check-in typed later than the check-out counts as less than none.
Signed(n) == n

(* calcWorkHours is never negative. *)
AtLeastNone(n) == IF n < 0 THEN 0 ELSE n

CloseSession(c) ==
  /\ At(c, "checkOut", "close")
  /\ sessions' = [sessions EXCEPT ![call[c].open].done = TRUE,
                                  ![call[c].open].hours = AtLeastNone(Worked(c))]
  /\ Goes(c, "total")
  /\ UNCHANGED <<now, day, request, applied>>

\* Mutant: only the session just closed counts.
TotalLast(c) == AtLeastNone(Worked(c))

Total(c) == call[c].seen.hours + AtLeastNone(Worked(c))

(* A row with a check-in is never without one again, so it still exists. *)
WriteCheckOut(c) ==
  /\ At(c, "checkOut", "total")
  /\ day' = [day EXCEPT !.out = call[c].at, !.hours = Total(c),
                        !.st = IF Total(c) >= Full THEN "PRESENT"
                               ELSE IF Total(c) >= Half THEN "HALF_DAY"
                               ELSE "ABSENT"]
  /\ Ended(c)
  /\ UNCHANGED <<now, sessions, request, applied>>

-----------------------------------------------------------------------------
(* attendanceController.approveWfh: any row away from the office, whatever *)
(* was answered before.                                                    *)

StartApproveWfh(c) ==
  /\ Free(c, "approveWfh") /\ day.row /\ day.away
  /\ Reads(c, "approveWfh", "write")
  /\ UNCHANGED <<now, day, sessions, request, applied>>

WithAnswer(a) == [day EXCEPT !.wfh = a]

WriteWfh(c) ==
  /\ At(c, "approveWfh", "write")
  /\ \E a \in {"APPROVED", "REJECTED"} : day' = WithAnswer(a)
  /\ Ended(c)
  /\ UNCHANGED <<now, sessions, request, applied>>

-----------------------------------------------------------------------------
(* Corrections: attendanceController.regularize writes the row at once,    *)
(* attendanceRegularizationController asks the manager.                    *)

StartRegularize(c) ==
  /\ Free(c, "regularize")
  /\ Reads(c, "regularize", "write")
  /\ UNCHANGED <<now, day, sessions, request, applied>>

(* Times that are not given stay as they are in the row being written. *)
Corrected(d, in, out, st) ==
  [d EXCEPT !.row = TRUE, !.in = IF in = None THEN @ ELSE in,
            !.out = IF out = None THEN @ ELSE out, !.st = st]

WriteRegularize(c) ==
  /\ At(c, "regularize", "write")
  /\ IF ~call[c].seen.row /\ day.row THEN UNCHANGED day
     ELSE \E in, out \in Typed \cup {None} : day' = Corrected(day, in, out, "PRESENT")
  /\ Ended(c)
  /\ UNCHANGED <<now, sessions, request, applied>>

Apply(c, r) ==
  /\ Free(c, "applyRegularization") /\ request[r].st = "none"
  /\ \E in, out \in Typed \cup {None} :
       request' = [request EXCEPT ![r].st = "PENDING", ![r].in = in, ![r].out = out]
  /\ UNCHANGED <<now, day, sessions, applied, call>>

\* Mutant: only a rejected request is refused.
MayAnswerApproved(r) == request[r].st \in {"PENDING", "APPROVED"}

MayAnswer(r) == request[r].st = "PENDING"

ReadRequest(c, op, r) ==
  /\ Free(c, op) /\ MayAnswer(r)
  /\ call' = [call EXCEPT ![c] = [Idle EXCEPT !.op = op, !.r = r,
                !.pc = IF op = "approveRegularization" THEN "look" ELSE "stamp"]]
  /\ UNCHANGED <<now, day, sessions, request, applied>>

FindDay(c) ==
  /\ At(c, "approveRegularization", "look")
  /\ call' = [call EXCEPT ![c].seen = day, ![c].pc = "write"]
  /\ UNCHANGED <<now, day, sessions, request, applied>>

(* enum AttendanceStatus, which has no WFH. *)
InEnum(st) == st \in DayStatus

(* Times not asked for are put back as they were read.  The write fails,   *)
(* and with it the call, when the row came into being meanwhile or when    *)
(* the status asked for is none of the enum.                               *)
WriteCorrection(c) ==
  /\ At(c, "approveRegularization", "write")
  /\ LET q == request[call[c].r]
         s == call[c].seen
     IN  IF ~InEnum(q.for) \/ (~s.row /\ day.row)
         THEN Ended(c) /\ UNCHANGED <<day, applied>>
         ELSE /\ day' = Corrected([day EXCEPT !.in = s.in, !.out = s.out],
                                  q.in, q.out, q.for)
              /\ applied' = applied \cup {call[c].r}
              /\ Goes(c, "stamp")
  /\ UNCHANGED <<now, sessions, request>>

\* Mutant: the two answers are swapped.
AnswerOfSwapped(op) ==
  IF op = "approveRegularization" THEN "REJECTED" ELSE "APPROVED"

AnswerOf(op) == IF op = "approveRegularization" THEN "APPROVED" ELSE "REJECTED"

Stamp(c, op) ==
  /\ At(c, op, "stamp")
  /\ request' = [request EXCEPT ![call[c].r].st = AnswerOf(op)]
  /\ Ended(c)
  /\ UNCHANGED <<now, day, sessions, applied>>

Next ==
  \/ Tick
  \/ \E c \in Calls :
       \/ StartCheckIn(c) \/ WriteCheckIn(c) \/ OpenSession(c)
       \/ StartCheckOut(c) \/ FindSession(c) \/ CloseSession(c)
       \/ WriteCheckOut(c)
       \/ StartApproveWfh(c) \/ WriteWfh(c)
       \/ StartRegularize(c) \/ WriteRegularize(c)
       \/ FindDay(c) \/ WriteCorrection(c)
       \/ \E r \in Requests : Apply(c, r)
       \/ \E op \in {"approveRegularization", "rejectRegularization"} :
            \/ \E r \in Requests : ReadRequest(c, op, r)
            \/ Stamp(c, op)

-----------------------------------------------------------------------------
(* The properties.                                                         *)

OpenOnes == {n \in DOMAIN sessions : ~sessions[n].done}

(* The day's hours are those of its closed sessions, and one session is    *)
(* open while the employee is checked in and none otherwise: checkOut      *)
(* closes the session its check-in opened and counts it once.  True one    *)
(* call at a time, and of days nobody corrects: a correction leaves the    *)
(* sessions as they are.                                                   *)
SessionsMatchDay ==
  Quiet /\ Serial /\ use.ops \subseteq DayOps =>
    /\ day.hours = Cardinality(UNION {{n} \X (1 .. sessions[n].hours) :
                                        n \in DOMAIN sessions})
    /\ Cardinality(OpenOnes) = IF CheckedIn THEN 1 ELSE 0

(* A row at the office carries no work-from-home answer: the approval of   *)
(* one session does not stay on the next one, one call at a time.          *)
WfhOnlyAway == Serial /\ day.wfh # "none" => day.away

(* "Manager approves - only now does the underlying Attendance record get  *)
(* corrected", "Already processed" (attendanceRegularization.controller):  *)
(* what was corrected is exactly what was approved, one call at a time or  *)
(* as long as nobody rejects what another is approving.                    *)
CorrectedIffApproved ==
  Quiet /\ (Serial \/ "rejectRegularization" \notin use.ops) =>
    \A r \in Requests : r \in applied <=> request[r].st = "APPROVED"
=============================================================================
