----------------------------- MODULE Timetable -----------------------------
(***************************************************************************)
(* Planning a sub-batch's live classes: one at a time, over a range of     *)
(* dates, from a spreadsheet; moving and cancelling them.  Dates are       *)
(* numbers and date d falls on weekday d % 7, 0 being Sunday.              *)
(***************************************************************************)
EXTENDS Integers, FiniteSets

CONSTANTS
  Calls,
  Slots,     \* the times of day a class may be planned for
  LastDate   \* bound: the last date planned for

VARIABLES
  use, class,  \* see LiveClass
  plan         \* the calls in flight

Date == 1 .. LastDate
Idle == [pc |-> "idle", op |-> "none", left |-> {}, taken |-> {}, d |-> 0,
         slot |-> 0, from |-> 0, days |-> 0]
CallState == [pc : {"idle", "fill", "code", "move", "cancel"},
              op : {"none", "create", "bulkCreate", "upload", "cancelBulk",
                    "update"},
              left : SUBSET (Date \cup DOMAIN class), taken : SUBSET Date,
              d : 0 .. LastDate, slot : Slots \cup {0}, from : 0 .. LastDate,
              days : Nat]

TypeOK == plan \in [Calls -> CallState]
Init == plan = [c \in Calls |-> Idle]

Free(c, op) ==
  /\ op \in use.ops
  /\ c \in use.calls /\ plan[c].pc = "idle"
At(c, pc) == plan[c].pc = pc

(* dayMatchesPattern; a CUSTOM pattern is its set of weekdays. *)
Weekdays(p) == CASE p = "MON_SAT" -> 1 .. 6
                 [] p = "MON_FRI" -> 1 .. 5
                 [] p = "SAT_SUN" -> {0, 6}
                 [] p = "SUNDAY_ONLY" -> {0}
Runs(d, p) == d % 7 \in Weekdays(p)

\* Mutant: the days are counted as calendar days.
LastDayCalendar(from, n, p) == from + n - 1

(* The date on which n running days, counted from "from" on, are reached:  *)
(* the loop that walks on a day at a time.                                 *)
LastDay(from, n, p) ==
  LET walk[d \in Nat, c \in Nat] ==
        LET here == IF Runs(d, p) THEN c + 1 ELSE c IN
        IF here = n THEN d ELSE walk[d + 1, here]
  IN walk[from, 0]

Planned(d) == {k \in DOMAIN class : /\ class[k].date = d
                                    /\ class[k].st \notin {"none", "CANCELLED"}}
Unused == {k \in DOMAIN class : class[k].st = "none"}
Plan(k, d, s) ==
  class' = [class EXCEPT ![k] = [st |-> "SCHEDULED", date |-> d, slot |-> s,
                                 start |-> 0, end |-> 0]]

(* One class; another at the same time is worth a warning only. *)
Create(c, d, s) ==
  /\ Free(c, "create") /\ Unused # {}
  /\ Plan(CHOOSE k \in Unused : TRUE, d, s)
  /\ UNCHANGED plan

\* Mutant: a re-run goes by the clock, not by the day.
TakenAtSlot(s) == {d \in Date : \E k \in Planned(d) : class[k].slot # s}

(* The dates bulkCreate finds taken, whatever the time of day. *)
Taken(s) == {d \in Date : Planned(d) # {}}

(* A series: what is taken is read once, before the first class is made.   *)
(* A spreadsheet row does the same but looks before each class.            *)
OpenSeries(c, op, from, n, s) ==
  LET to == LastDay(from, n, use.pattern) IN
  /\ Free(c, op) /\ to <= LastDate
  /\ plan' = [plan EXCEPT ![c] =
       [Idle EXCEPT !.pc = "fill", !.op = op, !.slot = s,
                    !.from = from, !.days = n,
                    !.left = {d \in from .. to : Runs(d, use.pattern)},
                    !.taken = IF op = "upload" THEN {} ELSE Taken(s)]]
  /\ UNCHANGED class

FirstOf(S) == CHOOSE d \in S : \A e \in S : d <= e

(* The next date of a series, which is skipped if a class has it: for an   *)
(* upload by a look of its own, createOne's.                               *)
NextDate(c) ==
  LET v == plan[c]
      d == FirstOf(v.left)
      skip == IF v.op = "upload" THEN Planned(d) # {} ELSE d \in v.taken IN
  /\ At(c, "fill") /\ v.left # {}
  /\ plan' = [plan EXCEPT ![c].left = @ \ {d}, ![c].d = d,
                          ![c].pc = IF skip THEN "fill" ELSE "code"]
  /\ UNCHANGED class

CreateNext(c) ==
  LET v == plan[c] IN
  /\ At(c, "code") /\ Unused # {}
  /\ Plan(CHOOSE k \in Unused : TRUE, v.d, v.slot)
  /\ plan' = [plan EXCEPT ![c].pc = "fill"]

SeriesDone(c) ==
  /\ At(c, "fill") /\ plan[c].left = {}
  /\ plan' = [plan EXCEPT ![c] = Idle]
  /\ UNCHANGED class

(* Moving a class: no look at what else is on that date. *)
ReadForUpdate(c, k, d) ==
  /\ Free(c, "update") /\ class[k].st \in {"SCHEDULED", "LIVE"}
  /\ plan' = [plan EXCEPT ![c] = [Idle EXCEPT !.pc = "move", !.op = "update",
                                              !.left = {k}, !.d = d]]
  /\ UNCHANGED class

Reschedule(c) ==
  /\ At(c, "move")
  /\ \E k \in plan[c].left : class' = [class EXCEPT ![k].date = plan[c].d]
  /\ plan' = [plan EXCEPT ![c] = Idle]

(* cancelBulk, class by class, passing over those that are over.  What it  *)
(* does to a live one is LiveClass's CancelClass and CloseRoom.            *)
CancelBulk(c, K) ==
  /\ Free(c, "cancelBulk")
  /\ plan' = [plan EXCEPT ![c] = [Idle EXCEPT !.pc = "cancel",
                                              !.op = "cancelBulk", !.left = K]]
  /\ UNCHANGED class

CancelNext(c) ==
  LET K == plan[c].left IN
  /\ At(c, "cancel")
  /\ IF K = {} THEN plan' = [plan EXCEPT ![c] = Idle] /\ UNCHANGED class
     ELSE \E k \in K :
       /\ class' = IF class[k].st \in {"SCHEDULED", "LIVE"}
                   THEN [class EXCEPT ![k].st = "CANCELLED"] ELSE class
       /\ plan' = [plan EXCEPT ![c].left = K \ {k}]

Next ==
  \E c \in Calls :
    \/ \E d \in use.dates, s \in Slots :
         \/ Create(c, d, s)
         \/ \E op \in {"bulkCreate", "upload"}, n \in use.days :
              OpenSeries(c, op, d, n, s)
    \/ NextDate(c) \/ CreateNext(c) \/ SeriesDone(c)
    \/ \E k \in DOMAIN class, d \in use.dates : ReadForUpdate(c, k, d)
    \/ Reschedule(c)
    \/ \E d \in use.dates : CancelBulk(c, {k \in DOMAIN class : class[k].date <= d})
    \/ CancelNext(c)
=============================================================================
