----------------------------- MODULE Classroom -----------------------------
(***************************************************************************)
(* A sub-batch's live classes: planned (Timetable), held (LiveClass), and  *)
(* sat in on by prospects (SitIn).  They share the classes, the rooms and  *)
(* the clock.                                                              *)
(***************************************************************************)
EXTENDS Integers, FiniteSets, Sequences

CONSTANTS
  Classes, Trainers, Students, Requests, Calls, Uses, Slots, MaxNow, MaxRows,
  LastDate, PresentPct, PartialPct, Window, NoClass, Nobody, NoRequest

VARIABLES use, now, class, roster, sess, egress, rec, att, marks, room, call,
          req, due, visit, plan

Held == INSTANCE LiveClass
Guests == INSTANCE SitIn
Planning == INSTANCE Timetable

ASSUME UsesShape ==
  \A u \in Uses :
    /\ u.calls \subseteq Calls /\ u.classes \subseteq Classes
    /\ u.alone \subseteq Held!Op /\ u.people \subseteq Trainers \cup Students
    /\ u.ops \subseteq STRING
    /\ u.dates \subseteq Planning!Date /\ u.days \subseteq Nat
    /\ u.rows \in 0 .. MaxRows /\ u.until \in 1 .. MaxNow
ASSUME Percentages == PartialPct \in 0 .. PresentPct /\ PresentPct \in 0 .. 100
ASSUME Bounds == MaxNow \in Nat /\ MaxRows \in Nat /\ Window \in Nat \ {0}
ASSUME Apart == Requests \cap (Trainers \cup Students) = {}

held == <<roster, sess, egress, rec, att, marks, call>>
guests == <<req, due, visit>>
vars == <<use, now, class, held, room, guests, plan>>

Init ==
  /\ use \in Uses
  /\ class = [k \in Classes |->
                [st |-> IF k \in use.classes THEN "SCHEDULED" ELSE "none",
                 date |-> IF k \in use.classes THEN 1 ELSE 0, slot |-> 1, start |-> 0, end |-> 0]]
  /\ Held!Init /\ Guests!Init /\ Planning!Init

Serial == Cardinality(use.calls) = 1

HoldClass == Held!Next /\ UNCHANGED <<use, guests, plan>>
ReceiveGuest == Guests!Next /\ UNCHANGED <<use, held, plan>>
PlanClasses ==
  Planning!Next /\ UNCHANGED <<use, now, held, room, guests>>

(* Where one call runs at a time, it also ends within the minute. *)
Tick ==
  /\ now < use.until \* bound
  /\ Serial => \A c \in Calls : visit[c] = Guests!Idle
  /\ now' = now + 1
  /\ UNCHANGED <<use, class, held, room, guests, plan>>

Next == HoldClass \/ ReceiveGuest \/ PlanClasses \/ Tick

(* Calls go on, the job runs every minute, LiveKit reports what has ended. *)
Fairness ==
  /\ WF_vars(/\ \E c \in Calls : Held!Proceed(c)
             /\ UNCHANGED <<use, guests, plan>>)
  /\ WF_vars(/\ Guests!JobStep \/ \E c \in Calls : Guests!Proceed(c)
             /\ UNCHANGED <<use, held, plan>>)
  /\ WF_vars(/\ \E e \in DOMAIN egress : Held!Webhook(e)
             /\ UNCHANGED <<use, guests, plan>>)

Spec == Init /\ [][Next]_vars /\ Fairness

-----------------------------------------------------------------------------
TypeOK ==
  /\ use \in Uses
  /\ Held!TypeOK /\ Guests!TypeOK /\ Planning!TypeOK

Minute(k, s) ==
  {t \in class[k].start .. class[k].end - 1 :
     \E i \in DOMAIN sess :
       /\ sess[i].k = k /\ sess[i].u = s /\ sess[i].in <= t
       /\ sess[i].out = 0 \/ t < sess[i].out}

(* A class's attendance, once its end call is through, is what its rows    *)
(* say: a row for each student enrolled, with the minutes of the class in  *)
(* which some session of the student was open, each counted once however   *)
(* the sessions overlap, and so never more than the class has.             *)
(* computeAttendance and the meeting report.                               *)
RosterAgrees ==
  \A k \in use.classes :
    /\ class[k].st = "COMPLETED"
    /\ \A c \in Calls : call[c].k = k => call[c].op # "end"
    => /\ "enrol" \in use.ops \/ \A s \in roster : att[k][s].st # "none"
       /\ \A s \in Students :
            att[k][s].st # "none" =>
              /\ att[k][s].attended = Cardinality(Minute(k, s))
              /\ att[k][s].attended <= att[k][s].of

(* However series are planned, repeated and cancelled, one call at a time, *)
(* no date has two classes; and a series has a class on every date it was  *)
(* asked for, exactly as many running days as asked.  bulkCreate and       *)
(* bulkUploadExcel, without single creations and moves.                    *)
OnePerDay ==
  Serial /\ use.ops \cap {"create", "update"} = {} =>
    /\ \A d \in Planning!Date : Cardinality(Planning!Planned(d)) <= 1
    /\ \A c \in Calls :
         Planning!At(c, "fill") /\ plan[c].left = {} =>
           plan[c].days <= Cardinality({d \in Planning!Date :
                             /\ d >= plan[c].from /\ Planning!Planned(d) # {}
                             /\ Planning!Runs(d, use.pattern)})

(* A recording row of a class that is over is settled by the webhook, if   *)
(* the row was there when LiveKit reported.                                *)
RecordingSettles ==
  \A i \in 1 .. MaxRows :
    (/\ i \in DOMAIN rec /\ rec[i].st = "RECORDING" /\ Held!Over(rec[i].k)
     /\ egress[rec[i].e].st # "told")
    ~> (i \in DOMAIN rec /\ rec[i].st # "RECORDING")

(* An approved guest whose window is over does not stay in the room.       *)
GuestsLeave ==
  \A q \in Requests :
    (/\ Serial /\ req[q].st = "APPROVED" /\ req[q].exp <= now
     /\ q \in room[req[q].k])
    ~> (q \notin room[req[q].k] \/ req[q].st # "APPROVED")

(* Nothing that has ended stays behind: recordings and guests. *)
NothingLeftRunning == RecordingSettles /\ GuestsLeave
=============================================================================
