----------------------------- MODULE LiveClass -----------------------------
(***************************************************************************)
(* A live class from start to end: its status, who is in it, its           *)
(* recording, and the attendance computed from the participants' sessions. *)
(* LiveKit is outside: it keeps the room, the egress that records it, and  *)
(* calls the webhook when an egress has ended.                             *)
(***************************************************************************)
EXTENDS Integers, FiniteSets, Sequences, SequencesExt

CONSTANTS
  Classes,   \* rows of LiveClass
  Trainers,  \* who may manage the class's schedule
  Students,
  Calls,     \* how many calls may be in flight at once
  MaxNow,    \* bound: the last instant
  PresentPct, PartialPct,
  NoClass, Nobody

VARIABLES
  use,    \* of this behaviour: what is in use; use.rows bounds the sessions,
          \* and the recordings, ever stored; never changes
  now,    \* the clock, in minutes
  class,  \* the classes
  roster, \* students with an ACTIVE enrolment in the schedule
  sess,   \* LiveClassParticipant, in the order of joining
  egress, \* LiveKit: the recordings being made, by egress id
  rec,    \* LiveClassRecording
  att,    \* LiveClassAttendance of each class and student
  marks,  \* StudentAttendance of each date and student
  room,   \* LiveKit: the guests in each class's room (SitIn); who else is in
          \* it nothing here reads
  call    \* the calls in flight

Op == {"start", "end", "cancel", "join", "leave"}
People == Trainers \cup Students
Instant == 0 .. MaxNow     \* as a column, 0 is null
Status == {"SCHEDULED", "LIVE", "COMPLETED", "CANCELLED"}

Class == [st : Status \cup {"none"}, date : Nat, slot : Nat, start : Instant,
          end : Instant]
Session == [k : Classes, u : People, role : {"HOST", "CO_TRAINER", "STUDENT"},
            in : Instant, out : Instant]
Egress == [k : Classes, st : {"on", "off", "told"}]
Recording == [k : Classes, e : Nat, st : {"RECORDING", "READY", "FAILED"}]
Attendance == [st : {"none", "PRESENT", "PARTIAL", "ABSENT"}, attended : Nat,
               of : Nat]
Mark == [st : {"none", "PRESENT", "ABSENT", "LATE"},
         mode : {"none", "ONLINE", "OFFLINE"}]
CallState == [pc : {"idle", "start", "record", "row", "role", "close", "insert",
                    "end", "complete", "shut", "out", "count", "cancel",
                    "leave"},
              op : Op \cup {"none"}, k : Classes \cup {NoClass},
              u : People \cup {Nobody}, seen : Status \cup {"none"},
              at : Instant, start : Instant,
              role : {"none", "HOST", "CO_TRAINER", "STUDENT"}, row : Nat]

Idle == [pc |-> "idle", op |-> "none", k |-> NoClass, u |-> Nobody,
         seen |-> "none", at |-> 0, start |-> 0, role |-> "none", row |-> 0]
Uncounted == [st |-> "none", attended |-> 0, of |-> 0]
Unmarked == [st |-> "none", mode |-> "none"]
Later(a, b) == IF a > b THEN a ELSE b
Earlier(a, b) == IF a < b THEN a ELSE b

TypeOK ==
  /\ now \in Instant
  /\ class \in [Classes -> Class]
  /\ roster \subseteq Students
  /\ \A i \in DOMAIN sess : sess[i] \in Session
  /\ \A i \in DOMAIN egress : egress[i] \in Egress
  /\ \A i \in DOMAIN rec : rec[i] \in Recording
  /\ att \in [Classes -> [Students -> Attendance]]
  /\ \A d \in DOMAIN marks : marks[d] \in [Students -> Mark]
  /\ call \in [Calls -> CallState]

Init ==
  /\ now = 1
  /\ roster = Students
  /\ sess = <<>> /\ egress = <<>> /\ rec = <<>>
  /\ att = [k \in Classes |-> [s \in Students |-> Uncounted]]
  /\ marks = [d \in use.dates |-> [s \in Students |-> Unmarked]]
  /\ room = [k \in Classes |-> {}]
  /\ call = [c \in Calls |-> Idle]

(* The operations of use.alone do not overlap each other.                  *)
Free(c, op) ==
  /\ op \in use.ops
  /\ c \in use.calls /\ call[c].pc = "idle"
  /\ op \in use.alone => \A d \in Calls : call[d].op \notin use.alone
(* Nobody leaves twice at once, or leaves and joins. *)
NotLeaving(u) == \A c \in Calls : call[c].op = "leave" => call[c].u # u
At(c, pc) == call[c].pc = pc
Then(c, pc) == call' = [call EXCEPT ![c].pc = pc]
Ended(c) == call' = [call EXCEPT ![c] = Idle]
Over(k) == class[k].st \in {"COMPLETED", "CANCELLED"}
OpenIn(k) == {i \in DOMAIN sess : sess[i].k = k /\ sess[i].out = 0}
CloseSessions(I, t) ==
  sess' = [i \in DOMAIN sess |->
             IF i \in I THEN [sess[i] EXCEPT !.out = t] ELSE sess[i]]

-----------------------------------------------------------------------------
(* Every operation reads the class, and checks its status, first.          *)

Needs == [start |-> {"SCHEDULED", "LIVE"}, end |-> {"LIVE"},
          cancel |-> {"SCHEDULED", "LIVE"}, join |-> {"LIVE"}]
(* canManageSchedule; a student needs an ACTIVE enrolment to join. *)
MayCall(op, u) ==
  CASE op \in {"end", "cancel"} -> u = Nobody   \* any manager: not recorded
    [] op = "start" -> u \in Trainers
    [] op = "join" -> u \in use.people \cap (Trainers \cup roster)

ReadClass(c) ==
  /\ \E op \in DOMAIN Needs, k \in use.classes, u \in People \cup {Nobody} :
       /\ Free(c, op) /\ MayCall(op, u) /\ NotLeaving(u)
       /\ class[k].st \in Needs[op]
       /\ call' = [call EXCEPT ![c] =
            [Idle EXCEPT !.pc = IF op = "join" THEN "role" ELSE op, !.op = op,
                         !.k = k, !.u = u, !.seen = class[k].st,
                         !.at = IF op = "end" THEN now ELSE 0,
                         !.start = IF op = "end" THEN class[k].start ELSE 0]]
  /\ UNCHANGED <<now, class, roster, sess, egress, rec, att, marks, room>>

(* Only who read another status than LIVE starts the class, and records.   *)
GoLive(c) ==
  LET v == call[c] IN
  /\ At(c, "start")
  /\ IF v.seen = "LIVE"
     THEN Then(c, "role") /\ UNCHANGED class
     ELSE /\ class' = [class EXCEPT ![v.k].st = "LIVE", ![v.k].start = now]
          /\ Then(c, "record")
  /\ UNCHANGED <<now, roster, sess, egress, rec, att, marks, room>>

(* startEgress: not configured, refused (a FAILED row says so), or started. *)
StartEgress(c) ==
  LET k == call[c].k IN
  /\ At(c, "record") /\ Len(rec) < use.rows /\ Len(egress) < use.rows \* bound
  /\ \/ Then(c, "role") /\ UNCHANGED <<egress, rec>>
     \/ /\ "record" \in use.ops
        /\ rec' = Append(rec, [k |-> k, e |-> 0, st |-> "FAILED"])
        /\ Then(c, "role") /\ UNCHANGED egress
     \/ /\ "record" \in use.ops
        /\ egress' = Append(egress, [k |-> k, st |-> "on"])
        /\ call' = [call EXCEPT ![c].pc = "row", ![c].row = Len(egress) + 1]
        /\ UNCHANGED rec
  /\ UNCHANGED <<now, class, roster, sess, att, marks, room>>

InsertRecording(c) ==
  /\ At(c, "row") /\ Len(rec) < use.rows \* bound
  /\ rec' = Append(rec, [k |-> call[c].k, e |-> call[c].row,
                         st |-> "RECORDING"])
  /\ Then(c, "role")
  /\ UNCHANGED <<now, class, roster, sess, egress, att, marks, room>>

\* Mutant: the host's own open session is not looked at.
RoleOfOthers(k, u) ==
  IF u \in Students THEN "STUDENT"
  ELSE IF \E i \in OpenIn(k) : sess[i].role = "HOST" /\ sess[i].u # u
  THEN "CO_TRAINER" ELSE "HOST"

(* Whoever manages the class hosts it, unless an open session hosts it.    *)
RoleOf(k, u) ==
  IF u \in Students THEN "STUDENT"
  ELSE IF \E i \in OpenIn(k) : sess[i].role = "HOST" THEN "CO_TRAINER"
  ELSE "HOST"

TakeRole(c) ==
  /\ At(c, "role")
  /\ call' = [call EXCEPT ![c].role = RoleOf(call[c].k, call[c].u),
                          ![c].pc = IF call[c].op = "join" THEN "close"
                                    ELSE "insert"]
  /\ UNCHANGED <<now, class, roster, sess, egress, rec, att, marks, room>>

(* join ends the caller's sessions that were never left; start does not.   *)
CloseOwn(c) ==
  /\ At(c, "close")
  /\ CloseSessions({i \in OpenIn(call[c].k) : sess[i].u = call[c].u}, now)
  /\ Then(c, "insert")
  /\ UNCHANGED <<now, class, roster, egress, rec, att, marks, room>>

(* The row of the new session; the answer has the token for the room. *)
InsertSession(c) ==
  LET v == call[c] IN
  /\ At(c, "insert") /\ Len(sess) < use.rows \* bound
  /\ sess' = Append(sess, [k |-> v.k, u |-> v.u, role |-> v.role, in |-> now,
                           out |-> 0])
  /\ Ended(c)
  /\ UNCHANGED <<now, class, roster, egress, rec, att, marks, room>>

-----------------------------------------------------------------------------
(* The end of a class: one recording is stopped, the class is COMPLETED,   *)
(* its room is closed, open sessions are closed, attendance is computed.   *)

StopRecording(c) ==
  LET k == call[c].k
      running == {i \in DOMAIN rec : rec[i].k = k /\ rec[i].st = "RECORDING"}
  IN
  /\ At(c, "end")
  /\ IF running = {} THEN UNCHANGED egress
     ELSE \E i \in running :
            egress' = [egress EXCEPT ![rec[i].e].st =
                         IF @ = "on" THEN "off" ELSE @]
  /\ Then(c, "complete")
  /\ UNCHANGED <<now, class, roster, sess, rec, att, marks, room>>

Complete(c) ==
  LET v == call[c] IN
  /\ At(c, "complete")
  /\ class' = [class EXCEPT ![v.k].st = "COMPLETED", ![v.k].end = v.at]
  /\ Then(c, "shut")
  /\ UNCHANGED <<now, roster, sess, egress, rec, att, marks, room>>

(* cancel closes the room only if it read the class as LIVE. *)
CancelClass(c) ==
  LET v == call[c] IN
  /\ At(c, "cancel")
  /\ class' = [class EXCEPT ![v.k].st = "CANCELLED"]
  /\ IF v.seen = "LIVE" THEN Then(c, "shut") ELSE Ended(c)
  /\ UNCHANGED <<now, roster, sess, egress, rec, att, marks, room>>

(* closeRoom; LiveKit ends the egress of a room that is closed. *)
CloseRoom(c) ==
  LET v == call[c] IN
  /\ At(c, "shut")
  /\ room' = [room EXCEPT ![v.k] = {}]
  /\ egress' = [e \in DOMAIN egress |->
                  IF egress[e].k = v.k /\ egress[e].st = "on"
                  THEN [egress[e] EXCEPT !.st = "off"] ELSE egress[e]]
  /\ IF v.op = "end" THEN Then(c, "out") ELSE Ended(c)
  /\ UNCHANGED <<now, class, roster, sess, rec, att, marks>>

CloseAll(c) ==
  LET v == call[c] IN
  /\ At(c, "out")
  /\ CloseSessions(OpenIn(v.k), v.at)
  /\ IF v.start = 0 THEN Ended(c) ELSE Then(c, "count")
  /\ UNCHANGED <<now, class, roster, egress, rec, att, marks, room>>

\* Mutant: every session counts in full.
SumOfMinutes(iv) ==
  FoldLeft(LAMBDA t, x : t + Later(0, x[2] - x[1]), 0, SetToSeq(iv))

(* unionMs: the sessions in order of their start, each one extending the   *)
(* current stretch or closing it and opening the next.  The stretch is     *)
(* <<total, start, end>>, -1 before the first.                             *)
UnionMinutes(iv) ==
  LET sorted == SetToSortSeq({x \in iv : x[2] > x[1]},
                             LAMBDA x, y : x[1] < y[1])
      Extend(t, x) ==
        IF t[3] < 0 THEN <<t[1], x[1], x[2]>>
        ELSE IF x[1] > t[3] THEN <<t[1] + t[3] - t[2], x[1], x[2]>>
        ELSE IF x[2] > t[3] THEN <<t[1], t[2], x[2]>>
        ELSE t
      last == FoldLeft(Extend, <<0, -1, -1>>, sorted)
  IN IF last[3] >= 0 THEN last[1] + last[3] - last[2] ELSE last[1]

(* A student's sessions of the class, held within its times. *)
Stays(k, s, from, to) ==
  {<<Later(sess[i].in, from),
     Earlier(IF sess[i].out = 0 THEN to ELSE sess[i].out, to)>> :
     i \in {i \in DOMAIN sess : sess[i].k = k /\ sess[i].u = s}}

(* Math.round of a over b in percent. *)
Percent(a, b) == Earlier(100, (200 * a + b) \div (2 * b))
Bucket(pct) == IF pct >= PresentPct THEN "PRESENT"
               ELSE IF pct >= PartialPct THEN "PARTIAL" ELSE "ABSENT"

(* computeAttendance writes a row for each student enrolled by then, from  *)
(* the start this call has read and the end it has set.                    *)
ComputeAttendance(c) ==
  LET v == call[c]
      of == Later(1, v.at - v.start)
      Row(s) == LET a == UnionMinutes(Stays(v.k, s, v.start, v.at)) IN
                [st |-> Bucket(Percent(a, of)), attended |-> a, of |-> of]
  IN
  /\ At(c, "count")
  /\ att' = [att EXCEPT ![v.k] =
               [s \in Students |-> IF s \in roster THEN Row(s) ELSE @[s]]]
  /\ Ended(c)
  /\ UNCHANGED <<now, class, roster, sess, egress, rec, marks, room>>

-----------------------------------------------------------------------------
(* Leaving and being removed; a lost connection changes no row.            *)

FindOpen(c) ==
  \E k \in use.classes, u \in use.people :
    LET mine == {i \in OpenIn(k) : sess[i].u = u} IN
    /\ Free(c, "leave") /\ mine # {} /\ \A d \in Calls : call[d].u # u
    /\ call' = [call EXCEPT ![c] =
         [Idle EXCEPT !.pc = "leave", !.op = "leave", !.k = k, !.u = u,
                      !.row = CHOOSE i \in mine : \A j \in mine : j <= i]]
    /\ UNCHANGED <<now, class, roster, sess, egress, rec, att, marks, room>>

Leave(c) ==
  LET v == call[c] IN
  /\ At(c, "leave")
  /\ CloseSessions({v.row}, now)
  /\ Ended(c)
  /\ UNCHANGED <<now, class, roster, egress, rec, att, marks, room>>

RemoveParticipant(k, u) ==
  /\ "remove" \in use.ops
  /\ CloseSessions({i \in OpenIn(k) : sess[i].u = u}, now)
  /\ UNCHANGED <<now, class, roster, egress, rec, att, marks, room, call>>

-----------------------------------------------------------------------------
(* LiveKit's side of a recording.                                          *)

(* An egress may end on its own before the class does. *)
EgressStops(e) ==
  /\ "abort" \in use.ops /\ egress[e].st = "on"
  /\ egress' = [egress EXCEPT ![e].st = "off"]
  /\ UNCHANGED <<now, class, roster, sess, rec, att, marks, room, call>>

\* Mutant: only completed files are written back.
SettleReady(e, ok) ==
  [i \in DOMAIN rec |-> IF rec[i].e = e /\ ok
                        THEN [rec[i] EXCEPT !.st = "READY"] ELSE rec[i]]

Settle(e, ok) ==
  [i \in DOMAIN rec |->
     IF rec[i].e = e THEN [rec[i] EXCEPT !.st = IF ok THEN "READY" ELSE "FAILED"]
     ELSE rec[i]]

(* The webhook updates the rows that name the egress: none, if it comes    *)
(* before the row is there, and it comes once.                             *)
Webhook(e) ==
  /\ egress[e].st = "off"
  /\ egress' = [egress EXCEPT ![e].st = "told"]
  /\ \E ok \in BOOLEAN : rec' = Settle(e, ok)
  /\ UNCHANGED <<now, class, roster, sess, att, marks, room, call>>

-----------------------------------------------------------------------------
(* The daily attendance: marked by a trainer, or taken from the class.     *)

\* Mutant: the class's own words are kept.
SyncMarkAsIs(st, old) == [old EXCEPT !.st = st]

SyncMark(st, old) ==
  [old EXCEPT !.st = CASE st = "PRESENT" -> "PRESENT" [] st = "PARTIAL" -> "LATE"
                       [] st = "ABSENT" -> "ABSENT"]

SyncAttendance(k) ==
  LET counted == {s \in Students : att[k][s].st # "none"}
      d == class[k].date IN
  /\ "sync" \in use.ops /\ class[k].st = "COMPLETED" /\ counted # {}
  /\ marks' = [marks EXCEPT ![d] =
       [s \in Students |-> IF s \in counted THEN SyncMark(att[k][s].st, @[s])
                           ELSE @[s]]]
  /\ UNCHANGED <<now, class, roster, sess, egress, rec, att, room, call>>

(* markAttendance, of one student: who is PRESENT is online or offline.    *)
MarkAttendance(d, s) ==
  /\ "mark" \in use.ops
  /\ \E st \in {"PRESENT", "ABSENT", "LATE"}, mode \in {"none", "ONLINE"} :
       /\ st = "PRESENT" => mode # "none"
       /\ marks' = [marks EXCEPT ![d][s] =
                      [st |-> st, mode |-> IF st = "ABSENT" THEN "none"
                                           ELSE mode]]
  /\ UNCHANGED <<now, class, roster, sess, egress, rec, att, room, call>>

(* Enrolments end or begin while the class runs. *)
Enrol(s) ==
  /\ "enrol" \in use.ops
  /\ roster' = IF s \in roster THEN roster \ {s} ELSE roster \cup {s}
  /\ UNCHANGED <<now, class, sess, egress, rec, att, marks, room, call>>

Proceed(c) ==
  \/ GoLive(c) \/ StartEgress(c) \/ InsertRecording(c) \/ TakeRole(c)
  \/ CloseOwn(c) \/ InsertSession(c) \/ StopRecording(c) \/ Complete(c)
  \/ CancelClass(c) \/ CloseRoom(c) \/ CloseAll(c) \/ ComputeAttendance(c)
  \/ Leave(c)

Next ==
  \/ \E c \in Calls : ReadClass(c) \/ FindOpen(c) \/ Proceed(c)
  \/ \E k \in use.classes : \/ SyncAttendance(k)
                            \/ \E u \in use.people : RemoveParticipant(k, u)
  \/ \E e \in DOMAIN egress : EgressStops(e) \/ Webhook(e)
  \/ \E s \in Students : \/ Enrol(s)
                         \/ \E d \in use.dates : MarkAttendance(d, s)
=============================================================================
