----------------------------- MODULE MCClassroom -----------------------------
(* Slices of the classroom: a class held by one call at a time; its joins,  *)
(* departures and end overlapping; its recording; guests; the timetable.    *)
EXTENDS Classroom, TLC

CONSTANTS c1, c2, c3, t1, s1, k1, k2

Slice(calls, ops) ==
  [calls |-> calls, ops |-> ops, classes |-> {c1}, rows |-> 3, until |-> 1,
   alone |-> {"start", "end", "cancel"}, people |-> {s1}, dates |-> {}, days |-> {}, pattern |-> "MON_SAT"]
PlanSlice(ops, pattern, dates) ==
  [Slice({k1}, ops) EXCEPT !.classes = {}, !.days = {2}, !.dates = dates,
                           !.pattern = pattern]

HeldSerially == [Slice({k1}, {"start", "end", "cancel", "join", "remove"})
                     EXCEPT !.people = {s1, t1}, !.until = 4]
HeldOverlapping == [Slice({k1, k2}, {"start", "join", "leave", "end"})
                      EXCEPT !.until = 3]
Marked == [Slice({k1}, {"start", "end", "join", "sync", "mark", "enrol"})
             EXCEPT !.dates = {1}, !.until = 3, !.rows = 2]
Recorded == Slice({k1, k2}, {"start", "end", "cancel", "abort", "record"})
SatIn == [Slice({k1}, {"start", "end", "request", "approve", "reject",
                       "cancelRequest", "enter"}) EXCEPT !.rows = 1, !.until = 4]
Weekends == PlanSlice({"bulkCreate", "upload", "cancelBulk"}, "SAT_SUN", {1, 7})
Weeks == PlanSlice({"bulkCreate", "upload", "cancelBulk"}, "MON_SAT", {1, 6})
Singles == PlanSlice({"create", "update", "bulkCreate"}, "MON_FRI", {1, 5})

MCUses == {HeldSerially, HeldOverlapping, Marked, Recorded, SatIn, Weekends,
           Weeks, Singles}
=============================================================================
