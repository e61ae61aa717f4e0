------------------------------- MODULE MCSales -------------------------------
(* Slices of the sales side: leads, demos and rooms kept by one call at a   *)
(* time; overlapping calls and ticks; Meta's leads; transcripts; a stop of  *)
(* the process.                                                             *)
EXTENDS Sales, TLC

CONSTANTS l1, l2, l3, p1, p2, o1, o2, k1, k2, w1, w2, r1, r2

Slice(ops) ==
  [calls |-> {k1}, workers |-> {}, ops |-> ops, alone |-> {}, leads |-> {l1},
   phones |-> {p1}, owners |-> {o1}, hosts |-> {Nobody}, stages |-> {},
   dates |-> {2}, outcomes |-> {}, rooms |-> {FALSE}, activities |-> {},
   recordings |-> {}, rows |-> 2, until |-> 1, spare |-> 0]

Followed == [Slice({"stage", "log", "tick", "owner", "pull", "assign"})
               EXCEPT !.owners = {o1, Nobody}, !.activities = {"DNP", "FOLLOW_UP", "NOT_INTERESTED"},
                      !.stages = {"FOLLOW_UP", "ENROLLED", "UNRESPONSIVE"}, !.rows = 2]
Demoed == [Slice({"book", "conduct", "drop", "slot", "fill", "reschedule"})
             EXCEPT !.dates = {1, 2}, !.outcomes = {"NEED_FOLLOWUP"}]
Staged == [Slice({"book", "conduct", "stage", "log", "tick", "owner"})
             EXCEPT !.stages = {"DEMO_DONE", "NOT_INTERESTED"}, !.outcomes = {"INTERESTED", "NOT_INTERESTED"}, !.hosts = {o2},
                    !.activities = {"DEMO_BOOKED"}, !.owners = {o1, o2}]
Roomed == [Slice({"book", "host", "end", "reschedule", "reopen", "decide", "close"})
             EXCEPT !.rooms = {TRUE}, !.dates = {1, 2}, !.until = 3]
Reminded == [Slice({"book", "slot", "remind"})
               EXCEPT !.calls = {k1, k2}, !.alone = {"book"}, !.until = 3, !.rows = 2]
Filed == [Slice({"create", "import", "fromCall", "phone", "merge", "delete"})
            EXCEPT !.leads = {}, !.phones = {p1, p2}, !.owners = {o1}, !.dates = {1}, !.until = 2, !.rows = 1]
Notified == [Slice({"create", "notify", "retry", "crash"})
               EXCEPT !.workers = {w1}, !.leads = {}, !.phones = {p1, p2}, !.spare = 2]
Switched == [Slice({"notify", "switch"})
               EXCEPT !.workers = {w1, w2}, !.leads = {}]
Recorded == [Slice({"crash"}) EXCEPT !.calls = {}, !.recordings = {r1, r2}]
RecordedAgain == [Recorded EXCEPT !.ops = {"again", "crash"}]

MCUses == {Followed, Demoed, Staged, Roomed, Reminded, Filed, Notified,
           Switched, Recorded, RecordedAgain}
=============================================================================
