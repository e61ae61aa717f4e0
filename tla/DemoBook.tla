------------------------------ MODULE DemoBook ------------------------------
(***************************************************************************)
(* Demos: booked, moved, conducted, missed or cancelled by hand; or held   *)
(* in the portal's room, which the host opens and ends, the minute job     *)
(* closes when its time is up, and Sales Admin reopens.                    *)
(***************************************************************************)
EXTENDS LeadBook

CONSTANTS
  RoomTime,  \* how long a room stays open
  Ahead, Late  \* a reminder goes out this long before the slot, or after

(* The demo a booking makes.                                               *)
Booking(k, at, host, room) ==
  [k |-> k, st |-> "SCHEDULED", at |-> at, host |-> host, room |-> room,
   started |-> FALSE, exp |-> 0, closed |-> FALSE, asked |-> FALSE,
   reminded |-> FALSE]
DemoFields == [stage |-> "DEMO_SCHEDULED"]  \* lostReason is left as it is

(* createDemo: the transaction, the task of the demo just made, the        *)
(* reminder if there is none, and no follow-up any more.                   *)
CreateDemo(c, k) ==
  \E at \in use.dates, host \in use.hosts, room \in use.rooms :
    /\ Free(c, "book") /\ Live(k) /\ Len(demo) < use.rows
    /\ Start(c, "book", <<[do |-> "book", demo |-> Booking(k, at, host, room)]>>)

Book(c) ==
  LET b == It(c).demo IN
  /\ Runs(c, "book")
  /\ demo' = Append(demo, b)
  /\ lead' = [lead EXCEPT ![b.k] = DemoFields @@ @]
  /\ Goes(c, <<DemoTask(Len(demo) + 1), [do |-> "remindIf", k |-> b.k, at |-> b.at]>>
             \o SyncFollowUp(b.k, Nobody, 0))
  /\ UNCHANGED <<now, task, sent>>

RemindIfNone(c) ==
  /\ Runs(c, "remindIf") /\ Done(c)
  /\ lead' = IF lead[It(c).k].next = 0 THEN [lead EXCEPT ![It(c).k].next = It(c).at] ELSE lead
  /\ UNCHANGED <<now, demo, task, sent>>

-----------------------------------------------------------------------------
(* updateDemo: conducted with an outcome, missed or cancelled, whatever    *)
(* the demo was; another slot, which is offered while it is SCHEDULED; the *)
(* outcome of a demo finished without one later on.                        *)

Scheduled(d) == demo[d].st = "SCHEDULED"

Conduct(c, d) ==
  \E o \in use.outcomes, at \in {0} \cup use.dates :
    LET k == demo[d].k IN
    /\ Free(c, "conduct")
    /\ Start(c, "conduct",
         <<SetDemo(d, [st |-> "COMPLETED"])>> \o MoveReminder(k, demo[d].at, 0)
         \o <<CloseTask(d), SetLead(k, [stage |-> "DEMO_DONE"]), Outcome(k, o, at)>>)

Drop(c, d) ==
  \E st \in {"NO_SHOW", "CANCELLED"} :
    /\ Free(c, "drop")
    /\ Start(c, "drop", <<SetDemo(d, [st |-> st])>>
         \o MoveReminder(demo[d].k, demo[d].at, 0) \o <<CloseTask(d)>>)

MoveSlot(c, d) ==
  \E at \in use.dates \ {demo[d].at} :
    /\ Free(c, "slot") /\ Scheduled(d)
    /\ Start(c, "slot", <<SetDemo(d, [at |-> at])>>
         \o MoveReminder(demo[d].k, demo[d].at, at) \o <<DemoTask(d)>>)

FillOutcome(c, d) ==
  \E o \in use.outcomes :
    /\ Free(c, "fill") /\ demo[d].st = "COMPLETED"
    /\ Start(c, "fill", <<Outcome(demo[d].k, o, 0)>>)

(* rescheduleDemo asks nothing of the old demo's status, and leaves its    *)
(* room as it is.                                                          *)
Reschedule(c, d) ==
  \E at \in use.dates \ {demo[d].at} :
    /\ Free(c, "reschedule") /\ Len(demo) < use.rows
    /\ Start(c, "reschedule", <<[do |-> "again", d |-> d, old |-> demo[d], at |-> at]>>)

\* Mutant: the old booking's task stays open.
AfterRescheduleKeeps(s) ==
  MoveReminder(s.old.k, s.old.at, s.at) \o <<DemoTask(Len(demo) + 1)>>

AfterReschedule(s) ==
  <<CloseTask(s.d)>> \o MoveReminder(s.old.k, s.old.at, s.at)
  \o <<DemoTask(Len(demo) + 1)>>

BookAgain(c) ==
  LET s == It(c) IN
  /\ Runs(c, "again")
  /\ demo' = Append([demo EXCEPT ![s.d].st = "RESCHEDULED"],
                    Booking(s.old.k, s.at, s.old.host, s.old.room))
  /\ lead' = [lead EXCEPT ![s.old.k] = DemoFields @@ @]
  /\ Goes(c, AfterReschedule(s))
  /\ UNCHANGED <<now, task, sent>>

-----------------------------------------------------------------------------
(* The room.                                                               *)

Host(c, d) ==
  LET fresh == IF demo[d].started THEN <<>>
               ELSE <<SetDemo(d, [started |-> TRUE, exp |-> now + RoomTime])>> IN
  /\ Free(c, "host") /\ demo[d].room /\ ~demo[d].closed
  /\ demo[d].st \notin {"CANCELLED", "RESCHEDULED"} /\ fresh # <<>>
  /\ Start(c, "host", fresh)

(* end asks nothing of the demo's status.                                  *)
EndDemo(c, d) ==
  \E o \in use.outcomes \cup {"none"} :
    LET k == demo[d].k IN
    /\ Free(c, "end") /\ demo[d].room
    /\ Start(c, "end",
         <<SetDemo(d, [st |-> "COMPLETED", closed |-> TRUE, started |-> TRUE,
                       exp |-> now, asked |-> FALSE]),
           CloseTask(d), SetLead(k, [stage |-> "DEMO_DONE"])>>
         \o IF o = "none" THEN <<>> ELSE <<Outcome(k, o, 0)>>)

RequestReopen(c, d) ==
  /\ Free(c, "reopen") /\ demo[d].room /\ demo[d].closed /\ ~demo[d].asked
  /\ Start(c, "reopen", <<SetDemo(d, [asked |-> TRUE])>>)

DecideReopen(c, d) ==
  \E approve \in BOOLEAN :
    /\ Free(c, "decide") /\ demo[d].room /\ demo[d].closed
    /\ approve \/ demo[d].asked
    /\ Start(c, "decide", <<SetDemo(d,
         IF approve THEN [closed |-> FALSE, exp |-> now + RoomTime, asked |-> FALSE]
         ELSE [asked |-> FALSE])>>)

-----------------------------------------------------------------------------
(* The minute job: its list is read once; a tick may come while another is *)
(* still at work.                                                          *)

\* Mutant: rooms of demos that are no longer SCHEDULED are not looked for.
ExpiredScheduled(d) ==
  /\ demo[d].room /\ demo[d].started /\ ~demo[d].closed /\ demo[d].exp <= now
  /\ Scheduled(d)

Expired(d) == demo[d].room /\ demo[d].started /\ ~demo[d].closed /\ demo[d].exp <= now

CloseExpired(c) ==
  LET due == SelectSeq([d \in DOMAIN demo |-> d], Expired)
      Steps(d) ==
        IF Scheduled(d)
        THEN <<SetDemo(d, [closed |-> TRUE, st |-> "COMPLETED"]),
               Outcome(demo[d].k, "NEED_FOLLOWUP", 0), CloseTask(d)>>
        ELSE <<SetDemo(d, [closed |-> TRUE])>>
  IN
  /\ Free(c, "close")
  /\ due # <<>>
  /\ Start(c, "close", FlattenSeq([i \in DOMAIN due |-> Steps(due[i])]))

RemindDue(d) ==
  /\ Scheduled(d) /\ ~demo[d].reminded
  /\ demo[d].at <= now + Ahead /\ demo[d].at > now - Late

SendReminders(c) ==
  LET due == SelectSeq([d \in DOMAIN demo |-> d], RemindDue) IN
  /\ Free(c, "remind")
  /\ due # <<>>
  /\ Start(c, "remind", [i \in DOMAIN due |-> [do |-> "claim", d |-> due[i]]])

\* Mutant: the reminder is sent whether or not another tick has claimed it.
ClaimedAny(d) == TRUE

(* Claimed only if nobody has: sent once.                                  *)
Claimed(d) == ~demo[d].reminded

Claim(c) ==
  LET d == It(c).d IN
  /\ Runs(c, "claim") /\ Done(c)
  /\ demo' = [demo EXCEPT ![d].reminded = TRUE]
  /\ sent' = IF Claimed(d) THEN [sent EXCEPT ![d] = @ + 1] ELSE sent
  /\ UNCHANGED <<now, lead, task>>

KeepDemo(c) ==
  \/ Book(c) \/ RemindIfNone(c) \/ BookAgain(c) \/ Claim(c)

Next ==
  \E c \in Calls :
    \/ KeepDemo(c) \/ CloseExpired(c) \/ SendReminders(c)
    \/ \E k \in Leads : CreateDemo(c, k)
    \/ \E d \in DOMAIN demo :
         \/ Conduct(c, d) \/ Drop(c, d) \/ MoveSlot(c, d) \/ FillOutcome(c, d)
         \/ Reschedule(c, d) \/ Host(c, d) \/ EndDemo(c, d)
         \/ RequestReopen(c, d) \/ DecideReopen(c, d)
=============================================================================
