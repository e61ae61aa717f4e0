-------------------------------- MODULE Sales --------------------------------
(***************************************************************************)
(* The sales side: the lead book (LeadBook), the demos (DemoBook) and the  *)
(* leads from Meta (MetaLeads) share the leads and the tasks; recordings   *)
(* wait for their transcripts (Transcripts).  The process may stop once,   *)
(* between any two statements.                                             *)
(***************************************************************************)
EXTENDS Integers, FiniteSets, Sequences

CONSTANTS
  Leads, Phones, People, Calls, Workers, Events, Recordings, Uses, MaxNow,
  MaxRows, DnpLimit, MaxAttempts, Batch, RoomTime, Ahead, Late,
  Nobody, NoLead, NoEvent, NoRow

VARIABLES use, now, lead, demo, task, sent, call, event, meta, work, row,
          stale, queuer, crashed

Book == INSTANCE LeadBook WITH Sources <- Events
Demos == INSTANCE DemoBook WITH Sources <- Events
Meta == INSTANCE MetaLeads
Queue == INSTANCE Transcripts

ASSUME UsesShape ==
  \A u \in Uses :
    /\ u.calls \subseteq Calls /\ u.workers \subseteq Workers
    /\ u.leads \subseteq Leads /\ u.phones \subseteq Phones
    /\ u.owners \subseteq People \cup {Nobody} /\ u.hosts \subseteq People \cup {Nobody}
    /\ u.stages \subseteq Book!Stages /\ u.dates \subseteq 1 .. MaxNow
    /\ u.outcomes \subseteq Book!Outcomes /\ u.rooms \subseteq BOOLEAN
    /\ u.recordings \subseteq Recordings
    /\ u.ops \subseteq STRING /\ u.alone \subseteq STRING
    /\ u.rows \in 0 .. MaxRows /\ u.spare \in Nat /\ u.until \in 1 .. MaxNow
ASSUME Bounds ==
  /\ MaxNow \in 1 .. Book!Auto - 1 /\ MaxRows \in Nat
  /\ {DnpLimit, MaxAttempts, Batch, RoomTime} \subseteq Nat \ {0}
  /\ Ahead \in Nat /\ Late \in Nat

sales == <<now, demo, task, sent, call>>
metas == <<event, meta, work>>
queue == <<row, stale, queuer>>
vars == <<use, lead, sales, metas, queue, crashed>>

Init ==
  /\ use \in Uses /\ crashed = FALSE
  /\ Book!Init /\ Meta!Init /\ Queue!Init

KeepBook == Book!BookNext /\ UNCHANGED <<use, metas, queue, crashed>>
KeepDemos == Demos!Next /\ UNCHANGED <<use, metas, queue, crashed>>
ReceiveMeta == Meta!Next /\ UNCHANGED <<use, sales, queue, crashed>>
Transcribe == Queue!Next /\ UNCHANGED <<use, lead, sales, metas, crashed>>

(* Where one call runs at a time, it also ends within the instant.         *)
AllIdle == \A c \in Calls : call[c] = Book!Idle
Tick ==
  /\ now < use.until \* bound
  /\ Book!Serial => AllIdle
  /\ now' = now + 1
  /\ UNCHANGED <<use, lead, demo, task, sent, call, metas, queue, crashed>>

Crash ==
  /\ "crash" \in use.ops /\ ~crashed
  /\ crashed' = TRUE
  /\ call' = [c \in Calls |-> Book!Idle]
  /\ work' = [w \in Workers |-> Meta!Idle]
  /\ queuer' = Queue!Off
  /\ UNCHANGED <<use, now, lead, demo, task, sent, event, meta, row, stale>>

Next == KeepBook \/ KeepDemos \/ ReceiveMeta \/ Transcribe \/ Tick \/ Crash

(* Calls go on; the minute jobs get their turn however many calls are made, *)
(* which here wait for a free place among Calls and Workers.                *)
Fairness ==
  /\ WF_vars(/\ \E c \in Calls : Book!Keep(c) \/ Demos!KeepDemo(c)
             /\ UNCHANGED <<use, metas, queue, crashed>>)
  /\ SF_vars(/\ \E c \in Calls : Demos!CloseExpired(c)
             /\ UNCHANGED <<use, metas, queue, crashed>>)
  /\ WF_vars(/\ \E w \in Workers : Meta!Proceed(w)
             /\ UNCHANGED <<use, sales, queue, crashed>>)
  /\ SF_vars(/\ \E w \in Workers : Meta!RetryFailed(w)
             /\ UNCHANGED <<use, sales, queue, crashed>>)
  /\ WF_vars(Queue!RunStep /\ UNCHANGED <<use, lead, sales, metas, crashed>>)
  /\ \A r \in Recordings :
       WF_vars(Queue!Age(r) /\ UNCHANGED <<use, lead, sales, metas, crashed>>)

Spec == Init /\ [][Next]_vars /\ Fairness

-----------------------------------------------------------------------------
TypeOK ==
  /\ use \in Uses /\ crashed \in BOOLEAN
  /\ Book!TypeOK /\ Meta!TypeOK /\ Queue!TypeOK

Without(ops) == use.ops \cap ops = {}

(* Between calls, where one runs at a time and none was cut short, the     *)
(* tasks say what the leads and the demos say.  A live lead has at most    *)
(* one open follow-up, and none once it is lost or enrolled, unless leads  *)
(* were merged; an open demo task is the only one of its demo, which is    *)
(* still to be held, and is due when the demo is (utils/salesFlow.ts).     *)
FollowUpsAgree ==
  \A k \in Leads :
    Book!Live(k) =>
      /\ Cardinality(Book!OpenOf(k, "FOLLOW_UP")) <= 1
      /\ Book!Closed(lead[k].stage) => Book!OpenOf(k, "FOLLOW_UP") = {}

DemoTasksAgree ==
  /\ \A t \in DOMAIN task :
       task[t].kind = "DEMO" =>
         /\ demo[task[t].d].st = "SCHEDULED"
         /\ Without({"pull"}) => task[t].at = demo[task[t].d].at
         /\ Book!OpenFor(task[t].d) = {t}
  /\ Without({"import", "tick", "pull"}) /\ Nobody \notin use.owners =>
       \A d \in DOMAIN demo : demo[d].st = "SCHEDULED" => Book!OpenFor(d) # {}

TasksAgree ==
  Book!Serial /\ AllIdle /\ ~crashed =>
    /\ Without({"merge"}) => FollowUpsAgree
    /\ DemoTasksAgree

(* A demo is reminded of once however the minute job's ticks overlap; one  *)
(* lead comes of a notification however often it is repeated, retried or   *)
(* cut short, where one is in process at a time; and no two live leads     *)
(* have the same phoneKey where one call runs at a time.                   *)
DoneOnce ==
  /\ \A d \in DOMAIN demo : sent[d] <= 1
  /\ Cardinality(use.workers) <= 1 /\ Without({"delete", "phone", "merge"}) =>
       \A e \in Events : Cardinality({k \in Leads : lead[k].src = e}) <= 1
  /\ Book!Serial /\ use.workers = {} =>
       \A j, k \in Leads :
         /\ Book!Live(j) /\ Book!Live(k) /\ lead[j].key /\ lead[k].key
         /\ lead[j].phone = lead[k].phone
         => j = k

(* A demo room whose time is up is closed.  A notification that failed is  *)
(* tried until it is settled or its attempts are used up.  A recording     *)
(* queued once is transcribed or given up, even if the process stopped on  *)
(* it.                                                                     *)
TimeUp(d) == demo[d].started /\ ~demo[d].closed /\ demo[d].exp <= now

RoomsClose ==
  \A d \in 1 .. MaxRows :
    ("close" \in use.ops /\ d \in DOMAIN demo /\ TimeUp(d))
    ~> (d \in DOMAIN demo /\ ~TimeUp(d))

EventsSettle ==
  \A e \in Events :
    (Without({"switch"}) /\ use.workers # {} /\ Meta!Due(e)) ~> ~Meta!Due(e)

TranscriptsSettle ==
  \A r \in Recordings :
    (Without({"again"}) /\ Queue!Unfinished(r))
    ~> (~Queue!Unfinished(r) \/ row[r].tries >= MaxAttempts)

SalesSettles == RoomsClose /\ EventsSettle /\ TranscriptsSettle
=============================================================================
