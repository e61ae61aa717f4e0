------------------------------ MODULE LeadBook ------------------------------
(***************************************************************************)
(* What sales keeps in step: leads, demos and tasks, with the shared rules *)
(* of utils/salesFlow.ts that every handler calls, and the lead book: leads *)
(* made by hand, from a spreadsheet or from a call, moved through the      *)
(* stages, logged, handed out, pulled back, removed and merged, and tasks  *)
(* ticked off by hand.  A call in flight is the sequence of its statements *)
(* still to run, each with what it was told by the reads before it; one    *)
(* step runs the first of them.                                            *)
(***************************************************************************)
EXTENDS Integers, FiniteSets, Sequences, SequencesExt, TLC

CONSTANTS
  Leads,     \* ids of Lead
  Phones,
  People,    \* salespeople
  Calls,     \* the calls that may be in flight at once
  Sources,   \* where a lead may come from, other than a form
  MaxNow,    \* bound: the last instant
  MaxRows,   \* bound: demos ever booked
  DnpLimit,  \* this many unanswered calls in a row make a lead unresponsive
  Nobody,    \* as an owner: My Base
  NoLead

VARIABLES
  use,   \* of this behaviour: its calls, operations, leads and bounds
  now,   \* the clock
  lead, demo, task,  \* the tables; demos and tasks in the order of creation
  sent,  \* reminders sent for each demo
  call   \* the calls in flight

Stages == {"NEW", "DNP", "FOLLOW_UP", "DEMO_SCHEDULED", "DEMO_DONE",
           "OVER_POSITIVE", "OVER_FOLLOW_UP", "NOT_INTERESTED",
           "UNRESPONSIVE", "ENROLLED"}
(* The stage as reports count it: Admin-made stages carry a built-in one.  *)
Lost(stage) == stage \in {"NOT_INTERESTED", "UNRESPONSIVE"}
DemoDone(stage) == stage \in {"DEMO_DONE", "OVER_POSITIVE", "OVER_FOLLOW_UP"}
Closed(stage) == Lost(stage) \/ stage = "ENROLLED"

(* A date to come back on; 0 is none, Auto the one set when nobody chose.  *)
Auto == 9
Date == 0 .. MaxNow \cup {Auto}
DemoStatus == {"SCHEDULED", "COMPLETED", "NO_SHOW", "CANCELLED", "RESCHEDULED"}

(* Of lostReason only whether there is one; key is whether phoneKey is set. *)
Lead == [live : {"none", "live", "gone"}, phone : Phones, key : BOOLEAN,
         owner : People \cup {Nobody}, stage : Stages, lost : BOOLEAN,
         dnp : 0 .. DnpLimit, next : Date, src : Sources \cup {"form", "call"}]
Demo == [k : Leads, st : DemoStatus, at : Date, host : People \cup {Nobody},
         room : BOOLEAN, started : BOOLEAN, exp : Nat, closed : BOOLEAN,
         asked : BOOLEAN, reminded : BOOLEAN]
(* Nothing reads a task that is DONE or CANCELLED: its place is free again. *)
Task == [k : Leads, kind : {"FOLLOW_UP", "DEMO"}, d : 0 .. MaxRows, at : Date,
         who : People]
NoTask == [k |-> NoLead, kind |-> "none", d |-> 0]
Places == 1 .. MaxRows + 1 \* bound: tasks open at once

TypeOK ==
  /\ now \in 1 .. MaxNow
  /\ lead \in [Leads -> Lead]
  /\ \A d \in DOMAIN demo : demo[d] \in Demo
  /\ \A t \in Places : task[t] = NoTask \/ task[t] \in Task
  /\ sent \in [1 .. MaxRows -> Nat]

Blank(p) == [live |-> "none", phone |-> p, key |-> TRUE, owner |-> Nobody,
             stage |-> "NEW", lost |-> FALSE, dnp |-> 0, next |-> 0,
             src |-> "form"]
Idle == [op |-> "none", todo |-> <<>>]

Init ==
  /\ now = 1
  /\ lead = [k \in Leads |->
               LET b == Blank(CHOOSE p \in Phones : TRUE) IN
               IF k \in use.leads
               THEN [b EXCEPT !.live = "live", !.owner = CHOOSE w \in People : TRUE]
               ELSE b]
  /\ demo = <<>> /\ task = [t \in Places |-> NoTask]
  /\ sent = [d \in 1 .. MaxRows |-> 0]
  /\ call = [c \in Calls |-> Idle]

-----------------------------------------------------------------------------
Live(k) == lead[k].live = "live"
Serial == Cardinality(use.calls) = 1
(* Operations of use.alone do not overlap any other.                       *)
Free(c, op) ==
  /\ op \in use.ops /\ c \in use.calls /\ call[c] = Idle
  /\ \A d \in Calls : call[d].op \notin use.alone
  /\ op \in use.alone => \A d \in Calls : call[d] = Idle
Start(c, op, todo) ==
  /\ call' = [call EXCEPT ![c] = IF todo = <<>> THEN Idle
                                 ELSE [op |-> op, todo |-> todo]]
  /\ UNCHANGED <<now, lead, demo, task, sent>>

(* The statement c runs now, and what c still has to do after it.          *)
Runs(c, do) == call[c].todo # <<>> /\ Head(call[c].todo).do = do
It(c) == Head(call[c].todo)
Rest(c) == Tail(call[c].todo)
Goes(c, todo) ==
  call' = [call EXCEPT ![c] = IF todo = <<>> THEN Idle ELSE [@ EXCEPT !.todo = todo]]
Done(c) == Goes(c, Rest(c))

OpenOf(k, kind) ==
  {t \in Places : task[t].k = k /\ task[t].kind = kind}
SetTasks(T, data) ==
  task' = [t \in Places |-> IF t \in T THEN data @@ task[t] ELSE task[t]]
CloseTasks(T) == task' = [t \in Places |-> IF t \in T THEN NoTask ELSE task[t]]
AddTask(data) ==
  LET free == {t \in Places : task[t] = NoTask} IN
  /\ free # {}
  /\ task' = [task EXCEPT ![Min(free)] = data]

-----------------------------------------------------------------------------
(* prisma.lead.update and prisma.demo.update with these data.              *)

SetLead(k, data) == [do |-> "lead", k |-> k, data |-> data]
SetDemo(d, data) == [do |-> "demo", d |-> d, data |-> data]

WriteLead(c) ==
  /\ Runs(c, "lead") /\ Done(c)
  /\ lead' = [lead EXCEPT ![It(c).k] = It(c).data @@ @]
  /\ UNCHANGED <<now, demo, task, sent>>

WriteDemo(c) ==
  /\ Runs(c, "demo") /\ Done(c)
  /\ demo' = [demo EXCEPT ![It(c).d] = It(c).data @@ @]
  /\ UNCHANGED <<now, lead, task, sent>>

-----------------------------------------------------------------------------
(* syncFollowUpTask: close the open follow-up tasks, then make one.        *)

\* Mutant: a task is made though nobody owns the lead.
SyncFollowUpUnowned(k, who, at) ==
  <<[do |-> "close", k |-> k]>> \o
  IF at = 0 THEN <<>>
  ELSE <<[do |-> "chase", k |-> k, who |-> who, at |-> at]>>

SyncFollowUp(k, who, at) ==
  <<[do |-> "close", k |-> k]>> \o
  IF at = 0 \/ who = Nobody THEN <<>>
  ELSE <<[do |-> "chase", k |-> k, who |-> who, at |-> at]>>

CloseFollowUps(c) ==
  /\ Runs(c, "close") /\ Done(c)
  /\ CloseTasks(OpenOf(It(c).k, "FOLLOW_UP"))
  /\ UNCHANGED <<now, lead, demo, sent>>

AddFollowUp(c) ==
  /\ Runs(c, "chase") /\ Done(c)
  /\ AddTask([k |-> It(c).k, kind |-> "FOLLOW_UP", d |-> 0,
              at |-> It(c).at, who |-> It(c).who])
  /\ UNCHANGED <<now, lead, demo, sent>>

(* ensureReminderForStage; only for the stages that need one.              *)
Ensure(k, stage) ==
  IF stage \in {"FOLLOW_UP", "OVER_FOLLOW_UP"} THEN <<[do |-> "ensure", k |-> k]>>
  ELSE <<>>

EnsureReminder(c) ==
  LET k == It(c).k IN
  /\ Runs(c, "ensure")
  /\ Goes(c, IF lead[k].next # 0 \/ Closed(lead[k].stage) THEN Rest(c)
             ELSE <<SetLead(k, [next |-> Auto])>>
                  \o SyncFollowUp(k, lead[k].owner, Auto) \o Rest(c))
  /\ UNCHANGED <<now, lead, demo, task, sent>>

(* moveOpenTasks *)
MoveTo(k, who) == [do |-> "move", k |-> k, who |-> who]

MoveOpenTasks(c) ==
  /\ Runs(c, "move") /\ Done(c)
  /\ SetTasks(OpenOf(It(c).k, "FOLLOW_UP") \cup OpenOf(It(c).k, "DEMO"), [who |-> It(c).who])
  /\ UNCHANGED <<now, lead, demo, sent>>

-----------------------------------------------------------------------------
(* upsertDemoTask: read the demo and its open task, then write the task.   *)

DemoTask(d) == [do |-> "demoTask", d |-> d]
OpenFor(d) == {t \in Places : task[t].d = d}

FindDemoTask(c) ==
  LET d == It(c).d
      who == IF demo[d].host # Nobody THEN demo[d].host ELSE lead[demo[d].k].owner
      data == [k |-> demo[d].k, kind |-> "DEMO", d |-> d, at |-> demo[d].at,
               who |-> who]
  IN
  /\ Runs(c, "demoTask")
  /\ \/ who = Nobody /\ Done(c)
     \/ /\ who # Nobody /\ OpenFor(d) = {}
        /\ Goes(c, <<[do |-> "addTask", data |-> data]>> \o Rest(c))
     \/ /\ who # Nobody
        /\ \E t \in OpenFor(d) :
             Goes(c, <<[do |-> "setTask", t |-> t, d |-> d,
                        data |-> [at |-> demo[d].at, who |-> who]]>> \o Rest(c))
  /\ UNCHANGED <<now, lead, demo, task, sent>>

WriteDemoTask(c) ==
  /\ \/ Runs(c, "addTask") /\ AddTask(It(c).data)
     \/ Runs(c, "setTask") /\ SetTasks({It(c).t} \cap OpenFor(It(c).d), It(c).data)
  /\ Done(c)
  /\ UNCHANGED <<now, lead, demo, sent>>

(* closeDemoTask *)
CloseTask(d) == [do |-> "closeTask", d |-> d]

CloseDemoTask(c) ==
  /\ Runs(c, "closeTask") /\ Done(c)
  /\ CloseTasks(OpenFor(It(c).d))
  /\ UNCHANGED <<now, lead, demo, sent>>

-----------------------------------------------------------------------------
(* moveDemoReminder: the slot doubles as the lead's reminder.              *)

MoveReminder(k, old, at) ==
  IF old = 0 THEN <<>> ELSE <<[do |-> "reminder", k |-> k, old |-> old, at |-> at]>>

MoveDemoReminder(c) ==
  LET s == It(c) IN
  /\ Runs(c, "reminder") /\ Done(c)
  /\ lead' = IF lead[s.k].next = s.old THEN [lead EXCEPT ![s.k].next = s.at] ELSE lead
  /\ UNCHANGED <<now, demo, task, sent>>

Outcomes == {"INTERESTED", "NEED_FOLLOWUP", "NOT_INTERESTED"}
(* OUTCOME_PLAN; FIFTY_FIFTY is NEED_FOLLOWUP with another default date.   *)
Plan(outcome) ==
  CASE outcome = "INTERESTED" -> [stage |-> "OVER_POSITIVE", at |-> 0]
    [] outcome = "NEED_FOLLOWUP" -> [stage |-> "OVER_FOLLOW_UP", at |-> Auto]
    [] outcome = "NOT_INTERESTED" -> [stage |-> "NOT_INTERESTED", at |-> 0]

(* applyDemoOutcome, with the follow-up date the caller chose, or 0.       *)
Outcome(k, outcome, at) ==
  [do |-> "outcome", k |-> k, outcome |-> outcome, at |-> at]

ApplyDemoOutcome(c) ==
  LET k == It(c).k
      plan == Plan(It(c).outcome)
      lost == Lost(plan.stage)
      at == IF lost THEN 0 ELSE IF It(c).at # 0 THEN It(c).at ELSE plan.at
  IN
  /\ Runs(c, "outcome")
  /\ Goes(c, <<SetLead(k, [stage |-> plan.stage, lost |-> lost, next |-> at])>>
             \o SyncFollowUp(k, IF lost THEN Nobody ELSE lead[k].owner, at)
             \o Rest(c))
  /\ UNCHANGED <<now, lead, demo, task, sent>>

(* completeScheduledDemos: reads the lead's scheduled demos, then finishes *)
(* each; its room, if it has one, is closed.                               *)
Finish(k) == [do |-> "finish", k |-> k]

CompleteScheduledDemos(c) ==
  LET k == It(c).k
      open == SelectSeq([d \in DOMAIN demo |-> d],
                        LAMBDA d : demo[d].k = k /\ demo[d].st = "SCHEDULED")
      Steps(d) == MoveReminder(k, demo[d].at, 0)
                  \o <<SetDemo(d, [st |-> "COMPLETED",
                                   closed |-> demo[d].room \/ demo[d].closed]),
                       CloseTask(d)>>
  IN
  /\ Runs(c, "finish")
  /\ Goes(c, FlattenSeq([i \in DOMAIN open |-> Steps(open[i])]) \o Rest(c))
  /\ UNCHANGED <<now, lead, demo, task, sent>>

Proceed(c) ==
  \/ WriteLead(c) \/ WriteDemo(c) \/ CloseFollowUps(c) \/ AddFollowUp(c)
  \/ EnsureReminder(c) \/ MoveOpenTasks(c) \/ FindDemoTask(c)
  \/ WriteDemoTask(c) \/ CloseDemoTask(c) \/ MoveDemoReminder(c)
  \/ ApplyDemoOutcome(c) \/ CompleteScheduledDemos(c)

-----------------------------------------------------------------------------
(* The lead book.  Every handler reads first and then runs its statements. *)

KeyTaken(p) == \E k \in Leads : Live(k) /\ lead[k].key /\ lead[k].phone = p
(* A new lead, with the demo a spreadsheet row may bring along at `at'.     *)
Born(p, data, at) ==
  [do |-> "new", data |-> data @@ [live |-> "live", phone |-> p], at |-> at]

Unborn == {k \in Leads : lead[k].live = "none"}
Fits(n) == Cardinality(Unborn) >= n + use.spare \* bound

(* prisma.lead.create: the row gets an id no lead has had.                 *)
NewLead(c) ==
  LET k == CHOOSE k \in Unborn : TRUE IN
  /\ Runs(c, "new")
  /\ Goes(c, (IF It(c).at = 0 THEN <<>>
              ELSE <<[do |-> "legacy", k |-> k, at |-> It(c).at]>>) \o Rest(c))
  /\ lead' = [lead EXCEPT ![k] = It(c).data @@ @]
  /\ UNCHANGED <<now, demo, task, sent>>

\* Mutant: the phone is not looked up first.
MayCreateAny(p) == TRUE

(* assertNoDuplicateLead *)
MayCreate(p) == ~KeyTaken(p)

CreateLead(c) ==
  \E p \in use.phones, who \in use.owners :
    /\ Free(c, "create") /\ Fits(1) /\ MayCreate(p)
    /\ Start(c, "create", <<Born(p, [owner |-> who], 0)>>)

(* bulkUploadLeads reads the phones once; of the rows it takes those whose *)
(* phone is neither there nor earlier in the file.  A row may come lost,   *)
(* or with a demo that is over or still to come; no tasks are made.        *)
Row(p, stage, at) ==
  Born(p, [owner |-> CHOOSE w \in use.owners : TRUE, stage |-> stage,
           lost |-> Lost(stage)], IF stage = "DEMO_SCHEDULED" THEN at ELSE 0)

ImportLeads(c) ==
  LET new == SetToSeq({p \in use.phones : ~KeyTaken(p)}) IN
  \E stage \in [DOMAIN new -> {"NEW", "NOT_INTERESTED", "DEMO_SCHEDULED"}], at \in use.dates :
    /\ Free(c, "import") /\ Fits(Len(new)) /\ Len(demo) + Len(new) <= use.rows
    /\ Start(c, "import", [i \in DOMAIN new |-> Row(new[i], stage[i], at)])

ImportDemo(c) ==
  /\ Runs(c, "legacy") /\ Done(c)
  /\ demo' = Append(demo, [k |-> It(c).k, at |-> It(c).at, host |-> Nobody,
                           st |-> IF It(c).at < now THEN "COMPLETED" ELSE "SCHEDULED",
                           room |-> FALSE, started |-> FALSE, exp |-> 0, closed |-> FALSE,
                           asked |-> FALSE, reminded |-> FALSE])
  /\ UNCHANGED <<now, lead, task, sent>>

(* createLeadFromUnmatchedCall leaves phoneKey empty and looks nothing up. *)
CreateFromCall(c) ==
  \E p \in use.phones, who \in use.owners \ {Nobody} :
    /\ Free(c, "fromCall") /\ Fits(1)
    /\ Start(c, "fromCall", <<Born(p, [owner |-> who, key |-> FALSE, src |-> "call"], 0)>>)

-----------------------------------------------------------------------------
(* updateLead: another stage, another owner, another phone.                *)

StageData(g) ==
  [stage |-> g, lost |-> Lost(g)] @@ (IF g = "UNRESPONSIVE" THEN <<>> ELSE [dnp |-> 0])

\* Mutant: a closed lead keeps its follow-up task.
StageFollowUpKept(k, g) == Ensure(k, g)

StageFollowUp(k, g) ==
  (IF Closed(g) THEN SyncFollowUp(k, Nobody, 0) ELSE <<>>) \o Ensure(k, g)

UpdateStage(c, k) ==
  \E g \in use.stages :
    /\ Free(c, "stage") /\ Live(k)
    /\ Start(c, "stage",
         <<SetLead(k, StageData(g))>>
         \o (IF DemoDone(g) /\ ~DemoDone(lead[k].stage) THEN <<Finish(k)>> ELSE <<>>)
         \o StageFollowUp(k, g))

UpdateOwner(c, k) ==
  \E who \in use.owners \ {lead[k].owner} :
    /\ Free(c, "owner") /\ Live(k)
    /\ Start(c, "owner", <<SetLead(k, [owner |-> who])>>
         \o IF who = Nobody THEN <<>> ELSE <<MoveTo(k, who)>>)

UpdatePhone(c, k) ==
  \E p \in use.phones :
    /\ Free(c, "phone") /\ Live(k)
    /\ (lead[k].key /\ lead[k].phone = p) \/ MayCreate(p)
    /\ Start(c, "phone", <<SetLead(k, [phone |-> p, key |-> TRUE])>>)

DeleteLead(c, k) ==
  /\ Free(c, "delete") /\ Live(k)
  /\ Start(c, "delete", <<SetLead(k, [live |-> "gone"])>>)

-----------------------------------------------------------------------------
(* addCallLog: the update status decides the stage, an explicit stage of   *)
(* the form wins; the fifth DNP in a row makes the lead unresponsive.      *)

Activity == [DNP |-> "DNP", FOLLOW_UP |-> "FOLLOW_UP",
             DEMO_BOOKED |-> "DEMO_SCHEDULED", NOT_INTERESTED |-> "NOT_INTERESTED"]
NextDnp(k, a) == IF a = "DNP" THEN lead[k].dnp + 1 ELSE 0
NeedsFollowUp(a) == a # "NOT_INTERESTED"

LogActivity(c, k) ==
  \E a \in DOMAIN Activity \cap use.activities, at \in use.dates, g \in Stages :
    LET unanswered == NextDnp(k, a) >= DnpLimit
        stage == IF unanswered THEN "UNRESPONSIVE" ELSE g
        next == IF NeedsFollowUp(a) /\ ~Closed(stage) THEN at ELSE 0
    IN
    /\ Free(c, "log") /\ Live(k) /\ g \in {Activity[a]} \cup use.stages
    /\ Start(c, "log",
         <<SetLead(k, [stage |-> stage, lost |-> Lost(stage), next |-> next,
                       dnp |-> IF unanswered THEN DnpLimit ELSE NextDnp(k, a)])>>
         \o SyncFollowUp(k, lead[k].owner, IF a = "DEMO_BOOKED" THEN 0 ELSE next)
         \o IF DemoDone(stage) THEN <<Finish(k)>> ELSE <<>>)

-----------------------------------------------------------------------------
(* myBase: hand leads out, and pull them back.  Enrolled leads stay.       *)

Movable(k) == Live(k) /\ lead[k].stage # "ENROLLED"

Assign(c, k) ==
  \E who \in use.owners \ {Nobody} :
    /\ Free(c, "assign") /\ Movable(k)
    /\ Start(c, "assign", <<SetLead(k, [owner |-> who])>>
         \o IF lead[k].owner = Nobody THEN <<>> ELSE <<MoveTo(k, who)>>)

Pull(c, k) ==
  /\ Free(c, "pull") /\ Movable(k) /\ lead[k].owner # Nobody
  /\ Start(c, "pull", <<SetLead(k, [owner |-> Nobody]), [do |-> "drop", k |-> k],
                        SetLead(k, [next |-> 0])>>)

DropFollowUps(c) ==
  /\ Runs(c, "drop") /\ Done(c)
  /\ CloseTasks(OpenOf(It(c).k, "FOLLOW_UP"))
  /\ UNCHANGED <<now, lead, demo, sent>>

(* updateTask *)
TickTask(c, t) ==
  /\ Free(c, "tick") /\ task[t] # NoTask
  /\ Start(c, "tick", <<[do |-> "tick", t |-> t, was |-> task[t]]>>
       \o IF task[t].kind = "FOLLOW_UP" THEN MoveReminder(task[t].k, task[t].at, 0)
          ELSE <<>>)

Ticked(c) ==
  /\ Runs(c, "tick") /\ Done(c)
  /\ CloseTasks({t \in {It(c).t} : task[t] = It(c).was})
  /\ UNCHANGED <<now, lead, demo, sent>>

-----------------------------------------------------------------------------
(* leadDuplicates.merge: one transaction, on the leads read before it.     *)

Merge(c, k, j) ==
  /\ Free(c, "merge") /\ k # j /\ Live(k) /\ Live(j)
  /\ lead[j].phone = lead[k].phone /\ lead[j].key = lead[k].key
  /\ Start(c, "merge", <<[do |-> "merge", k |-> k, j |-> j]>>)

MergeLeads(c) ==
  LET s == It(c)
      Moved(rows) == [i \in DOMAIN rows |-> IF rows[i].k = s.j THEN [rows[i] EXCEPT !.k = s.k]
                                            ELSE rows[i]]
  IN
  /\ Runs(c, "merge") /\ Done(c)
  /\ demo' = Moved(demo) /\ task' = Moved(task)
  /\ lead' = [lead EXCEPT ![s.j].live = "gone"]
  /\ UNCHANGED <<now, sent>>

Keep(c) ==
  \/ NewLead(c) \/ ImportDemo(c) \/ DropFollowUps(c) \/ Ticked(c) \/ MergeLeads(c)
  \/ Proceed(c)

BookNext ==
  \E c \in Calls :
    \/ CreateLead(c) \/ ImportLeads(c) \/ CreateFromCall(c) \/ Keep(c)
    \/ \E k \in Leads : \/ UpdateStage(c, k) \/ UpdateOwner(c, k)
                        \/ UpdatePhone(c, k) \/ DeleteLead(c, k)
                        \/ LogActivity(c, k) \/ Assign(c, k) \/ Pull(c, k)
                        \/ \E j \in Leads : Merge(c, k, j)
    \/ \E t \in Places : TickTask(c, t)
=============================================================================
