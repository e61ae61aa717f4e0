----------------------------- MODULE Coursework -----------------------------
(***************************************************************************)
(* Online tests, and placement tests, which mirror them: the questions,    *)
(* the activation, and each student's attempt, answered against a timer    *)
(* under supervision, graded when it ends, and given again by the trainer. *)
(* Then projects, which students hand in and trainers review; feedback     *)
(* forms, whose questions the Production Manager may replace; the          *)
(* trainer's log of topics; and the morning job that reminds students of a *)
(* deadline one, two or three days away.  An instant of the clock is a day *)
(* there.                                                                  *)
(***************************************************************************)
EXTENDS Portal

CONSTANTS
  Questions,
  Duration,   \* of an attempt
  NoAttempt   \* this student has none

VARIABLES
  paper,  \* of each question its order in the test, 0 if it is not there
  exam,   \* the attempt of each student
  made    \* attempts ever made

Right == 1   \* the option that is correct
MaxWarnings == 2
Ended == {"SUBMITTED", "AUTO_SUBMITTED_VIOLATION", "EXPIRED"}

(* pick is the option selected, 0 if none; mark is isCorrect.  score and   *)
(* total are the questions whose marks they add up.                        *)
Attempt ==
  [id : Nat \ {0}, st : Ended \cup {"IN_PROGRESS"}, deadline : Nat,
   count : Nat, shots : Nat, pick : [Questions -> 0 .. 2],
   mark : [Questions -> {"none", "right", "wrong"}],
   score : SUBSET Questions, total : SUBSET Questions]

ExamTypeOK ==
  /\ paper \in [Questions -> Nat]
  /\ \A s \in Students : exam[s] = NoAttempt \/ exam[s] \in Attempt
  /\ made \in Nat

(* The questions are there already unless the behaviour writes them.       *)
ExamInit ==
  /\ paper = IF "author" \in use.ops THEN [q \in Questions |-> 0]
             ELSE CHOOSE f \in [Questions -> 1 .. Cardinality(Questions)] :
                    \A p, q \in Questions : f[p] = f[q] => p = q
  /\ exam = [s \in Students |-> NoAttempt]
  /\ made = 0

tests == <<now, roster, form, release, paper, exam, made>>
Begin(c, op, todo) == Free(c, op) /\ Start(c, op, todo) /\ UNCHANGED tests
Alters(s, data) == exam' = [exam EXCEPT ![s] = data @@ @]

-----------------------------------------------------------------------------
(* The questions.  None of this asks whether the test is out.              *)
Asked == {q \in Questions : paper[q] # 0}

AddQuestion(c, q) ==
  Begin(c, "author", <<[do |-> "rows", rows |-> <<q>>,
                        order |-> Cardinality(Asked) + 1]>>)
AddPlacementQuestion(c, q) == AddQuestion(c, q)

BulkUploadQuestions(c, p, q) ==
  Begin(c, "author", <<[do |-> "rows", rows |-> <<p, q>>,
                        order |-> Cardinality(Asked) + 1]>>)

(* One row: the order it gets may be taken already, when a question before *)
(* it was deleted; then the row fails and the next tries the same order.   *)
AddRow(c) ==
  LET it == It(c)
      q == Head(it.rows)
      fits == paper[q] = 0 /\ \A p \in Asked : paper[p] # it.order
      next == [it EXCEPT !.rows = Tail(@), !.order = IF fits THEN @ + 1 ELSE @]
  IN
  /\ Runs(c, "rows")
  /\ paper' = IF fits THEN [paper EXCEPT ![q] = it.order] ELSE paper
  /\ Goes(c, IF next.rows = <<>> THEN Rest(c) ELSE <<next>> \o Rest(c))
  /\ UNCHANGED <<now, roster, form, release, exam, made>>

DeleteQuestion(c, q) ==
  paper[q] # 0 /\ Begin(c, "author", <<[do |-> "dropQuestion", q |-> q]>>)

(* Answers hold on to their question.                                      *)
DropQuestion(c) ==
  LET q == It(c).q IN
  /\ Runs(c, "dropQuestion") /\ Done(c)
  /\ paper' = IF \E s \in Students : exam[s] # NoAttempt /\ exam[s].pick[q] # 0
              THEN paper ELSE [paper EXCEPT ![q] = 0]
  /\ UNCHANGED <<now, roster, form, release, exam, made>>

-----------------------------------------------------------------------------
Activate(c) ==
  \E due \in use.dues :
    /\ "test" \in use.kinds /\ Asked # {}
    /\ Begin(c, "release", <<[do |-> "release", k |-> "test",
                              data |-> [st |-> "ACTIVE", due |-> due]]>>)
ActivateOnlineTest(c) == use.side = "course" /\ Activate(c)
ActivatePlacementTest(c) == use.side = "session" /\ Activate(c)

(* An attempt in progress is resumed, whenever its time is up: no change.  *)
StartAttempt(c, s) ==
  /\ release["test"].st = "ACTIVE" /\ s \in roster
  /\ exam[s] = NoAttempt /\ made < use.rows
  /\ Begin(c, "start", <<[do |-> "open", s |-> s, until |-> now + Duration]>>)
StartOnlineTestAttempt(c, s) == use.side = "course" /\ StartAttempt(c, s)
StartPlacementTestAttempt(c, s) == use.side = "session" /\ StartAttempt(c, s)

(* One attempt per student: the second of two starts is refused.           *)
OpenAttempt(c) ==
  LET s == It(c).s IN
  /\ Runs(c, "open") /\ Done(c)
  /\ IF exam[s] # NoAttempt THEN UNCHANGED <<exam, made>>
     ELSE /\ made' = made + 1
          /\ exam' = [exam EXCEPT ![s] =
               [id |-> made + 1, st |-> "IN_PROGRESS", deadline |-> It(c).until,
                count |-> 0, shots |-> 0, pick |-> [q \in Questions |-> 0],
                mark |-> [q \in Questions |-> "none"], score |-> {}, total |-> {}]]
  /\ UNCHANGED <<now, roster, form, release, paper>>

-----------------------------------------------------------------------------
(* The attempt under way.  Each handler reads it, then goes by that.       *)
InProgress(s) == exam[s] # NoAttempt /\ exam[s].st = "IN_PROGRESS"

\* Mutant: at the deadline itself the attempt still counts as in time.
TimeUpAfter(s) == exam[s].deadline < now

TimeUp(s) == exam[s].deadline <= now

Do(what, s, more) == more @@ [do |-> what, s |-> s, id |-> exam[s].id]
Grade(s, st) == <<Do("grade", s, [st |-> st])>>
(* The attempt the statement is about is still there.                      *)
Same(c) == exam[It(c).s] # NoAttempt /\ exam[It(c).s].id = It(c).id

(* gradeAndCloseAttempt: read the attempt, its answers and the questions;  *)
(* then, in a transaction, mark the answers read and close the attempt.    *)

Gradable(c) == Same(c) /\ exam[It(c).s].st = "IN_PROGRESS"

ReadToGrade(c) ==
  /\ Runs(c, "grade")
  /\ Goes(c, IF ~Gradable(c) THEN Rest(c)
             ELSE <<Do("close", It(c).s,
                       [st |-> It(c).st, pick |-> exam[It(c).s].pick, asked |-> Asked])>>
                  \o Rest(c))
  /\ UNCHANGED tests

CloseAttempt(c) ==
  LET it == It(c)
      answered == {q \in it.asked : it.pick[q] # 0}
      right == {q \in answered : it.pick[q] = Right}
  IN
  /\ Runs(c, "close")
  /\ IF ~Same(c) THEN Fails(c) /\ UNCHANGED exam
     ELSE /\ Done(c)
          /\ Alters(it.s, [st |-> it.st, score |-> right, total |-> it.asked,
               mark |-> [q \in Questions |->
                  IF q \in right THEN "right" ELSE IF q \in answered THEN "wrong"
                  ELSE exam[it.s].mark[q]]])
  /\ UNCHANGED <<now, roster, form, release, paper, made>>

(* The timer polls; nothing else closes an attempt whose time is up.       *)
Poll(c, s) ==
  /\ InProgress(s) /\ TimeUp(s)
  /\ Begin(c, "poll", Grade(s, "EXPIRED"))
GetOnlineTestAttempt(c, s) == use.side = "course" /\ Poll(c, s)
GetPlacementTestAttempt(c, s) == use.side = "session" /\ Poll(c, s)

Save(c, s) ==
  \E q \in Asked, o \in 1 .. 2 :
    /\ InProgress(s)
    /\ Begin(c, "save", IF TimeUp(s) THEN Grade(s, "EXPIRED")
                        ELSE <<Do("pick", s, [q |-> q, o |-> o])>>)
SaveOnlineTestAnswer(c, s) == use.side = "course" /\ Save(c, s)
SavePlacementTestAnswer(c, s) == use.side = "session" /\ Save(c, s)

WriteAnswer(c) ==
  LET it == It(c) IN
  /\ Runs(c, "pick") /\ Done(c)
  /\ IF Same(c) /\ paper[it.q] # 0
     THEN Alters(it.s, [pick |-> [exam[it.s].pick EXCEPT ![it.q] = it.o]])
     ELSE UNCHANGED exam
  /\ UNCHANGED <<now, roster, form, release, paper, made>>

(* A violation leaves a snapshot; the count is one more than was read.     *)

\* Mutant: the warnings are counted by their snapshots, one late.
AfterViolationLate(s) ==
  IF exam[s].count > MaxWarnings THEN Grade(s, "AUTO_SUBMITTED_VIOLATION")
  ELSE <<Do("count", s, [n |-> exam[s].count + 1])>>

\* Mutant: it is the warnings left that are counted, from none.
AfterViolationLeft(s) == <<Do("count", s, [n |-> exam[s].count - 1])>>

AfterViolation(s) ==
  LET n == exam[s].count + 1 IN
  IF n > MaxWarnings THEN Grade(s, "AUTO_SUBMITTED_VIOLATION")
  ELSE <<Do("count", s, [n |-> n])>>

Violate(c, s) ==
  /\ InProgress(s)
  /\ Begin(c, "violate", IF TimeUp(s) THEN Grade(s, "EXPIRED")
                         ELSE <<Do("shot", s, [q |-> NoAttempt])>> \o AfterViolation(s))
RecordTestViolation(c, s) == use.side = "course" /\ Violate(c, s)
RecordPlacementTestViolation(c, s) == use.side = "session" /\ Violate(c, s)

Snapshot(c) ==
  /\ Runs(c, "shot")
  /\ IF Same(c) THEN Done(c) /\ Alters(It(c).s, [shots |-> exam[It(c).s].shots + 1])
     ELSE Fails(c) /\ UNCHANGED exam
  /\ UNCHANGED <<now, roster, form, release, paper, made>>

WriteCount(c) ==
  /\ Runs(c, "count") /\ Done(c)
  /\ IF Same(c) THEN Alters(It(c).s, [count |-> It(c).n]) ELSE UNCHANGED exam
  /\ UNCHANGED <<now, roster, form, release, paper, made>>

(* The page no longer sends violation: true, the handler still takes it.   *)
Submit(c, s) ==
  /\ InProgress(s)
  /\ \E violation \in use.confess :
       Begin(c, "submit", Grade(s, IF violation THEN "AUTO_SUBMITTED_VIOLATION"
                                   ELSE IF TimeUp(s) THEN "EXPIRED" ELSE "SUBMITTED"))
SubmitOnlineTestAttempt(c, s) == use.side = "course" /\ Submit(c, s)
SubmitPlacementTestAttempt(c, s) == use.side = "session" /\ Submit(c, s)

(* The answers with what is correct are shown once the attempt has ended.  *)
Reviewable(s) == exam[s] # NoAttempt /\ exam[s].st # "IN_PROGRESS"

-----------------------------------------------------------------------------
(* Reassigning deletes the attempts that have ended, of one student or of  *)
(* all, with their answers and snapshots.                                  *)
Reassign(c) ==
  \E S \in {Students} \cup {{s} : s \in roster} :
    LET over == {s \in S : Reviewable(s)} IN
    /\ over # {} /\ made < use.rows
    /\ Begin(c, "reassign", <<[do |-> "reset", ids |-> {exam[s].id : s \in over}]>>)
ReassignTestAttempt(c) == use.side = "course" /\ Reassign(c)
ReassignPlacementTestAttempt(c) == use.side = "session" /\ Reassign(c)

ResetAttempts(c) ==
  /\ Runs(c, "reset") /\ Done(c)
  /\ exam' = [s \in Students |->
       IF exam[s] # NoAttempt /\ exam[s].id \in It(c).ids THEN NoAttempt ELSE exam[s]]
  /\ UNCHANGED <<now, roster, form, release, paper, made>>

Sit(c, s) ==
  \/ StartOnlineTestAttempt(c, s) \/ StartPlacementTestAttempt(c, s)
  \/ GetOnlineTestAttempt(c, s) \/ GetPlacementTestAttempt(c, s)
  \/ SaveOnlineTestAnswer(c, s) \/ SavePlacementTestAnswer(c, s)
  \/ RecordTestViolation(c, s) \/ RecordPlacementTestViolation(c, s)
  \/ SubmitOnlineTestAttempt(c, s) \/ SubmitPlacementTestAttempt(c, s)

ExamNext ==
  \E c \in Calls :
    \/ \E q \in Questions :
         \/ use.side = "course" /\ AddQuestion(c, q)
         \/ use.side = "session" /\ AddPlacementQuestion(c, q)
         \/ DeleteQuestion(c, q)
         \/ \E p \in Questions \ {q} : BulkUploadQuestions(c, p, q)
    \/ ActivateOnlineTest(c) \/ ActivatePlacementTest(c)
    \/ \E s \in use.students : Sit(c, s)
    \/ ReassignTestAttempt(c) \/ ReassignPlacementTestAttempt(c)
    \/ AddRow(c) \/ DropQuestion(c) \/ OpenAttempt(c) \/ ReadToGrade(c)
    \/ CloseAttempt(c) \/ WriteAnswer(c) \/ Snapshot(c) \/ WriteCount(c)
    \/ ResetAttempts(c)

-----------------------------------------------------------------------------
(* Between calls, where one runs at a time, an attempt's record is whole:  *)
(* the score counts the answers marked right, which are the right ones;    *)
(* the third violation, and no earlier one, has ended it; it expired only  *)
(* after its deadline.                                                     *)
Whole(a) ==
  IF a.st = "IN_PROGRESS"
  THEN a.count = a.shots /\ a.shots <= MaxWarnings
       /\ \A q \in Questions : a.mark[q] = "none"
  ELSE /\ a.score = {q \in Questions : a.pick[q] = Right}
       /\ a.score = {q \in Questions : a.mark[q] = "right"}
       /\ \A q \in Questions : a.mark[q] = "none" <=> a.pick[q] = 0
       /\ a.shots = IF a.count = MaxWarnings /\ a.st = "AUTO_SUBMITTED_VIOLATION"
                       /\ TRUE \notin use.confess
                    THEN MaxWarnings + 1 ELSE a.count
       /\ a.st = "EXPIRED" => a.deadline <= now

ExamsAgree ==
  \A s \in Students : exam[s] # NoAttempt =>
    /\ Serial /\ AllIdle /\ use.confess = {FALSE} => Whole(exam[s])
    /\ exam[s].shots >= exam[s].count
    /\ exam[s].score \subseteq exam[s].total

(* An attempt that has ended stands as graded, and one in progress takes   *)
(* no answer after its deadline, where one call runs at a time; whatever   *)
(* overlaps, an attempt that has ended is never in progress again.         *)
ExamStands ==
  \A s \in Students :
    LET a == exam[s] IN
    LET b == exam'[s] IN
    a # NoAttempt /\ b # NoAttempt =>
      /\ b.id = a.id
      /\ a.st # "IN_PROGRESS" => b.st # "IN_PROGRESS"
      /\ Serial /\ a.st # "IN_PROGRESS" => b = a
      /\ Serial /\ b.pick # a.pick => now < a.deadline

-----------------------------------------------------------------------------
(* Projects, forms, the log of topics and reminders.                       *)

CONSTANTS Before   \* the days before a deadline at which students are reminded

VARIABLES
  work,    \* what each student handed in
  reply,   \* the version each student answered, 0 if none
  mailed,  \* reminders sent, of each kind, student and days before
  logged,  \* the rows of DeadlineReminderLog
  ran,     \* the last day the job ran
  topics   \* the entries of the day in the log of topics

(* handed and seen count versions: handed in, and seen by the last review. *)
Work == [st : {"none", "SUBMITTED", "REVIEWED"}, handed : Nat, seen : Nat]
Notices == Kinds \X Students \X Before

CourseworkTypeOK ==
  /\ work \in [Students -> Work]
  /\ reply \in [Students -> Nat]
  /\ mailed \in [Notices -> Nat] /\ logged \subseteq Notices
  /\ ran \in 0 .. MaxNow /\ topics \in Nat

CourseworkInit ==
  /\ work = [s \in Students |-> [st |-> "none", handed |-> 0, seen |-> 0]]
  /\ reply = [s \in Students |-> 0]
  /\ mailed = [n \in Notices |-> 0] /\ logged = {}
  /\ ran = 0 /\ topics = 0

rest == <<now, roster, paper, exam, made>>
coursework == <<release, work, form, reply, mailed, logged, ran, topics>>
Calling(c, op, todo) ==
  Free(c, op) /\ Start(c, op, todo) /\ UNCHANGED <<rest, coursework>>

-----------------------------------------------------------------------------
(* Projects.  The deadline is not asked about; handing in again puts the   *)
(* submission up for review and leaves its grade.                          *)
HandIn(c, s) ==
  /\ release["project"].st = "ACTIVE" /\ s \in roster
  /\ work[s].handed < use.rows \* bound
  /\ Calling(c, "submitProject", <<[do |-> "submit", s |-> s]>>)
SubmitProject(c, s) == use.side = "course" /\ HandIn(c, s)
SubmitPlacementProject(c, s) == use.side = "session" /\ HandIn(c, s)

\* Mutant: handing in again leaves the submission as reviewed.
HandedInKeeps(w) ==
  [w EXCEPT !.st = IF @ = "none" THEN "SUBMITTED" ELSE @, !.handed = @ + 1]

HandedIn(w) == [w EXCEPT !.st = "SUBMITTED", !.handed = @ + 1]

StoreSubmission(c) ==
  /\ Runs(c, "submit") /\ Done(c)
  /\ work' = [work EXCEPT ![It(c).s] = HandedIn(@)]
  /\ UNCHANGED <<rest, release, form, reply, mailed, logged, ran, topics>>

Review(c, s) ==
  /\ work[s].st # "none"
  /\ Calling(c, "review", <<[do |-> "review", s |-> s, seen |-> work[s].handed]>>)
ReviewProjectSubmission(c, s) == use.side = "course" /\ Review(c, s)
ReviewPlacementProjectSubmission(c, s) == use.side = "session" /\ Review(c, s)

StoreReview(c) ==
  /\ Runs(c, "review") /\ Done(c)
  /\ work' = [work EXCEPT ![It(c).s].st = "REVIEWED", ![It(c).s].seen = It(c).seen]
  /\ UNCHANGED <<rest, release, form, reply, mailed, logged, ran, topics>>

-----------------------------------------------------------------------------
(* Feedback forms.  Saving replaces every question, in one transaction,    *)
(* which answers to them forbid.                                           *)
SaveFeedbackForm(c) ==
  /\ form < use.rows + 1 \* bound
  /\ Calling(c, "saveForm", <<[do |-> "saveForm", fresh |-> form = 0]>>)

Answered == \E s \in Students : reply[s] # 0

\* Mutant: the questions go with their answers still there.
SavableAnyway(it) == TRUE

Savable(it) == ~Answered /\ it.fresh = (form = 0)

StoreForm(c) ==
  /\ Runs(c, "saveForm") /\ Done(c)
  /\ form' = IF Savable(It(c)) THEN form + 1 ELSE form
  /\ UNCHANGED <<rest, release, work, reply, mailed, logged, ran, topics>>

SubmitFeedbackForm(c, s) ==
  /\ release["form"].st = "ACTIVE" /\ s \in roster /\ reply[s] = 0 /\ form # 0
  /\ Calling(c, "answer", <<[do |-> "answer", s |-> s, form |-> form]>>)

(* One transaction: one response per student, whose answers are to         *)
(* questions that are still there.                                         *)
StoreResponse(c) ==
  LET it == It(c) IN
  /\ Runs(c, "answer") /\ Done(c)
  /\ reply' = IF reply[it.s] = 0 /\ release["form"].st # "none" /\ form = it.form
              THEN [reply EXCEPT ![it.s] = form] ELSE reply
  /\ UNCHANGED <<rest, release, work, form, mailed, logged, ran, topics>>

(* force also removes what was released and answered.                      *)
DeleteFeedbackForm(c) ==
  \E force \in BOOLEAN :
    /\ form # 0 /\ (release["form"].st # "none" => force)
    /\ Calling(c, "dropForm", <<[do |-> "dropForm", force |-> force]>>)

DropForm(c) ==
  LET goes == It(c).force \/ release["form"].st = "none" IN
  /\ Runs(c, "dropForm") /\ Done(c)
  /\ IF goes
     THEN /\ form' = 0
          /\ release' = [release EXCEPT !["form"] = [st |-> "none", due |-> 0]]
          /\ reply' = [s \in Students |-> 0]
     ELSE UNCHANGED <<form, release, reply>>
  /\ UNCHANGED <<rest, work, mailed, logged, ran, topics>>

-----------------------------------------------------------------------------
(* The log of topics: found, then updated or created.  The unique key of   *)
(* an entry holds only where its track and module are both given.          *)
CreateKra(c) ==
  Calling(c, "kra", IF topics > 0 THEN <<>> ELSE <<[do |-> "topics", n |-> 1]>>)
DeleteKra(c) == topics > 0 /\ Calling(c, "kra", <<[do |-> "topics", n |-> -1]>>)

StoreTopics(c) ==
  LET n == topics + It(c).n IN
  /\ Runs(c, "topics") /\ Done(c)
  /\ topics' = IF n < 0 \/ ("named" \in use.ops /\ n > 1) THEN topics ELSE n
  /\ UNCHANGED <<rest, release, work, form, reply, mailed, logged, ran>>

-----------------------------------------------------------------------------
(* sendDueReminders: of each kind in turn, the releases are read with what *)
(* was handed in; then the roster and the log; then one mail after another,*)
(* each logged once it was sent.  An attempt in progress is not finished.  *)
Finished(k) ==
  CASE k = "project" -> {s \in Students : work[s].st # "none"}
    [] k = "form" -> {s \in Students : reply[s] # 0}
    [] k = "test" -> {s \in Students : Reviewable(s)}

SendDueReminders(c) ==
  /\ ran < now /\ use.side = "course" /\ Free(c, "remind")
  /\ Start(c, "remind", <<[do |-> "due", k |-> "project"],
                          [do |-> "due", k |-> "form"], [do |-> "due", k |-> "test"]>>)
  /\ ran' = now
  /\ UNCHANGED <<rest, release, work, form, reply, mailed, logged, topics>>

ReadDue(c) ==
  LET r == release[It(c).k]
      days == r.due - now
  IN
  /\ Runs(c, "due")
  /\ Goes(c, IF r.st # "ACTIVE" \/ r.due = 0 \/ days \notin Before THEN Rest(c)
             ELSE <<[do |-> "who", k |-> It(c).k, days |-> days,
                     have |-> Finished(It(c).k)]>> \o Rest(c))
  /\ UNCHANGED <<rest, coursework>>

\* Mutant: the log is not read.
ToRemindAll(it) == roster \ it.have

ToRemind(it) == {s \in roster \ it.have : <<it.k, s, it.days>> \notin logged}

ReadLog(c) ==
  LET it == It(c) IN
  /\ Runs(c, "who")
  /\ Goes(c, IF ToRemind(it) = {} THEN Rest(c)
             ELSE <<[do |-> "remind", k |-> it.k, days |-> it.days,
                     left |-> ToRemind(it)]>> \o Rest(c))
  /\ UNCHANGED <<rest, coursework>>

(* A mail that cannot be sent is not logged, and the next one is tried.    *)
SendReminder(c, s) ==
  LET it == It(c)
      then == IF it.left = {s} THEN Rest(c)
              ELSE <<[it EXCEPT !.left = @ \ {s}]>> \o Rest(c)
  IN
  /\ Runs(c, "remind") /\ s \in it.left
  /\ \/ /\ mailed' = [mailed EXCEPT ![it.k, s, it.days] = @ + 1]
        /\ Goes(c, <<[do |-> "log", k |-> it.k, s |-> s, days |-> it.days]>> \o then)
     \/ "bounce" \in use.ops /\ Goes(c, then) /\ UNCHANGED mailed
  /\ UNCHANGED <<rest, release, work, form, reply, logged, ran, topics>>

LogReminder(c) ==
  /\ Runs(c, "log") /\ Done(c)
  /\ logged' = logged \cup {<<It(c).k, It(c).s, It(c).days>>}
  /\ UNCHANGED <<rest, release, work, form, reply, mailed, ran, topics>>

CourseworkNext ==
  \E c \in Calls :
    \/ \E s \in use.students :
         \/ SubmitProject(c, s) \/ SubmitPlacementProject(c, s)
         \/ ReviewProjectSubmission(c, s) \/ ReviewPlacementProjectSubmission(c, s)
         \/ SubmitFeedbackForm(c, s) \/ SendReminder(c, s)
    \/ SaveFeedbackForm(c) \/ DeleteFeedbackForm(c)
    \/ CreateKra(c) \/ DeleteKra(c) \/ SendDueReminders(c)
    \/ StoreSubmission(c) \/ StoreReview(c) \/ StoreForm(c) \/ StoreResponse(c)
    \/ DropForm(c) \/ StoreTopics(c) \/ ReadDue(c) \/ ReadLog(c) \/ LogReminder(c)

-----------------------------------------------------------------------------
(* Whatever overlaps, the responses are to the questions the form has; and *)
(* where one call runs at a time, a reviewed submission is the one that    *)
(* was seen, and the day has one entry of topics.                          *)
WorkAgrees ==
  /\ \A s \in Students : reply[s] # 0 => reply[s] = form
  /\ Serial /\ AllIdle =>
       \A s \in Students : work[s].st = "REVIEWED" => work[s].seen = work[s].handed
  /\ Serial \/ "named" \in use.ops => topics <= 1

(* A student is reminded once of a deadline at each of its days, however   *)
(* the job is cut short; the process stops only where deadlines stay.      *)
RemindedOnce == \A n \in Notices : mailed[n] <= 1
=============================================================================
