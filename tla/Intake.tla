------------------------------- MODULE Intake -------------------------------
(***************************************************************************)
(* Students enter, one by one or a sheet at a time, each with a login of   *)
(* its own, and are deleted: on a request that an admin approves, unless   *)
(* there are records of them, or with them.  A place of Students is one    *)
(* row, never taken twice; of a deleted one the model keeps what it was.   *)
(***************************************************************************)
EXTENDS Calling

CONSTANTS
  Students,
  Addresses, NoAddress,
  Taken,      \* addresses that are logins of others
  MaxCode,    \* bound: the highest student code tried
  Sheets      \* bulk uploads: sequences of rows

VARIABLES
  entrant,  \* the Students, with their Users
  removal,  \* StudentDeletionLog
  batch     \* the sub-batch they may be put in exists

NoCode == 0
Kinds == {"trace", "result", "kept"}

(* has: "trace" for attendance and tests, "result" for placement results,  *)
(* "kept" for what a deletion clears by no statement (live classes,        *)
(* placement training, certificate requests) and the database protects.    *)
Row == [code : 0 .. MaxCode, mail : Addresses \cup {NoAddress}, class : BOOLEAN]
Student ==
  [st : {"none", "there", "gone"}, code : 0 .. MaxCode, mail : Addresses \cup {NoAddress},
   login : Addresses \cup {NoAddress} \cup 1 .. MaxCode,
   class : BOOLEAN, enrolled : BOOLEAN, welcomed : 0 .. 2,
   asked : BOOLEAN, has : SUBSET Kinds]
NoStudent ==
  [st |-> "none", code |-> NoCode, mail |-> NoAddress, login |-> NoAddress,
   class |-> FALSE, enrolled |-> FALSE, welcomed |-> 0, asked |-> FALSE, has |-> {}]
StudentDeletionLog == [n : Nat, forced : BOOLEAN, asked : BOOLEAN, had : SUBSET Kinds]

IntakeTypeOK ==
  /\ entrant \in [Students -> Student]
  /\ removal \in [Students -> StudentDeletionLog]
  /\ batch \in BOOLEAN

IntakeInit ==
  /\ entrant = [s \in Students |-> NoStudent]
  /\ removal = [s \in Students |-> [n |-> 0, forced |-> FALSE, asked |-> FALSE, had |-> {}]]
  /\ batch = TRUE

intake == <<entrant, removal, batch>>
Asks(c, op, todo) == Free(c, op) /\ Start(c, op, todo) /\ UNCHANGED intake

There(s) == entrant[s].st = "there"
Unborn == {s \in use.students : entrant[s].st = "none"}  \* bound: places for rows
Logins == Taken \cup ({entrant[s].login : s \in Students} \ {NoAddress})
CodeTaken(n) == \E s \in Students : There(s) /\ entrant[s].code = n

-----------------------------------------------------------------------------
(* Who has no address gets a placeholder made of its code.                 *)
LoginOf(row) == IF row.mail = NoAddress THEN row.code ELSE row.mail
Accepted(row) ==
  Unborn # {} /\ ~CodeTaken(row.code) /\ LoginOf(row) \notin Logins
Added(row, enrolled) ==
  entrant' = [entrant EXCEPT ![CHOOSE s \in Unborn : TRUE] =
    [NoStudent EXCEPT !.st = "there", !.code = row.code, !.mail = row.mail,
                      !.login = LoginOf(row), !.class = row.class, !.enrolled = enrolled]]
Welcoming(s) == [do |-> "welcome", s |-> s]
NewOne == CHOOSE s \in Unborn : TRUE

(* One student: refused as a whole, also where the sub-batch has gone.     *)
CreateStudent(c) ==
  \E row \in Row :
    /\ row.code # NoCode /\ row.mail # NoAddress /\ (row.class => batch)
    /\ Asks(c, "newStudent", <<[do |-> "create", row |-> row]>>)
EnterStudent(c) ==
  /\ Runs(c, "create")
  /\ LET row == It(c).row
         accepted == Accepted(row) /\ (row.class => batch)
     IN  \/ accepted /\ Added(row, row.class) /\ Goes(c, <<Welcoming(NewOne)>>)
         \/ ~accepted /\ UNCHANGED entrant /\ Fails(c)
  /\ UNCHANGED <<removal, batch>>

(* A sheet: what its rows name is read first, codes left out are counted   *)
(* on from the students there are, and a row that fails is passed over.    *)
BulkUpload(c) ==
  \E sheet \in Sheets :
    Asks(c, "bulk", <<[do |-> "students", left |-> sheet, batch |-> batch]>>)
Reading(left, n, known) == <<[do |-> "sheetRow", left |-> left, n |-> n, batch |-> known]>>
CountStudents(c) ==
  /\ Runs(c, "students")
  /\ Goes(c, Reading(It(c).left, Cardinality({s \in Students : There(s)}), It(c).batch))
  /\ UNCHANGED intake
ReadRow(c) ==
  /\ Runs(c, "sheetRow")
  /\ LET i == It(c)
         row == Head(i.left)
         auto == row.code = NoCode
         code == IF auto THEN i.n + 1 ELSE row.code
         n == IF auto THEN code ELSE i.n
         later == Reading(Tail(i.left), n, i.batch)
     IN  IF i.left = <<>> THEN Done(c)
         ELSE IF auto /\ CodeTaken(code) THEN Goes(c, Reading(i.left, n, i.batch))
         ELSE IF CodeTaken(code) \/ (row.class /\ ~i.batch) THEN Goes(c, later)
         ELSE Goes(c, <<[do |-> "enter", row |-> [row EXCEPT !.code = code]]>> \o later)
  /\ UNCHANGED intake
EnterRow(c) ==
  /\ Runs(c, "enter")
  /\ LET row == It(c).row
     IN  \/ /\ Accepted(row) /\ Added(row, FALSE)
            /\ Goes(c, (IF row.class THEN <<[do |-> "enrol", s |-> NewOne]>> ELSE <<>>)
                         \o <<Welcoming(NewOne)>> \o Rest(c))
         \/ ~Accepted(row) /\ UNCHANGED entrant /\ Done(c)
  /\ UNCHANGED <<removal, batch>>
EnrolRow(c) ==
  /\ Runs(c, "enrol")
  /\ LET s == It(c).s
     IN  entrant' = IF There(s) /\ batch THEN [entrant EXCEPT ![s].enrolled = TRUE] ELSE entrant
  /\ Done(c)
  /\ UNCHANGED <<removal, batch>>

\* Mutant: placeholders are written to as well.
HasInboxAny(s) == TRUE

HasInbox(s) == entrant[s].mail # NoAddress
SendStudentWelcomeEmail(c) ==
  /\ Runs(c, "welcome")
  /\ LET s == It(c).s
     IN  entrant' = IF HasInbox(s)
                    THEN [entrant EXCEPT ![s].welcomed = IF @ = 2 THEN 2 ELSE @ + 1]
                    ELSE entrant
  /\ Done(c)
  /\ UNCHANGED <<removal, batch>>

-----------------------------------------------------------------------------
(* Deletion: a request, its approval or rejection.                         *)

DeleteStudent(c, s) ==
  /\ There(s) /\ ~entrant[s].asked
  /\ Asks(c, "askDelete", <<[do |-> "markDelete", s |-> s, asked |-> TRUE]>>)
CancelDeleteRequest(c, s) ==
  /\ There(s) /\ entrant[s].asked
  /\ Asks(c, "cancelDelete", <<[do |-> "markDelete", s |-> s, asked |-> FALSE]>>)
WriteRequest(c) ==
  /\ Runs(c, "markDelete")
  /\ LET s == It(c).s
     IN  \/ There(s) /\ entrant' = [entrant EXCEPT ![s].asked = It(c).asked] /\ Done(c)
         \/ ~There(s) /\ UNCHANGED entrant /\ Fails(c)
  /\ UNCHANGED <<removal, batch>>

ApproveDeleteStudent(c, s, force) ==
  /\ There(s) /\ entrant[s].asked
  /\ Asks(c, "approveDelete", <<[do |-> "inspect", s |-> s, force |-> force]>>)

\* Mutant: placement results do not stop a deletion.
StoppedLess(has, force) == ~force /\ "trace" \in has

Guarded(has, force) == ~force /\ has \cap {"trace", "result"} # {}
InspectRecords(c) ==
  /\ Runs(c, "inspect")
  /\ LET s == It(c).s
         has == entrant[s].has
     IN  IF ~There(s) \/ Guarded(has, It(c).force) THEN Fails(c)
         ELSE Goes(c, <<[do |-> "delete", s |-> s, force |-> It(c).force, had |-> has,
                         asked |-> entrant[s].asked]>>)
  /\ UNCHANGED intake

(* One transaction: the log, the records, the student and its login; the   *)
(* database refuses it where records of the student would be left.         *)
\* Mutant: the login is left behind.
LoginKept(s) == entrant[s].login

LoginAfter(s) == NoAddress
Protected(s, force) == "kept" \in entrant[s].has \/ (~force /\ "trace" \in entrant[s].has)
PerformStudentDelete(c) ==
  /\ Runs(c, "delete")
  /\ LET s == It(c).s
         possible == There(s) /\ ~Protected(s, It(c).force)
     IN  \/ /\ possible
            /\ removal' = [removal EXCEPT ![s] =
                 [n |-> @.n + 1, forced |-> It(c).force, asked |-> It(c).asked, had |-> It(c).had]]
            /\ entrant' = [entrant EXCEPT ![s].st = "gone", ![s].login = LoginAfter(s)]
            /\ Done(c)
         \/ ~possible /\ UNCHANGED <<removal, entrant>> /\ Fails(c)
  /\ UNCHANGED batch

(* What other endpoints do to a student or the sub-batch; where one call   *)
(* runs at a time, not during it.                                          *)
Elsewhere(op) == op \in use.ops /\ (Serial => AllIdle) /\ UNCHANGED <<call, removal>>
RecordMade(s, kind) ==
  /\ Elsewhere("record") /\ There(s)
  /\ entrant' = [entrant EXCEPT ![s].has = @ \cup {kind}] /\ UNCHANGED batch
BatchGone ==
  Elsewhere("dropBatch") /\ batch /\ batch' = FALSE /\ UNCHANGED entrant

IntakeNext ==
  \/ \E c \in Calls :
       \/ CreateStudent(c) \/ EnterStudent(c)
       \/ BulkUpload(c) \/ CountStudents(c) \/ ReadRow(c) \/ EnterRow(c) \/ EnrolRow(c)
       \/ SendStudentWelcomeEmail(c)
       \/ \E s \in Students :
            \/ DeleteStudent(c, s) \/ CancelDeleteRequest(c, s)
            \/ \E force \in BOOLEAN : ApproveDeleteStudent(c, s, force)
       \/ WriteRequest(c) \/ InspectRecords(c) \/ PerformStudentDelete(c)
  \/ \E s \in Students, kind \in Kinds : RecordMade(s, kind)
  \/ BatchGone

-----------------------------------------------------------------------------
(* However calls overlap: who is there has a login of its own and a code   *)
(* of its own, and nobody else has one, so that who was deleted can be     *)
(* entered again; exactly the deleted are in the deletion log, once; and   *)
(* only a forced deletion takes attendance and tests along ("permanently   *)
(* erase the student along with all of that history").                     *)
LoginsAgree ==
  \A s, t \in Students :
    /\ There(s) <=> entrant[s].login # NoAddress
    /\ There(s) => entrant[s].login \notin Taken
    /\ There(s) /\ There(t) /\ s # t =>
         entrant[s].login # entrant[t].login /\ entrant[s].code # entrant[t].code
DeletionsLogged ==
  \A s \in Students :
    /\ removal[s].n = IF entrant[s].st = "gone" THEN 1 ELSE 0
    /\ removal[s].n = 1 => /\ removal[s].forced \/ "trace" \notin entrant[s].has
                           /\ "kept" \notin entrant[s].has

(* One call at a time the log says a request stood and what was erased;    *)
(* and if none was cut short, students are enrolled as entered and have    *)
(* been written to once, if they can be.                                   *)
EntriesDone(crashed) ==
  Serial =>
    \A s \in Students :
      /\ removal[s].n = 1 =>
           /\ removal[s].asked /\ removal[s].had = entrant[s].has
           /\ removal[s].forced \/ removal[s].had = {}
      /\ AllIdle /\ ~crashed /\ entrant[s].st # "none" =>
           /\ entrant[s].enrolled = entrant[s].class
           /\ entrant[s].welcomed = IF entrant[s].mail = NoAddress THEN 0 ELSE 1

IntakeAgrees(crashed) == LoginsAgree /\ DeletionsLogged /\ EntriesDone(crashed)
=============================================================================
