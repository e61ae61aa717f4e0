------------------------------ MODULE Joining ------------------------------
(***************************************************************************)
(* How a person becomes an employee: the onboarding request HR files, the  *)
(* login and the employee an approval creates, the profile the joiner      *)
(* fills in and HR's final word; the employees HR enters itself, one by    *)
(* one or a sheet at a time; and the papers of an employee: those it       *)
(* uploads, which HR verifies and whose originals HR collects, handing     *)
(* them in for the final approval, and the appointment letter from its     *)
(* draft to the mail.  A person stands for an e-mail address, one type of  *)
(* document for the five required.                                         *)
(***************************************************************************)
EXTENDS Calling

CONSTANTS
  People, Files,  \* places for OnboardingRequests, taken in turn
  MaxCode,        \* bound: the highest employee code
  Nobody,
  Slots           \* places for Documents of one employee, taken in turn

VARIABLES
  login,  \* the User of each address: of an employee ("staff"), of a
          \* student, of nobody ("bare")
  emp,    \* the Employee of each address
  onb,    \* the onboarding requests
  paper,  \* the documents of each employee
  letter  \* its appointment letter

User == {"none", "bare", "student", "staff"}
Status == {"ON_PROBATION", "ACTIVE", "TERMINATED"}  \* those written here
Employee == [code : 0 .. MaxCode, st : Status \cup {"none"}, filled : BOOLEAN]
NoEmployee == [code |-> 0, st |-> "none", filled |-> FALSE]
OnboardingRequest ==
  [st : {"none", "removed", "PENDING", "REJECTED", "ACCOUNT_CREATED",
         "PROFILE_COMPLETE", "AWAITING_APPROVAL", "COMPLETED"},
   who : People \cup {Nobody}, link : People \cup {Nobody}]
NoFile == [st |-> "none", who |-> Nobody, link |-> Nobody]

JoiningTypeOK ==
  /\ login \in [People -> User]
  /\ emp \in [People -> Employee]
  /\ onb \in [Files -> OnboardingRequest]

JoiningInit ==
  /\ login = [p \in People |-> IF p \in use.students THEN "student" ELSE "none"]
  /\ emp = [p \in People |-> NoEmployee]
  /\ onb = [f \in Files |-> NoFile]

joining == <<login, emp, onb>>
Asks(c, op, todo) == Free(c, op) /\ Start(c, op, todo) /\ UNCHANGED joining

Live(f) == onb[f].st \notin {"none", "removed"}
Employed(p) == emp[p].st # "none"
Codes == {emp[p].code : p \in {p \in People : Employed(p)}}
FileOf(p) == {f \in Files : onb[f].link = p /\ Live(f)}

-----------------------------------------------------------------------------
(* The requests HR files, corrects, removes and turns down.                *)
CreateOnboarding(c, p) ==
  /\ ~\E f \in Files : Live(f) /\ onb[f].who = p
  /\ Asks(c, "fileJoiner",
          <<[do |-> "file", row |-> [st |-> "PENDING", who |-> p, link |-> Nobody]]>>)

(* An employee without a request gets one by looking at its status.        *)
Own(p) == [st |-> "ACCOUNT_CREATED", who |-> p, link |-> p]
GetMyStatus(c, p) ==
  /\ Employed(p) /\ FileOf(p) = {}
  /\ Asks(c, "myStatus", <<[do |-> "file", row |-> Own(p)]>>)

(* No two requests are of one employee.                                    *)
FileRequest(c) ==
  LET row == It(c).row
      free == {f \in Files : onb[f].st = "none"}
  IN
  /\ Runs(c, "file")
  /\ IF row.link # Nobody /\ FileOf(row.link) # {} THEN Fails(c) /\ UNCHANGED onb
     ELSE /\ free # {} \* bound
          /\ onb' = [onb EXCEPT ![CHOOSE f \in free : \A g \in free : f <= g] = row]
          /\ Done(c)
  /\ UNCHANGED <<login, emp>>

\* Mutant: the address may be corrected at any time.
AnyAddress(f) == Live(f)

OpenAddress(f) == Live(f) /\ onb[f].link = Nobody

UpdateOnboarding(c, f, p) ==
  /\ OpenAddress(f) /\ onb[f].who # p
  /\ ~\E g \in Files : Live(g) /\ onb[g].who = p
  /\ Asks(c, "correctJoiner", <<[do |-> "readdress", f |-> f, who |-> p]>>)

Readdress(c) ==
  /\ Runs(c, "readdress")
  /\ IF Live(It(c).f) THEN Done(c) /\ onb' = [onb EXCEPT ![It(c).f].who = It(c).who]
     ELSE Fails(c) /\ UNCHANGED onb
  /\ UNCHANGED <<login, emp>>

RemoveOnboarding(c, f) ==
  Live(f) /\ Asks(c, "removeJoiner", <<[do |-> "unfile", f |-> f]>>)

Unfile(c) ==
  /\ Runs(c, "unfile") /\ Done(c)
  /\ onb' = [onb EXCEPT ![It(c).f].st = "removed"]
  /\ UNCHANGED <<login, emp>>

Marking(f, st) == [do |-> "mark", f |-> f, st |-> st]
RejectOnboarding(c, f) ==
  onb[f].st = "PENDING" /\ Asks(c, "rejectJoiner", <<Marking(f, "REJECTED")>>)

Mark(c) ==
  /\ Runs(c, "mark")
  /\ IF Live(It(c).f) THEN Done(c) /\ onb' = [onb EXCEPT ![It(c).f].st = It(c).st]
     ELSE Fails(c) /\ UNCHANGED onb
  /\ UNCHANGED <<login, emp>>

-----------------------------------------------------------------------------
(* The approval: a login of that address without an employee is deleted,   *)
(* a code is read, login and employee are created together, and the        *)
(* request is linked to them.                                              *)
ApproveOnboarding(c, f) ==
  /\ onb[f].st = "PENDING"
  /\ Asks(c, "approveJoiner", <<[do |-> "lookup", f |-> f, who |-> onb[f].who]>>)

Hiring(f, p, st) == [do |-> "code", f |-> f, who |-> p, st |-> st]
LookUp(c) ==
  LET it == It(c) IN
  /\ Runs(c, "lookup")
  /\ IF Employed(it.who) THEN Fails(c)
     ELSE Goes(c, (IF login[it.who] = "none" THEN <<>>
                   ELSE <<[do |-> "unlogin", who |-> it.who]>>)
                  \o <<Hiring(it.f, it.who, "ON_PROBATION")>>)
  /\ UNCHANGED joining

(* Refused when the login is gone, has an employee, or is of a student who *)
(* has signed in.                                                          *)
DeleteLogin(c) ==
  LET p == It(c).who IN
  /\ Runs(c, "unlogin")
  /\ \/ /\ login[p] \in {"bare", "student"}
        /\ Done(c) /\ login' = [login EXCEPT ![p] = "none"]
     \/ /\ login[p] # "bare"
        /\ Fails(c) /\ UNCHANGED login
  /\ UNCHANGED <<emp, onb>>

NextCode == 1 + CHOOSE n \in Codes \cup {0} : \A m \in Codes : m <= n

NextEmployeeCode(c) ==
  LET it == It(c) IN
  /\ Runs(c, "code") /\ NextCode <= MaxCode \* bound
  /\ Goes(c, <<[do |-> "enter", f |-> it.f, who |-> it.who, st |-> it.st,
                code |-> NextCode]>>)
  /\ UNCHANGED joining

Hired(p, code, st) ==
  emp' = [emp EXCEPT ![p] = [code |-> code, st |-> st, filled |-> FALSE]]

EnterEmployee(c) ==
  LET it == It(c) IN
  /\ Runs(c, "enter")
  /\ IF login[it.who] # "none" \/ it.code \in Codes
     THEN Fails(c) /\ UNCHANGED <<login, emp>>
     ELSE /\ login' = [login EXCEPT ![it.who] = "staff"]
          /\ Hired(it.who, it.code, it.st)
          /\ Goes(c, IF it.f = 0 THEN <<>>
                     ELSE <<[do |-> "link", f |-> it.f, who |-> it.who]>>)
  /\ UNCHANGED onb

\* Mutant: the request is not linked to its employee.
Unlinked(row, p) == [row EXCEPT !.st = "ACCOUNT_CREATED"]

Linked(row, p) == [row EXCEPT !.st = "ACCOUNT_CREATED", !.link = p]

LinkEmployee(c) ==
  LET it == It(c) IN
  /\ Runs(c, "link")
  /\ IF Live(it.f) /\ FileOf(it.who) \subseteq {it.f}
     THEN Done(c) /\ onb' = [onb EXCEPT ![it.f] = Linked(@, it.who)]
     ELSE Fails(c) /\ UNCHANGED onb
  /\ UNCHANGED <<login, emp>>

-----------------------------------------------------------------------------
(* The joiner's profile, in several tables, and HR's final word on it.     *)
CompleteProfile(c, p) ==
  \E f \in FileOf(p) :
    /\ onb[f].st \in {"ACCOUNT_CREATED", "PROFILE_COMPLETE"}
    /\ Asks(c, "profile", <<[do |-> "fill", who |-> p, to |-> TRUE],
                            Marking(f, "PROFILE_COMPLETE")>>)

FillProfile(c) ==
  /\ Runs(c, "fill") /\ Done(c)
  /\ emp' = [emp EXCEPT ![It(c).who].filled = It(c).to]
  /\ UNCHANGED <<login, onb>>

HrFinalApprove(c, f) ==
  /\ onb[f].st \in {"AWAITING_APPROVAL", "PROFILE_COMPLETE"}
  /\ Asks(c, "finalApprove", <<Marking(f, "COMPLETED")>>
       \o IF onb[f].link = Nobody THEN <<>>
          ELSE <<[do |-> "status", who |-> onb[f].link, st |-> "ACTIVE"]>>)

HrFinalReject(c, f) ==
  Live(f) /\ Asks(c, "finalReject", <<Marking(f, "PROFILE_COMPLETE")>>)

Reinitiate(c, f) ==
  /\ Live(f) /\ onb[f].st # "COMPLETED"
  /\ Asks(c, "reinitiate", <<Marking(f, "ACCOUNT_CREATED")>>
       \o IF onb[f].link = Nobody THEN <<>>
          ELSE <<[do |-> "fill", who |-> onb[f].link, to |-> FALSE]>>)

-----------------------------------------------------------------------------
(* Employees HR enters without a request, with a code it types or the next *)
(* one, in one transaction.                                                *)
CreateEmployee(c, p) ==
  \E st \in {"ON_PROBATION", "ACTIVE"} :
    \/ Asks(c, "hire", <<Hiring(0, p, st)>>)
    \/ \E n \in use.codes \ Codes :
         Asks(c, "hire", <<[do |-> "enter", f |-> 0, who |-> p, st |-> st, code |-> n]>>)

(* A sheet: the first code is read once and counted on; each row writes    *)
(* its login, its employee and its request in statements of their own.     *)
BulkCreate(c, sheet) == Asks(c, "bulk", <<[do |-> "sheet", left |-> sheet]>>)

ReadSheet(c) ==
  /\ Runs(c, "sheet")
  /\ Goes(c, <<[do |-> "row", left |-> It(c).left, code |-> NextCode]>>)
  /\ UNCHANGED joining

SheetRow(c) ==
  LET p == Head(It(c).left)
      n == It(c).code
      rows(code) == IF Len(It(c).left) = 1 THEN <<>>
                    ELSE <<[do |-> "row", left |-> Tail(It(c).left), code |-> code]>>
  IN
  /\ Runs(c, "row") /\ n <= MaxCode \* bound
  /\ Goes(c, IF login[p] # "none" THEN rows(n)
             ELSE <<[do |-> "login", who |-> p], [do |-> "employ", who |-> p, code |-> n],
                    [do |-> "file", row |-> Own(p)]>> \o rows(n + 1))
  /\ UNCHANGED joining

CreateLogin(c) ==
  /\ Runs(c, "login")
  /\ IF login[It(c).who] = "none"
     THEN Done(c) /\ login' = [login EXCEPT ![It(c).who] = "bare"]
     ELSE Fails(c) /\ UNCHANGED login
  /\ UNCHANGED <<emp, onb>>

EmployRow(c) ==
  LET it == It(c) IN
  /\ Runs(c, "employ")
  /\ IF login[it.who] = "bare" /\ it.code \notin Codes
     THEN /\ Done(c) /\ login' = [login EXCEPT ![it.who] = "staff"]
          /\ Hired(it.who, it.code, "ACTIVE")
     ELSE Fails(c) /\ UNCHANGED <<login, emp>>
  /\ UNCHANGED onb

(* Editing an employee's status, terminating, and changing the code.       *)
UpdateEmployee(c, p) ==
  \E st \in Status : Employed(p) /\ Asks(c, "status", <<[do |-> "status", who |-> p, st |-> st]>>)
RemoveEmployee(c, p) ==
  Employed(p) /\ Asks(c, "terminate", <<[do |-> "status", who |-> p, st |-> "TERMINATED"]>>)

WriteEmployeeStatus(c) ==
  /\ Runs(c, "status") /\ Done(c)
  /\ emp' = [emp EXCEPT ![It(c).who].st = It(c).st]
  /\ UNCHANGED <<login, onb>>

UpdateEmpCode(c, p) ==
  \E n \in use.codes \ Codes :
    Employed(p) /\ Asks(c, "recode", <<[do |-> "recode", who |-> p, code |-> n]>>)

Recode(c) ==
  /\ Runs(c, "recode")
  /\ IF It(c).code \in Codes THEN Fails(c) /\ UNCHANGED emp
     ELSE Done(c) /\ emp' = [emp EXCEPT ![It(c).who].code = It(c).code]
  /\ UNCHANGED <<login, onb>>

(* These leave the papers alone, which Staff says where it composes them. *)
JoiningNext ==
  \E c \in Calls :
    \/ \E p \in use.people :
         \/ CreateOnboarding(c, p) \/ GetMyStatus(c, p) \/ CompleteProfile(c, p)
         \/ CreateEmployee(c, p) \/ UpdateEmployee(c, p) \/ RemoveEmployee(c, p)
         \/ UpdateEmpCode(c, p)
         \/ \E f \in Files : UpdateOnboarding(c, f, p)
    \/ \E f \in Files :
         \/ RemoveOnboarding(c, f) \/ RejectOnboarding(c, f) \/ ApproveOnboarding(c, f)
         \/ HrFinalApprove(c, f) \/ HrFinalReject(c, f) \/ Reinitiate(c, f)
    \/ \E sheet \in use.sheets : BulkCreate(c, sheet)
    \/ FileRequest(c) \/ Readdress(c) \/ Unfile(c) \/ Mark(c) \/ LookUp(c)
    \/ DeleteLogin(c) \/ NextEmployeeCode(c) \/ EnterEmployee(c) \/ LinkEmployee(c)
    \/ FillProfile(c) \/ ReadSheet(c) \/ SheetRow(c) \/ CreateLogin(c)
    \/ EmployRow(c) \/ WriteEmployeeStatus(c) \/ Recode(c)

-----------------------------------------------------------------------------
Unused(ops) == use.ops \cap ops = {}
NotDuring(op) == Serial \/ op \in use.alone \/ op \notin use.ops

(* What one call at a time that runs to its end leaves, whatever was done  *)
(* before it: no login without its owner; a request that names the address *)
(* of its employee, has one from the account on, has the profile when it   *)
(* says so and the employee off probation once complete; and a request     *)
(* still waiting of somebody who is not employed, so that it can be        *)
(* approved.                                                               *)
InTurn ==
  /\ \A p \in People : login[p] # "bare"
  /\ \A f \in Files : Live(f) =>
       LET row == onb[f] IN
       /\ row.link # Nobody => row.link = row.who
       /\ row.st \notin {"PENDING", "REJECTED"} /\ Unused({"reinitiate", "finalReject"})
            => row.link # Nobody
       /\ row.st = "PROFILE_COMPLETE" /\ Unused({"finalReject"}) => emp[row.link].filled
       /\ row.st = "COMPLETED" /\ Unused({"status", "finalReject"})
            => emp[row.link].st # "ON_PROBATION"
       /\ row.st = "PENDING" /\ Unused({"hire", "bulk", "removeJoiner"}) => ~Employed(row.who)

(* However calls overlap, who an approval or a sheet employed has a        *)
(* request of its own once they are over, unless it was removed or its     *)
(* address corrected while it was approved.                                *)
JoinersFiled ==
  Unused({"hire", "removeJoiner"}) /\ NotDuring("correctJoiner") =>
    \A p \in People : Employed(p) => FileOf(p) # {}

JoiningAgrees(crashed) ==
  AllIdle /\ ~crashed => (Serial => InTurn) /\ JoinersFiled

(* An employee keeps its login, and its code unless it is given another.   *)
StaffStays ==
  \A p \in People : Employed(p) =>
    /\ login'[p] = "staff"
    /\ emp'[p].st # "none"
    /\ (\A c \in Calls : ~Runs(c, "recode")) => emp'[p].code = emp[p].code

-----------------------------------------------------------------------------
(* The papers.                                                             *)

(* file numbers the uploads, 0 is the placeholder HR makes for an original *)
(* it collects; seen is the file HR looked at when it verified.            *)
Document == [st : {"none", "there", "deleted"}, file : Nat, stored : BOOLEAN,
             verified : BOOLEAN, seen : Nat, original : BOOLEAN]
NoDocument == [st |-> "none", file |-> 0, stored |-> FALSE, verified |-> FALSE,
               seen |-> 0, original |-> FALSE]
(* text numbers the versions, mailed the one of the last mail; mails 2 is  *)
(* more than one.                                                          *)
AppointmentLetterStatus ==
  {"DRAFT", "PENDING_APPROVAL", "APPROVED", "SENT", "REJECTED"}
AppointmentLetter ==
  [st : AppointmentLetterStatus \cup {"none", "removed"},
   text : Nat, mailed : Nat, mails : 0 .. 2]

PapersTypeOK ==
  /\ paper \in [People -> [Slots -> Document]]
  /\ letter \in [People -> AppointmentLetter]

PapersInit ==
  /\ paper = [p \in People |-> [d \in Slots |-> NoDocument]]
  /\ letter = [p \in People |-> [st |-> "none", text |-> 0, mailed |-> 0, mails |-> 0]]

papers == <<paper, letter>>
Deals(c, op, todo) == Asks(c, op, todo) /\ UNCHANGED papers

There(p) == {d \in Slots : paper[p][d].st = "there"}
Newest(p) == CHOOSE n \in {paper[p][d].file : d \in Slots} :
               \A d \in Slots : paper[p][d].file <= n

-----------------------------------------------------------------------------
(* documentController.upload: the file goes to the store, then any row of  *)
(* the type is replaced, its old file deleted first, unless it is          *)
(* verified.                                                               *)

\* Mutant: a verified document may be replaced.
ReplaceableAny(doc) == TRUE

Replaceable(doc) == ~doc.verified

UploadDocument(c, p) ==
  /\ Employed(p) /\ Newest(p) < use.rows \* bound
  /\ \/ There(p) = {} /\ Deals(c, "upload", <<[do |-> "attach", p |-> p, scan |-> TRUE]>>)
     \/ \E d \in There(p) :
          /\ Replaceable(paper[p][d])
          /\ Deals(c, "upload",
                   (IF paper[p][d].file = 0 THEN <<>>
                    ELSE <<[do |-> "unstore", p |-> p, d |-> d]>>)
                   \o <<[do |-> "replace", p |-> p, d |-> d]>>)

Attach(c) ==
  LET p == It(c).p
      free == {d \in Slots : paper[p][d].st = "none"}
  IN
  /\ Runs(c, "attach") /\ free # {} \* bound
  /\ Done(c)
  /\ paper' = [paper EXCEPT ![p][CHOOSE d \in free : \A e \in free : d <= e] =
       [NoDocument EXCEPT !.st = "there", !.original = ~It(c).scan, !.stored = It(c).scan,
                          !.file = IF It(c).scan THEN Newest(p) + 1 ELSE 0]]
  /\ UNCHANGED <<joining, letter>>

(* A statement on a row that is gone is refused.                           *)
OnRow(c, do, doc) ==
  LET p == It(c).p
      d == It(c).d
  IN
  /\ Runs(c, do)
  /\ IF paper[p][d].st = "there" THEN Done(c) /\ paper' = [paper EXCEPT ![p][d] = doc]
     ELSE Fails(c) /\ UNCHANGED paper
  /\ UNCHANGED <<joining, letter>>

Replace(c) ==
  Runs(c, "replace") /\
  OnRow(c, "replace", [paper[It(c).p][It(c).d] EXCEPT !.file = Newest(It(c).p) + 1,
                                                      !.stored = TRUE])
Unstore(c) ==
  Runs(c, "unstore") /\
  OnRow(c, "unstore", [paper[It(c).p][It(c).d] EXCEPT !.stored = FALSE])

(* HR verifies what its screen shows, marks originals, and collects them   *)
(* at the joining, for which a row is made where there is none.            *)
VerifyDocument(c, p) ==
  \E d \in There(p) :
    Deals(c, "verify", <<[do |-> "verify", p |-> p, d |-> d, seen |-> paper[p][d].file]>>)
Verify(c) ==
  Runs(c, "verify") /\
  OnRow(c, "verify", [paper[It(c).p][It(c).d] EXCEPT !.verified = TRUE, !.seen = It(c).seen])

MarkOriginal(c, p) ==
  \E d \in There(p) :
    Deals(c, "original", <<[do |-> "original", p |-> p, d |-> d,
                            to |-> ~paper[p][d].original]>>)
CollectOriginalsAtJoining(c, p) ==
  /\ Employed(p)
  /\ \/ \E d \in There(p) :
          Deals(c, "collect", <<[do |-> "original", p |-> p, d |-> d, to |-> TRUE]>>)
     \/ There(p) = {} /\ Deals(c, "collect", <<[do |-> "attach", p |-> p, scan |-> FALSE]>>)
StoreOriginal(c) ==
  Runs(c, "original") /\
  OnRow(c, "original", [paper[It(c).p][It(c).d] EXCEPT !.original = It(c).to])

(* Verified ones only by the super administrator.                          *)
DeleteDocument(c, p) ==
  \E d \in There(p) :
    /\ paper[p][d].verified => "superAdmin" \in use.ops
    /\ Deals(c, "deletePaper",
             (IF paper[p][d].file = 0 THEN <<>>
              ELSE <<[do |-> "unstore", p |-> p, d |-> d]>>)
             \o <<[do |-> "drop", p |-> p, d |-> d]>>)
Drop(c) ==
  Runs(c, "drop") /\ OnRow(c, "drop", [paper[It(c).p][It(c).d] EXCEPT !.st = "deleted"])

(* onboardingController.submitForReview: all required documents have a     *)
(* row, and the request is neither with HR nor through.                    *)

\* Mutant: the documents are not looked at.
HandsInAnyway(p) == TRUE

HandsIn(p) == There(p) # {}

SubmitForReview(c, p) ==
  \E f \in FileOf(p) :
    /\ onb[f].st \notin {"AWAITING_APPROVAL", "COMPLETED"} /\ HandsIn(p)
    /\ Deals(c, "handIn", <<Marking(f, "AWAITING_APPROVAL")>>)

-----------------------------------------------------------------------------
(* Appointment letters, one of each employee: a removed one is not         *)
(* followed by another.                                                    *)
Editable(p) == letter[p].st \in {"DRAFT", "REJECTED"}
Letter(st, p) == [do |-> "letter", p |-> p, st |-> st]

CreateLetter(c, p) ==
  /\ Employed(p) /\ letter[p].st = "none"
  /\ Deals(c, "letter", <<[do |-> "draft", p |-> p]>>)
UpdateLetter(c, p) ==
  /\ Editable(p) /\ letter[p].text < use.rows \* bound
  /\ Deals(c, "redraft", <<[do |-> "text", p |-> p]>>)
SubmitLetter(c, p) ==
  Editable(p) /\ Deals(c, "submitLetter", <<Letter("PENDING_APPROVAL", p)>>)

\* Mutant: a letter that was approved may be approved again.
ApprovableAgain(st) == st \in {"PENDING_APPROVAL", "APPROVED"}

Approvable(st) == st = "PENDING_APPROVAL"

ApproveLetter(c, p) ==
  /\ Approvable(letter[p].st)
  /\ Deals(c, "approveLetter", <<[do |-> "pdf", p |-> p]>>)
RejectLetter(c, p) ==
  /\ letter[p].st = "PENDING_APPROVAL"
  /\ Deals(c, "rejectLetter", <<Letter("REJECTED", p)>>)

OnLetter(c, do, new) ==
  /\ Runs(c, do)
  /\ IF letter[It(c).p].st # "removed"
     THEN Done(c) /\ letter' = [letter EXCEPT ![It(c).p] = new]
     ELSE Fails(c) /\ UNCHANGED letter
  /\ UNCHANGED <<joining, paper>>

DraftLetter(c) ==
  LET p == It(c).p IN
  /\ Runs(c, "draft") /\ letter[p].st = "none" \* bound
  /\ Done(c) /\ letter' = [letter EXCEPT ![p].st = "DRAFT", ![p].text = 1]
  /\ UNCHANGED <<joining, paper>>

WriteText(c) ==
  Runs(c, "text") /\
  OnLetter(c, "text", [letter[It(c).p] EXCEPT !.st = "DRAFT", !.text = @ + 1])
WriteLetterStatus(c) ==
  Runs(c, "letter") /\ OnLetter(c, "letter", [letter[It(c).p] EXCEPT !.st = It(c).st])

(* The text is rendered, the letter approved, mailed, and marked sent,     *)
(* which a mail that fails leaves out.                                     *)
GenerateAppointmentLetterPDF(c) ==
  LET p == It(c).p IN
  /\ Runs(c, "pdf")
  /\ IF letter[p].st = "removed" THEN Fails(c)
     ELSE Goes(c, <<Letter("APPROVED", p),
                    [do |-> "mail", p |-> p, text |-> letter[p].text], Letter("SENT", p)>>)
  /\ UNCHANGED <<joining, papers>>

MailLetter(c) ==
  LET p == It(c).p IN
  /\ Runs(c, "mail")
  /\ \/ /\ Done(c)
        /\ letter' = [letter EXCEPT ![p].mailed = It(c).text, ![p].mails = IF @ = 0 THEN 1 ELSE 2]
     \/ Fails(c) /\ UNCHANGED letter
  /\ UNCHANGED <<joining, paper>>

RemoveLetter(c, p) ==
  /\ letter[p].st \notin {"none", "removed"}
  /\ letter[p].st = "DRAFT" \/ "superAdmin" \in use.ops
  /\ Deals(c, "removeLetter", <<Letter("removed", p)>>)

PapersNext ==
  \E c \in Calls :
    \/ \E p \in use.people :
         \/ UploadDocument(c, p) \/ VerifyDocument(c, p) \/ MarkOriginal(c, p)
         \/ CollectOriginalsAtJoining(c, p) \/ DeleteDocument(c, p)
         \/ SubmitForReview(c, p) \/ CreateLetter(c, p) \/ UpdateLetter(c, p)
         \/ SubmitLetter(c, p) \/ ApproveLetter(c, p) \/ RejectLetter(c, p)
         \/ RemoveLetter(c, p)
    \/ Attach(c) \/ Replace(c) \/ Unstore(c) \/ Verify(c) \/ StoreOriginal(c)
    \/ Drop(c) \/ DraftLetter(c) \/ WriteText(c) \/ WriteLetterStatus(c)
    \/ GenerateAppointmentLetterPDF(c) \/ MailLetter(c)

-----------------------------------------------------------------------------
(* Between calls: a verified document is the file HR saw, unless it was    *)
(* uploaded while HR verified; a letter that was sent was mailed as it     *)
(* reads, unless it was edited while it was approved.  Where one call runs *)
(* at a time, the process stopping once or not: there is one row of the    *)
(* type, with its file in the store; who waits for HR's final word has the *)
(* documents, unless they were deleted since; and a letter is mailed at    *)
(* most once and not edited or rejected afterwards.                        *)
PapersAgree(crashed) ==
  AllIdle => \A p \in People :
    /\ NotDuring("verify") => \A d \in There(p) :
         paper[p][d].verified => paper[p][d].seen = paper[p][d].file
    /\ NotDuring("redraft") =>
         (letter[p].st = "SENT" => letter[p].mails > 0 /\ letter[p].mailed = letter[p].text)
    /\ Serial =>
         /\ Cardinality(There(p)) <= 1
         /\ \A d \in There(p) : paper[p][d].file # 0 /\ ~crashed => paper[p][d].stored
         /\ Unused({"deletePaper"}) =>
              \A f \in FileOf(p) : onb[f].st = "AWAITING_APPROVAL" => There(p) # {}
         /\ letter[p].mails <= 1
         /\ letter[p].mails = 1 => letter[p].st \in {"APPROVED", "SENT", "removed"}

(* A verified document is not replaced, nor taken away but by the super    *)
(* administrator, one call at a time.                                      *)
VerifiedStays ==
  Serial /\ Unused({"superAdmin"}) =>
    \A p \in People : \A d \in There(p) :
      paper[p][d].verified => paper'[p][d].st = "there" /\ paper'[p][d].file = paper[p][d].file
=============================================================================
