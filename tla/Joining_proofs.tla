--------------------------- MODULE Joining_proofs ---------------------------
(***************************************************************************)
(* Proofs about how people join the office, their papers and their way out *)
(* as parts of module Staff: the types of every table, and that no step    *)
(* takes an employee's login or code, or replaces a verified document.     *)
(***************************************************************************)
EXTENDS Staff_proofs, SequenceTheorems

(* The way out is that of module Exit, in every behaviour of the office.   *)
LEMMA ExitInside == StaffSpec => Spec
<1>1. StaffInit => Init
  BY DEF StaffInit
<1>2. [StaffNext]_staff => [Next]_vars
  <2>1. CASE StaffNext
    BY <2>1 DEF StaffNext, KeepJoining, KeepPapers, KeepLeave, KeepDay, KeepExit, Crash,
         exit, vars
  <2>2. CASE UNCHANGED staff
    BY <2>2 DEF staff, exit, vars
  <2>3. QED
    BY <2>1, <2>2
<1>3. QED
  BY <1>1, <1>2, PTL DEF StaffSpec, Spec

-----------------------------------------------------------------------------
(* The statements of the joining and of the papers, each with what the     *)
(* reads before it found.                                                  *)

Filed == {r \in Desk!OnboardingRequest :
            /\ r.st \in {"PENDING", "ACCOUNT_CREATED"} /\ r.who \in People
            /\ r.link \in {r.who, Nobody}}
Marks == {"REJECTED", "ACCOUNT_CREATED", "PROFILE_COMPLETE", "AWAITING_APPROVAL", "COMPLETED"}
Code == 0 .. MaxCode

JoiningStatement ==
  [do : {"file"}, row : Filed]
  \cup [do : {"readdress", "link", "lookup"}, f : Files, who : People]
  \cup [do : {"unfile"}, f : Files]
  \cup [do : {"mark"}, f : Files, st : Marks]
  \cup [do : {"unlogin", "login"}, who : People]
  \cup [do : {"code"}, f : Files \cup {0}, who : People, st : Desk!Status]
  \cup [do : {"enter"}, f : Files \cup {0}, who : People, st : Desk!Status, code : Code]
  \cup [do : {"fill"}, who : People, to : BOOLEAN]
  \cup [do : {"status"}, who : People, st : Desk!Status]
  \cup [do : {"sheet"}, left : Seq(People) \ {<<>>}]
  \cup [do : {"row"}, left : Seq(People) \ {<<>>}, code : Nat]
  \cup [do : {"employ", "recode"}, who : People, code : Code]

PapersStatement ==
  [do : {"attach"}, p : People, scan : BOOLEAN]
  \cup [do : {"replace", "unstore", "drop"}, p : People, d : Slots]
  \cup [do : {"verify"}, p : People, d : Slots, seen : Nat]
  \cup [do : {"original"}, p : People, d : Slots, to : BOOLEAN]
  \cup [do : {"letter"}, p : People, st : Desk!AppointmentLetterStatus \cup {"removed"}]
  \cup [do : {"draft", "text", "pdf"}, p : People]
  \cup [do : {"mail"}, p : People, text : Nat]

Statement == JoiningStatement \cup PapersStatement
Call == [op : duty.ops \cup {"none"}, todo : Seq(Statement)]

(* Types, and a request in the drawer names a person. *)
DeskTyped ==
  /\ duty \in Duties /\ crashed \in BOOLEAN
  /\ doing \in [Calls -> Call] /\ \A c \in Calls : doing[c] # Desk!Idle => c \in duty.calls
  /\ Desk!JoiningTypeOK /\ Desk!PapersTypeOK
  /\ \A f \in Files : Desk!Live(f) => onb[f].who \in People

(* Employees have their login, requests are linked to employees only, and  *)
(* so they are in the statements to come: the request of a sheet's row     *)
(* follows the statement that employs its person.                          *)
Employing(t) ==
  \A i \in DOMAIN t :
    /\ t[i].do \in {"status", "link"} => Desk!Employed(t[i].who)
    /\ t[i].do = "file" /\ t[i].row.link # Nobody =>
         \/ Desk!Employed(t[i].row.link)
         \/ i > 1 /\ t[i - 1].do = "employ" /\ t[i - 1].who = t[i].row.link

EmployedInv ==
  /\ \A p \in People : Desk!Employed(p) => login[p] = "staff"
  /\ \A f \in Files : onb[f].link # Nobody => Desk!Employed(onb[f].link)
  /\ \A c \in Calls : Employing(doing[c].todo)

(* One call at a time, what is to replace or delete a document found it    *)
(* not verified, and what verifies one does nothing else.                  *)
Alone == Desk!Serial /\ "superAdmin" \notin duty.ops

Verifying(t) ==
  \A i \in DOMAIN t :
    /\ t[i].do \in {"replace", "drop"} => ~paper[t[i].p][t[i].d].verified
    /\ t[i].do = "verify" => Len(t) = 1

VerifiedInv == Alone => \A c \in Calls : Verifying(doing[c].todo)

DeskInv == DeskTyped /\ EmployedInv /\ VerifiedInv

-----------------------------------------------------------------------------
(* Statements and sequences of them.                                       *)

LEMMA JoiningParts ==
  ASSUME NEW s \in Statement
  PROVE  /\ s.do = "file" => s.row \in Filed
         /\ s.do \in {"readdress", "link", "lookup"} => s.f \in Files /\ s.who \in People
         /\ s.do = "unfile" => s.f \in Files
         /\ s.do = "mark" => s.f \in Files /\ s.st \in Marks
         /\ s.do \in {"unlogin", "login"} => s.who \in People
         /\ s.do = "code" => s.f \in Files \cup {0} /\ s.who \in People /\ s.st \in Desk!Status
         /\ s.do = "enter" => /\ s.f \in Files \cup {0} /\ s.who \in People
                              /\ s.st \in Desk!Status /\ s.code \in Code
         /\ s.do = "fill" => s.who \in People /\ s.to \in BOOLEAN
         /\ s.do = "status" => s.who \in People /\ s.st \in Desk!Status
         /\ s.do = "sheet" => s.left \in Seq(People) \ {<<>>}
         /\ s.do = "row" => s.left \in Seq(People) \ {<<>>} /\ s.code \in Nat
         /\ s.do \in {"employ", "recode"} => s.who \in People /\ s.code \in Code
<1>1. /\ s.do = "file" => s.row \in Filed
      /\ s.do \in {"readdress", "link", "lookup"} => s.f \in Files /\ s.who \in People
      /\ s.do = "unfile" => s.f \in Files
      /\ s.do = "mark" => s.f \in Files /\ s.st \in Marks
  BY DEF Statement, JoiningStatement, PapersStatement
<1>2. /\ s.do \in {"unlogin", "login"} => s.who \in People
      /\ s.do = "code" => s.f \in Files \cup {0} /\ s.who \in People /\ s.st \in Desk!Status
      /\ s.do = "enter" => /\ s.f \in Files \cup {0} /\ s.who \in People
                           /\ s.st \in Desk!Status /\ s.code \in Code
  BY DEF Statement, JoiningStatement, PapersStatement
<1>3. /\ s.do = "fill" => s.who \in People /\ s.to \in BOOLEAN
      /\ s.do = "status" => s.who \in People /\ s.st \in Desk!Status
      /\ s.do = "sheet" => s.left \in Seq(People) \ {<<>>}
      /\ s.do = "row" => s.left \in Seq(People) \ {<<>>} /\ s.code \in Nat
      /\ s.do \in {"employ", "recode"} => s.who \in People /\ s.code \in Code
  BY DEF Statement, JoiningStatement, PapersStatement
<1>4. QED
  BY <1>1, <1>2, <1>3

LEMMA PapersParts ==
  ASSUME NEW s \in Statement
  PROVE  /\ s.do = "attach" => s.p \in People /\ s.scan \in BOOLEAN
         /\ s.do \in {"replace", "unstore", "drop", "verify", "original"} =>
              s.p \in People /\ s.d \in Slots
         /\ s.do = "verify" => s.seen \in Nat
         /\ s.do = "original" => s.to \in BOOLEAN
         /\ s.do \in {"letter", "draft", "text", "pdf", "mail"} => s.p \in People
         /\ s.do = "letter" => s.st \in Desk!AppointmentLetterStatus \cup {"removed"}
         /\ s.do = "mail" => s.text \in Nat
BY DEF Statement, JoiningStatement, PapersStatement

LEMMA Sequences ==
  /\ <<>> \in Seq(Statement)
  /\ \A s \in Statement : <<s>> \in Seq(Statement)
  /\ \A s, t \in Seq(Statement) : s \o t \in Seq(Statement)
  /\ \A t \in Seq(Statement) : t # <<>> =>
       /\ Head(t) \in Statement /\ Tail(t) \in Seq(Statement)
       /\ 1 \in DOMAIN t /\ Head(t) = t[1] /\ Len(t) \in Nat
       /\ Len(Tail(t)) = Len(t) - 1
       /\ \A i \in DOMAIN Tail(t) : i + 1 \in DOMAIN t /\ i \in Nat /\ i >= 1
                                    /\ Tail(t)[i] = t[i + 1]
OBVIOUS

Good(t) == t \in Seq(Statement) /\ Employing(t) /\ (Alone => Verifying(t))

LEMMA OneGood ==
  ASSUME NEW s \in Statement,
         s.do \in {"status", "link"} => Desk!Employed(s.who),
         s.do = "file" /\ s.row.link # Nobody => Desk!Employed(s.row.link),
         s.do \in {"replace", "drop"} => ~paper[s.p][s.d].verified \/ ~Alone
  PROVE  Good(<<s>>) /\ Good(<<>>)
<1>1. <<s>> \in Seq(Statement) /\ <<>> \in Seq(Statement)
  BY Sequences
<1>2. DOMAIN <<s>> = {1} /\ <<s>>[1] = s /\ Len(<<s>>) = 1
  OBVIOUS
<1>3. Employing(<<s>>) /\ (Alone => Verifying(<<s>>))
  BY <1>2 DEF Employing, Verifying
<1>4. Employing(<<>>) /\ Verifying(<<>>)
  BY DEF Employing, Verifying
<1>5. QED
  BY <1>1, <1>3, <1>4 DEF Good

(* A second statement, when neither verifies a document. *)
LEMMA TwoGood ==
  ASSUME NEW s \in Statement, NEW t \in Statement,
         s.do \notin {"link", "status", "file", "replace", "drop", "verify"},
         t.do \notin {"link", "file", "verify"},
         t.do = "status" => Desk!Employed(t.who),
         t.do \in {"replace", "drop"} => ~paper[t.p][t.d].verified \/ ~Alone
  PROVE  Good(<<s, t>>) /\ Good(<<s>> \o <<t>>)
<1>1. ASSUME NEW v \in Seq(Statement), Len(v) = 2, v[1] = s, v[2] = t
      PROVE  Good(v)
  <2>1. DOMAIN v = {1, 2}
    BY <1>1
  <2>2. Employing(v) /\ (Alone => Verifying(v))
    BY <1>1, <2>1 DEF Employing, Verifying
  <2>3. QED
    BY <2>2 DEF Good
<1>2. Good(<<s, t>>)
  <2>1. <<s, t>> \in Seq(Statement) /\ Len(<<s, t>>) = 2
    OBVIOUS
  <2>2. QED
    BY <1>1, <2>1
<1>3. Good(<<s>> \o <<t>>)
  <2> DEFINE a == <<s>>
             b == <<t>>
  <2>1. a \in Seq(Statement) /\ b \in Seq(Statement) /\ Len(a) = 1 /\ Len(b) = 1
        /\ a[1] = s /\ b[1] = t
    BY Sequences
  <2> HIDE DEF a, b
  <2>2. /\ a \o b \in Seq(Statement) /\ Len(a \o b) = 1 + 1
        /\ \A i \in 1 .. 1 + 1 : (a \o b)[i] = IF i <= 1 THEN a[i] ELSE b[i - 1]
    BY <2>1, ConcatProperties
  <2>3. Len(a \o b) = 2 /\ (a \o b)[1] = s /\ (a \o b)[2] = t
    BY <2>1, <2>2
  <2>4. Good(a \o b)
    BY <1>1, <2>2, <2>3
  <2>5. QED
    BY <2>4 DEF a, b
<1>4. QED
  BY <1>2, <1>3

(* A call that goes on: what it is to do, and what the others keep. *)
LEMMA Starts ==
  ASSUME DeskTyped, duty' = duty, NEW c \in Calls, NEW op \in duty.ops \cup {"none"},
         NEW todo \in Seq(Statement), todo # <<>> => c \in duty.calls, Desk!Start(c, op, todo)
  PROVE  /\ doing' \in [Calls -> Call]'
         /\ \A k \in Calls : doing'[k] # Desk!Idle => k \in duty.calls
         /\ doing'[c].todo = todo /\ \A k \in Calls : k # c => doing'[k] = doing[k]
<1> DEFINE v == IF todo = <<>> THEN Desk!Idle ELSE [op |-> op, todo |-> todo]
<1>1. doing \in [Calls -> Call] /\ \A k \in Calls : doing[k] # Desk!Idle => k \in duty.calls
  BY DEF DeskTyped
<1>2. doing' = [doing EXCEPT ![c] = v]
  BY DEF Desk!Start
<1>3. v \in Call /\ v.todo = todo /\ (v # Desk!Idle => c \in duty.calls)
  BY DEF Call, Desk!Idle
<1> HIDE DEF v
<1>4. doing' \in [Calls -> Call] /\ doing'[c] = v /\ \A k \in Calls : k # c => doing'[k] = doing[k]
  BY <1>1, <1>2, <1>3
<1>5. doing' \in [Calls -> Call]'
  BY <1>4 DEF Call
<1>6. QED
  BY <1>1, <1>3, <1>4, <1>5

(* The statement a call runs, and those after it. *)
LEMMA Running ==
  ASSUME DeskTyped, NEW c \in Calls, NEW do, Desk!Runs(c, do)
  PROVE  /\ Desk!It(c) \in Statement /\ Desk!It(c).do = do
         /\ Desk!Rest(c) \in Seq(Statement) /\ c \in duty.calls
         /\ doing[c].op \in duty.ops \cup {"none"} /\ doing[c].todo \in Seq(Statement)
         /\ doing[c].todo # <<>> /\ doing[c].todo[1] = Desk!It(c)
<1>1. doing[c] \in Call /\ doing[c].todo # <<>> /\ (doing[c] # Desk!Idle => c \in duty.calls)
  BY DEF DeskTyped, Desk!Runs
<1>2. doing[c].todo \in Seq(Statement) /\ doing[c].op \in duty.ops \cup {"none"}
      /\ doing[c] # Desk!Idle
  BY <1>1 DEF Call, Desk!Idle
<1>3. /\ Head(doing[c].todo) \in Statement /\ Tail(doing[c].todo) \in Seq(Statement)
      /\ Head(doing[c].todo) = doing[c].todo[1]
  BY <1>1, <1>2, Sequences
<1>4. QED
  BY <1>1, <1>2, <1>3 DEF Desk!It, Desk!Rest, Desk!Runs

LEMMA DeskAlone ==
  ASSUME duty \in Duties, Desk!Serial
  PROVE  \E x \in Calls : duty.calls = {x}
<1>1. \A S : Days!Cardinality(S) = Desk!Cardinality(S)
  BY Zenon DEF Days!Cardinality, Desk!Cardinality
<1>2. Days!Serial
  BY <1>1 DEF Desk!Serial, Days!Serial
<1>3. QED
  BY <1>2, OneCall

(* An endpoint that only reads and then starts its statements. *)
LEMMA AskedStep ==
  ASSUME DeskInv, duty' = duty, NEW c \in Calls, NEW op, NEW todo, Good(todo),
         Desk!Asks(c, op, todo), UNCHANGED <<paper, letter, crashed>>
  PROVE  DeskInv' /\ Desk!StaffStays /\ Desk!VerifiedStays
<1>1. /\ op \in duty.ops /\ c \in duty.calls /\ Desk!Start(c, op, todo)
      /\ UNCHANGED <<login, joiner, onb>>
  BY DEF Desk!Asks, Desk!Free, Desk!joining
<1>2. todo \in Seq(Statement) /\ Employing(todo) /\ (Alone => Verifying(todo))
  BY DEF Good
<1>3. /\ doing' \in [Calls -> Call]'
      /\ \A k \in Calls : doing'[k] # Desk!Idle => k \in duty.calls
      /\ doing'[c].todo = todo /\ \A k \in Calls : k # c => doing'[k] = doing[k]
  BY <1>1, <1>2, Starts DEF DeskInv
<1>4. DeskTyped'
  BY <1>1, <1>3 DEF DeskInv, DeskTyped, Desk!JoiningTypeOK, Desk!PapersTypeOK, Desk!Live
<1>5. Alone' <=> Alone
  BY DEF Alone, Desk!Serial
<1>6. EmployedInv'
  <2>1. \A k \in Calls : Employing(doing[k].todo)'
    BY <1>1, <1>2, <1>3 DEF DeskInv, EmployedInv, Employing, Desk!Employed
  <2>2. QED
    BY <1>1, <2>1 DEF DeskInv, EmployedInv, Desk!Employed
<1>7. VerifiedInv'
  <2>1. Alone => \A k \in Calls : Verifying(doing[k].todo)'
    BY <1>2, <1>3 DEF DeskInv, VerifiedInv, Verifying
  <2>2. QED
    BY <1>5, <2>1 DEF VerifiedInv
<1>8. Desk!StaffStays /\ Desk!VerifiedStays
  <2>1. Desk!StaffStays
    BY <1>1 DEF Desk!StaffStays, DeskInv, EmployedInv, Desk!Employed
  <2>2. Desk!VerifiedStays
    BY <1>1 DEF Desk!VerifiedStays, Desk!There
  <2>3. QED
    BY <2>1, <2>2
<1>9. QED
  BY <1>4, <1>6, <1>7, <1>8 DEF DeskInv

LEMMA EmptyAside ==
  ASSUME NEW s \in Statement
  PROVE  <<s>> \o <<>> = <<s>> /\ <<>> \o <<s>> = <<s>>
BY Sequences, ConcatEmptySeq

LEMMA DeskDuty ==
  ASSUME duty \in Duties
  PROVE  /\ duty.people \subseteq People /\ duty.codes \subseteq Code /\ duty.calls \subseteq Calls
         /\ duty.sheets \subseteq Seq(People) \ {<<>>} /\ duty.rows \in Nat
         /\ MaxCode \in Nat /\ Files \subseteq Nat \ {0} /\ Slots \subseteq Nat \ {0}
         /\ Nobody \notin People
BY DutiesShape, Bounds, Apart DEF Code

(* Every endpoint of the joining starts statements that are in order. *)
LEMMA JoiningAsks ==
  ASSUME DeskInv, NEW c \in Calls,
         \/ \E p \in duty.people :
              \/ Desk!CreateOnboarding(c, p) \/ Desk!GetMyStatus(c, p)
              \/ Desk!CompleteProfile(c, p) \/ Desk!CreateEmployee(c, p)
              \/ Desk!UpdateEmployee(c, p) \/ Desk!RemoveEmployee(c, p)
              \/ Desk!UpdateEmpCode(c, p)
              \/ \E f \in Files : Desk!UpdateOnboarding(c, f, p)
         \/ \E f \in Files :
              \/ Desk!RemoveOnboarding(c, f) \/ Desk!RejectOnboarding(c, f)
              \/ Desk!ApproveOnboarding(c, f) \/ Desk!HrFinalApprove(c, f)
              \/ Desk!HrFinalReject(c, f) \/ Desk!Reinitiate(c, f)
         \/ \E sheet \in duty.sheets : Desk!BulkCreate(c, sheet)
  PROVE  \E op, todo : Good(todo) /\ Desk!Asks(c, op, todo)
<1>1. /\ duty \in Duties /\ onb \in [Files -> Desk!OnboardingRequest]
      /\ joiner \in [People -> Desk!Employee]
      /\ \A f \in Files : Desk!Live(f) => onb[f].who \in People
      /\ \A f \in Files : onb[f].link # Nobody => Desk!Employed(onb[f].link)
  BY DEF DeskInv, DeskTyped, EmployedInv, Desk!JoiningTypeOK
<1>2. /\ duty.people \subseteq People /\ duty.codes \subseteq Code /\ Nobody \notin People
      /\ duty.sheets \subseteq Seq(People) \ {<<>>}
  BY <1>1, DeskDuty
<1>3. \A f \in Files : onb[f].link \in People \cup {Nobody}
  BY <1>1 DEF Desk!OnboardingRequest
<1>4. \A f \in Files, st \in Marks : Desk!Marking(f, st) \in Statement
                                     /\ Desk!Marking(f, st).do = "mark"
  BY DEF Statement, JoiningStatement, Desk!Marking
<1>5. ASSUME NEW p \in duty.people, Desk!CreateOnboarding(c, p)
      PROVE  \E op, todo : Good(todo) /\ Desk!Asks(c, op, todo)
  <2> DEFINE r == [st |-> "PENDING", who |-> p, link |-> Nobody]
             s == [do |-> "file", row |-> r]
  <2>1. r \in Filed /\ s \in Statement /\ r.link = Nobody
    BY <1>2 DEF Filed, Desk!OnboardingRequest, Statement, JoiningStatement
  <2>2. Good(<<s>>)
    BY <2>1, OneGood
  <2>3. QED
    BY <1>5, <2>2 DEF Desk!CreateOnboarding
<1>6. ASSUME NEW p \in duty.people, Desk!GetMyStatus(c, p)
      PROVE  \E op, todo : Good(todo) /\ Desk!Asks(c, op, todo)
  <2> DEFINE s == [do |-> "file", row |-> Desk!Own(p)]
  <2>1. Desk!Own(p) \in Filed /\ s \in Statement /\ Desk!Own(p).link = p
    BY <1>2 DEF Filed, Desk!OnboardingRequest, Desk!Own, Statement, JoiningStatement
  <2>2. Desk!Employed(p)
    BY <1>6 DEF Desk!GetMyStatus
  <2>3. Good(<<s>>)
    BY <2>1, <2>2, OneGood
  <2>4. QED
    BY <1>6, <2>3 DEF Desk!GetMyStatus
<1>7. ASSUME NEW p \in duty.people, Desk!CompleteProfile(c, p)
      PROVE  \E op, todo : Good(todo) /\ Desk!Asks(c, op, todo)
  <2>1. PICK f \in Desk!FileOf(p) :
          Desk!Asks(c, "profile", <<[do |-> "fill", who |-> p, to |-> TRUE],
                                    Desk!Marking(f, "PROFILE_COMPLETE")>>)
    BY <1>7 DEF Desk!CompleteProfile
  <2> DEFINE s == [do |-> "fill", who |-> p, to |-> TRUE]
             t == Desk!Marking(f, "PROFILE_COMPLETE")
  <2>2. s \in Statement /\ s.do = "fill"
    BY <1>2 DEF Statement, JoiningStatement
  <2>3. t \in Statement /\ t.do = "mark"
    BY <1>4 DEF Desk!FileOf, Marks
  <2> HIDE DEF s, t
  <2>4. Good(<<s, t>>)
    BY <2>2, <2>3, TwoGood
  <2>5. QED
    BY <2>1, <2>4 DEF s, t
<1>8. ASSUME NEW p \in duty.people, Desk!CreateEmployee(c, p)
      PROVE  \E op, todo : Good(todo) /\ Desk!Asks(c, op, todo)
  <2>1. PICK st \in {"ON_PROBATION", "ACTIVE"} :
          \/ Desk!Asks(c, "hire", <<Desk!Hiring(0, p, st)>>)
          \/ \E n \in duty.codes \ Desk!Codes :
               Desk!Asks(c, "hire", <<[do |-> "enter", f |-> 0, who |-> p, st |-> st,
                                       code |-> n]>>)
    BY <1>8 DEF Desk!CreateEmployee
  <2>2. Desk!Hiring(0, p, st) \in Statement /\ Desk!Hiring(0, p, st).do = "code"
    BY <1>2 DEF Desk!Hiring, Statement, JoiningStatement, Desk!Status
  <2>3. \A n \in duty.codes :
          [do |-> "enter", f |-> 0, who |-> p, st |-> st, code |-> n] \in Statement
    BY <1>2 DEF Statement, JoiningStatement, Desk!Status
  <2>4. Good(<<Desk!Hiring(0, p, st)>>)
    BY <2>2, OneGood
  <2>5. \A n \in duty.codes :
          Good(<<[do |-> "enter", f |-> 0, who |-> p, st |-> st, code |-> n]>>)
    BY <2>3, OneGood
  <2>6. QED
    BY <2>1, <2>4, <2>5
<1>9. ASSUME NEW p \in duty.people, NEW st \in Desk!Status, Desk!Employed(p),
             NEW op, Desk!Asks(c, op, <<[do |-> "status", who |-> p, st |-> st]>>)
      PROVE  \E o, todo : Good(todo) /\ Desk!Asks(c, o, todo)
  <2>1. [do |-> "status", who |-> p, st |-> st] \in Statement
    BY <1>2 DEF Statement, JoiningStatement
  <2>2. Good(<<[do |-> "status", who |-> p, st |-> st]>>)
    BY <1>9, <2>1, OneGood
  <2>3. QED
    BY <1>9, <2>2
<1>10. ASSUME NEW p \in duty.people, Desk!UpdateEmpCode(c, p)
       PROVE  \E op, todo : Good(todo) /\ Desk!Asks(c, op, todo)
  <2>1. PICK n \in duty.codes \ Desk!Codes :
          Desk!Asks(c, "recode", <<[do |-> "recode", who |-> p, code |-> n]>>)
    BY <1>10 DEF Desk!UpdateEmpCode
  <2>2. [do |-> "recode", who |-> p, code |-> n] \in Statement
    BY <1>2 DEF Statement, JoiningStatement
  <2>3. Good(<<[do |-> "recode", who |-> p, code |-> n]>>)
    BY <2>2, OneGood
  <2>4. QED
    BY <2>1, <2>3
<1>11. ASSUME NEW p \in duty.people, NEW f \in Files, Desk!UpdateOnboarding(c, f, p)
       PROVE  \E op, todo : Good(todo) /\ Desk!Asks(c, op, todo)
  <2>1. [do |-> "readdress", f |-> f, who |-> p] \in Statement
    BY <1>2 DEF Statement, JoiningStatement
  <2>2. Good(<<[do |-> "readdress", f |-> f, who |-> p]>>)
    BY <2>1, OneGood
  <2>3. QED
    BY <1>11, <2>2 DEF Desk!UpdateOnboarding
<1>12. ASSUME NEW f \in Files, NEW st \in Marks, NEW op, Desk!Asks(c, op, <<Desk!Marking(f, st)>>)
       PROVE  \E o, todo : Good(todo) /\ Desk!Asks(c, o, todo)
  BY <1>4, <1>12, OneGood
<1>13. ASSUME NEW f \in Files, Desk!RemoveOnboarding(c, f)
       PROVE  \E op, todo : Good(todo) /\ Desk!Asks(c, op, todo)
  <2>1. [do |-> "unfile", f |-> f] \in Statement
    BY DEF Statement, JoiningStatement
  <2>2. Good(<<[do |-> "unfile", f |-> f]>>)
    BY <2>1, OneGood
  <2>3. QED
    BY <1>13, <2>2 DEF Desk!RemoveOnboarding
<1>14. ASSUME NEW f \in Files, Desk!ApproveOnboarding(c, f)
       PROVE  \E op, todo : Good(todo) /\ Desk!Asks(c, op, todo)
  <2>1. onb[f].who \in People
    BY <1>1, <1>14 DEF Desk!ApproveOnboarding, Desk!Live
  <2>2. [do |-> "lookup", f |-> f, who |-> onb[f].who] \in Statement
    BY <2>1 DEF Statement, JoiningStatement
  <2>3. Good(<<[do |-> "lookup", f |-> f, who |-> onb[f].who]>>)
    BY <2>2, OneGood
  <2>4. QED
    BY <1>14, <2>3 DEF Desk!ApproveOnboarding
<1>15. ASSUME NEW f \in Files, Desk!HrFinalApprove(c, f)
       PROVE  \E op, todo : Good(todo) /\ Desk!Asks(c, op, todo)
  <2> DEFINE s == Desk!Marking(f, "COMPLETED")
             t == [do |-> "status", who |-> onb[f].link, st |-> "ACTIVE"]
  <2>1. s \in Statement /\ s.do = "mark"
    BY <1>4 DEF Marks
  <2>2. onb[f].link # Nobody => t \in Statement /\ t.do = "status" /\ Desk!Employed(t.who)
    BY <1>1, <1>3 DEF Statement, JoiningStatement, Desk!Status
  <2>3. Desk!Asks(c, "finalApprove", <<s>> \o IF onb[f].link = Nobody THEN <<>> ELSE <<t>>)
    BY <1>15 DEF Desk!HrFinalApprove
  <2> HIDE DEF s, t
  <2>4. CASE onb[f].link = Nobody
    <3>1. <<s>> \o <<>> = <<s>> /\ Good(<<s>>)
      BY <2>1, EmptyAside, OneGood
    <3>2. QED
      BY <2>3, <2>4, <3>1
  <2>5. CASE onb[f].link # Nobody
    <3>1. Good(<<s>> \o <<t>>)
      BY <2>1, <2>2, <2>5, TwoGood
    <3>2. QED
      BY <2>3, <2>5, <3>1
  <2>6. QED
    BY <2>4, <2>5
<1>16. ASSUME NEW f \in Files, Desk!Reinitiate(c, f)
       PROVE  \E op, todo : Good(todo) /\ Desk!Asks(c, op, todo)
  <2> DEFINE s == Desk!Marking(f, "ACCOUNT_CREATED")
             t == [do |-> "fill", who |-> onb[f].link, to |-> FALSE]
  <2>1. s \in Statement /\ s.do = "mark"
    BY <1>4 DEF Marks
  <2>2. onb[f].link # Nobody => t \in Statement /\ t.do = "fill"
    BY <1>3 DEF Statement, JoiningStatement
  <2>3. Desk!Asks(c, "reinitiate", <<s>> \o IF onb[f].link = Nobody THEN <<>> ELSE <<t>>)
    BY <1>16 DEF Desk!Reinitiate
  <2> HIDE DEF s, t
  <2>4. CASE onb[f].link = Nobody
    <3>1. <<s>> \o <<>> = <<s>> /\ Good(<<s>>)
      BY <2>1, EmptyAside, OneGood
    <3>2. QED
      BY <2>3, <2>4, <3>1
  <2>5. CASE onb[f].link # Nobody
    <3>1. Good(<<s>> \o <<t>>)
      BY <2>1, <2>2, <2>5, TwoGood
    <3>2. QED
      BY <2>3, <2>5, <3>1
  <2>6. QED
    BY <2>4, <2>5
<1>17. ASSUME NEW sheet \in duty.sheets, Desk!BulkCreate(c, sheet)
       PROVE  \E op, todo : Good(todo) /\ Desk!Asks(c, op, todo)
  <2>1. [do |-> "sheet", left |-> sheet] \in Statement
    BY <1>2 DEF Statement, JoiningStatement
  <2>2. Good(<<[do |-> "sheet", left |-> sheet]>>)
    BY <2>1, OneGood
  <2>3. QED
    BY <1>17, <2>2 DEF Desk!BulkCreate
<1>18. "REJECTED" \in Marks /\ "PROFILE_COMPLETE" \in Marks /\ "TERMINATED" \in Desk!Status
  BY DEF Marks, Desk!Status
<1>19. QED
  BY <1>5, <1>6, <1>7, <1>8, <1>9, <1>10, <1>11, <1>12, <1>13, <1>14, <1>15, <1>16, <1>17, <1>18
     DEF Desk!UpdateEmployee, Desk!RemoveEmployee, Desk!RejectOnboarding, Desk!HrFinalReject

(* So does every endpoint of the papers. *)
LEMMA PapersAsks ==
  ASSUME DeskInv, NEW c \in Calls, NEW p \in duty.people,
         \/ Desk!UploadDocument(c, p) \/ Desk!VerifyDocument(c, p) \/ Desk!MarkOriginal(c, p)
         \/ Desk!CollectOriginalsAtJoining(c, p) \/ Desk!DeleteDocument(c, p)
         \/ Desk!SubmitForReview(c, p) \/ Desk!CreateLetter(c, p) \/ Desk!UpdateLetter(c, p)
         \/ Desk!SubmitLetter(c, p) \/ Desk!ApproveLetter(c, p) \/ Desk!RejectLetter(c, p)
         \/ Desk!RemoveLetter(c, p)
  PROVE  /\ \E op, todo : Good(todo) /\ Desk!Asks(c, op, todo)
         /\ UNCHANGED <<paper, letter>>
<1>1. /\ duty \in Duties /\ paper \in [People -> [Slots -> Desk!Document]]
  BY DEF DeskInv, DeskTyped, Desk!PapersTypeOK
<1>2. p \in People
  BY <1>1, DeskDuty
<1>3. Desk!There(p) \subseteq Slots
  BY DEF Desk!There
<1>4. \A d \in Slots : /\ paper[p][d].file \in Nat /\ paper[p][d].original \in BOOLEAN
  BY <1>1, <1>2 DEF Desk!Document
<1>5. ASSUME NEW s \in Statement, NEW op, Desk!Deals(c, op, <<s>>),
             s.do \notin {"status", "link", "file", "replace", "drop"}
      PROVE  /\ \E o, todo : Good(todo) /\ Desk!Asks(c, o, todo)
             /\ UNCHANGED <<paper, letter>>
  BY <1>5, OneGood DEF Desk!Deals, Desk!papers
<1>6. ASSUME NEW d \in Slots, NEW do \in {"replace", "drop"}, NEW op,
             ~paper[p][d].verified \/ ~Alone,
             Desk!Deals(c, op, (IF paper[p][d].file = 0 THEN <<>>
                                ELSE <<[do |-> "unstore", p |-> p, d |-> d]>>)
                               \o <<[do |-> do, p |-> p, d |-> d]>>)
      PROVE  /\ \E o, todo : Good(todo) /\ Desk!Asks(c, o, todo)
             /\ UNCHANGED <<paper, letter>>
  <2> DEFINE s == [do |-> "unstore", p |-> p, d |-> d]
             t == [do |-> do, p |-> p, d |-> d]
  <2>1. s \in Statement /\ t \in Statement
    BY <1>2 DEF Statement, PapersStatement
  <2>2. s.do = "unstore" /\ t.do = do /\ t.p = p /\ t.d = d
    OBVIOUS
  <2>3. /\ Desk!Asks(c, op, (IF paper[p][d].file = 0 THEN <<>> ELSE <<s>>) \o <<t>>)
        /\ UNCHANGED <<paper, letter>>
    BY <1>6 DEF Desk!Deals, Desk!papers
  <2> HIDE DEF s, t
  <2>4. Good(<<s>> \o <<t>>)
    BY <1>6, <2>1, <2>2, TwoGood
  <2>5. <<>> \o <<t>> = <<t>> /\ Good(<<t>>)
    <3>1. <<>> \o <<t>> = <<t>>
      BY <2>1, EmptyAside
    <3>2. Good(<<t>>)
      BY <1>6, <2>1, <2>2, OneGood
    <3>3. QED
      BY <3>1, <3>2
  <2>6. CASE paper[p][d].file = 0
    BY <2>3, <2>5, <2>6
  <2>7. CASE paper[p][d].file # 0
    BY <2>3, <2>4, <2>7
  <2>8. QED
    BY <2>6, <2>7
<1>7. /\ \A scan \in BOOLEAN : [do |-> "attach", p |-> p, scan |-> scan] \in Statement
      /\ \A d \in Slots : [do |-> "verify", p |-> p, d |-> d, seen |-> paper[p][d].file] \in Statement
      /\ \A d \in Slots, to \in BOOLEAN : [do |-> "original", p |-> p, d |-> d, to |-> to] \in Statement
      /\ \A f \in Files : Desk!Marking(f, "AWAITING_APPROVAL") \in Statement
  BY <1>2, <1>4 DEF Statement, JoiningStatement, PapersStatement, Desk!Marking, Marks
<1>8. /\ \A do \in {"draft", "text", "pdf"} : [do |-> do, p |-> p] \in Statement
      /\ \A st \in {"PENDING_APPROVAL", "REJECTED", "removed"} : Desk!Letter(st, p) \in Statement
  BY <1>2 DEF Statement, PapersStatement, Desk!Letter, Desk!AppointmentLetterStatus
<1>9. CASE Desk!UploadDocument(c, p)
  <2>1. \/ Desk!Deals(c, "upload", <<[do |-> "attach", p |-> p, scan |-> TRUE]>>)
        \/ \E d \in Desk!There(p) :
             /\ ~paper[p][d].verified
             /\ Desk!Deals(c, "upload", (IF paper[p][d].file = 0 THEN <<>>
                                         ELSE <<[do |-> "unstore", p |-> p, d |-> d]>>)
                                        \o <<[do |-> "replace", p |-> p, d |-> d]>>)
    BY <1>9 DEF Desk!UploadDocument, Desk!Replaceable
  <2>2. CASE Desk!Deals(c, "upload", <<[do |-> "attach", p |-> p, scan |-> TRUE]>>)
    BY <1>5, <1>7, <2>2
  <2>3. QED
    BY <1>3, <1>6, <2>1, <2>2
<1>10. CASE Desk!VerifyDocument(c, p)
  BY <1>3, <1>5, <1>7, <1>10 DEF Desk!VerifyDocument
<1>11. CASE Desk!MarkOriginal(c, p)
  <2>1. PICK d \in Desk!There(p) :
          Desk!Deals(c, "original", <<[do |-> "original", p |-> p, d |-> d,
                                       to |-> ~paper[p][d].original]>>)
    BY <1>11 DEF Desk!MarkOriginal
  <2>2. (~paper[p][d].original) \in BOOLEAN
    OBVIOUS
  <2>3. [do |-> "original", p |-> p, d |-> d, to |-> ~paper[p][d].original] \in Statement
    BY <1>3, <1>7, <2>2
  <2>4. QED
    BY <1>5, <2>1, <2>3
<1>12. CASE Desk!CollectOriginalsAtJoining(c, p)
  BY <1>3, <1>5, <1>7, <1>12 DEF Desk!CollectOriginalsAtJoining
<1>13. CASE Desk!DeleteDocument(c, p)
  <2>1. PICK d \in Desk!There(p) :
          /\ paper[p][d].verified => "superAdmin" \in duty.ops
          /\ Desk!Deals(c, "deletePaper", (IF paper[p][d].file = 0 THEN <<>>
                                           ELSE <<[do |-> "unstore", p |-> p, d |-> d]>>)
                                          \o <<[do |-> "drop", p |-> p, d |-> d]>>)
    BY <1>13 DEF Desk!DeleteDocument
  <2>2. ~paper[p][d].verified \/ ~Alone
    BY <2>1 DEF Alone
  <2>3. QED
    BY <1>3, <1>6, <2>1, <2>2
<1>14. CASE Desk!SubmitForReview(c, p)
  <2>1. PICK f \in Files : Desk!Deals(c, "handIn", <<Desk!Marking(f, "AWAITING_APPROVAL")>>)
    BY <1>14 DEF Desk!SubmitForReview, Desk!FileOf
  <2>2. Desk!Marking(f, "AWAITING_APPROVAL").do = "mark"
    BY DEF Desk!Marking
  <2>3. QED
    BY <1>5, <1>7, <2>1, <2>2
<1>15. \A st : Desk!Letter(st, p).do = "letter"
  BY DEF Desk!Letter
<1>16. CASE Desk!CreateLetter(c, p) \/ Desk!UpdateLetter(c, p)
  BY <1>5, <1>8, <1>16 DEF Desk!CreateLetter, Desk!UpdateLetter
<1>17. CASE Desk!SubmitLetter(c, p) \/ Desk!RejectLetter(c, p) \/ Desk!RemoveLetter(c, p)
  BY <1>5, <1>8, <1>15, <1>17 DEF Desk!SubmitLetter, Desk!RejectLetter, Desk!RemoveLetter
<1>18. CASE Desk!ApproveLetter(c, p)
  BY <1>5, <1>8, <1>18 DEF Desk!ApproveLetter
<1>19. QED
  BY <1>9, <1>10, <1>11, <1>12, <1>13, <1>14, <1>16, <1>17, <1>18

-----------------------------------------------------------------------------
(* What a statement does to the tables.                                    *)
TablesInv ==
  /\ Desk!JoiningTypeOK /\ Desk!PapersTypeOK
  /\ \A f \in Files : Desk!Live(f) => onb[f].who \in People
  /\ \A p \in People : Desk!Employed(p) => login[p] = "staff"
  /\ \A f \in Files : onb[f].link # Nobody => Desk!Employed(onb[f].link)

Grows == \A p \in People : Desk!Employed(p) => Desk!Employed(p)'
CodesStay == \A p \in People : Desk!Employed(p) => joiner'[p].code = joiner[p].code
NoneVerified ==
  \A p \in People, d \in Slots : paper'[p][d].verified => paper[p][d].verified

(* A statement runs, and the call goes on with todo.                       *)
LEMMA WentOn ==
  ASSUME DeskInv, duty' = duty, crashed' = crashed, NEW c \in Calls, NEW do,
         Desk!Runs(c, do), TablesInv', Grows, CodesStay \/ do = "recode",
         NEW todo \in Seq(Statement), Desk!Goes(c, todo),
         Employing(todo)', Alone => Verifying(todo)'
  PROVE  DeskInv' /\ Desk!StaffStays
<1>1. c \in duty.calls /\ doing[c].op \in duty.ops \cup {"none"}
  BY Running DEF DeskInv
<1>2. Desk!Start(c, doing[c].op, todo)
  BY DEF Desk!Goes
<1>3. /\ doing' \in [Calls -> Call]'
      /\ \A k \in Calls : doing'[k] # Desk!Idle => k \in duty.calls
      /\ doing'[c].todo = todo /\ \A k \in Calls : k # c => doing'[k] = doing[k]
  BY <1>1, <1>2, Starts DEF DeskInv
<1>4. DeskTyped'
  BY <1>3 DEF DeskInv, DeskTyped, TablesInv
<1>5. EmployedInv'
  <2>1. ASSUME NEW k \in Calls
        PROVE  Employing(doing[k].todo)'
    <3>1. CASE k = c
      BY <1>3, <3>1 DEF Employing
    <3>2. CASE k # c
      <4>1. doing'[k].todo = doing[k].todo /\ doing[k].todo \in Seq(Statement)
        BY <1>3, <3>2 DEF DeskInv, DeskTyped, Call
      <4>1a. PICK t : t = doing[k].todo
        OBVIOUS
      <4>2. Employing(t) /\ t \in Seq(Statement)
        BY <4>1, <4>1a DEF DeskInv, EmployedInv
      <4>3. \A i \in DOMAIN t : t[i] \in Statement
        BY <4>2
      <4>4. ASSUME NEW i \in DOMAIN t
            PROVE  /\ t[i].do \in {"status", "link"} => Desk!Employed(t[i].who)'
                   /\ t[i].do = "file" /\ t[i].row.link # Nobody =>
                        \/ Desk!Employed(t[i].row.link)'
                        \/ i > 1 /\ t[i - 1].do = "employ" /\ t[i - 1].who = t[i].row.link
        <5>1. CASE t[i].do \in {"status", "link"}
          BY <4>2, <4>3, <5>1, JoiningParts DEF Employing, Grows
        <5>2. CASE t[i].do = "file" /\ t[i].row.link # Nobody
          <6>1. t[i].row.link \in People
            BY <4>3, <5>2, JoiningParts DEF Filed
          <6>2. QED
            BY <4>2, <5>2, <6>1 DEF Employing, Grows
        <5>3. QED
          BY <5>1, <5>2
      <4>5. doing'[k].todo = t
        BY <4>1, <4>1a
      <4>6. QED
        BY <4>4, <4>5 DEF Employing
    <3>3. QED
      BY <3>1, <3>2
  <2>2. QED
    BY <2>1 DEF EmployedInv, TablesInv
<1>6. VerifiedInv'
  <2>1. SUFFICES ASSUME Alone, NEW k \in Calls
                 PROVE  Verifying(doing[k].todo)'
    BY DEF VerifiedInv, Alone, Desk!Serial
  <2>2. duty.calls = {c}
    BY <1>1, <2>1, DeskAlone DEF Alone, DeskInv, DeskTyped
  <2>3. CASE k = c
    BY <1>3, <2>1, <2>3 DEF Verifying
  <2>4. CASE k # c
    <3>1. doing'[k].todo = <<>>
      BY <1>3, <2>2, <2>4 DEF Desk!Idle
    <3>2. QED
      BY <3>1 DEF Verifying
  <2>5. QED
    BY <2>3, <2>4
<1>7. Desk!StaffStays
  <2>1. \A p \in People : Desk!Employed(p) => login'[p] = "staff" /\ joiner'[p].st # "none"
    BY DEF Grows, TablesInv, Desk!Employed
  <2>2. (\A k \in Calls : ~Desk!Runs(k, "recode")) => CodesStay
    OBVIOUS
  <2>3. QED
    BY <2>1, <2>2 DEF Desk!StaffStays, CodesStay
<1>8. QED
  BY <1>4, <1>5, <1>6, <1>7 DEF DeskInv

(* ... with the rest of its statements, or with none. *)
LEMMA WentRest ==
  ASSUME DeskInv, duty' = duty, crashed' = crashed, NEW c \in Calls, NEW do,
         Desk!Runs(c, do), TablesInv', Grows, CodesStay \/ do = "recode",
         Desk!Done(c) \/ Desk!Fails(c),
         do = "employ" /\ Desk!Done(c) =>
           \A p \in People : p = Desk!It(c).who => Desk!Employed(p)',
         do = "verify" \/ NoneVerified
  PROVE  DeskInv' /\ Desk!StaffStays
<1>1. CASE Desk!Fails(c)
  <2>1. Employing(<<>>)' /\ Verifying(<<>>)' /\ <<>> \in Seq(Statement)
    BY Sequences DEF Employing, Verifying
  <2>2. QED
    BY <1>1, <2>1, WentOn DEF Desk!Fails
<1>2. CASE Desk!Done(c)
  <2>0. PICK t, r, s : t = doing[c].todo /\ r = Desk!Rest(c) /\ s = Desk!It(c)
    OBVIOUS
  <2>1. /\ t \in Seq(Statement) /\ t # <<>> /\ s \in Statement /\ s.do = do
        /\ t[1] = s /\ r = Tail(t) /\ r \in Seq(Statement)
    BY <2>0, Running DEF DeskInv, Desk!Rest
  <2>2. \A i \in DOMAIN r : i + 1 \in DOMAIN t /\ i \in Nat /\ i >= 1 /\ r[i] = t[i + 1]
    BY <2>1, Sequences
  <2>3. Employing(t) /\ (Alone => Verifying(t))
    BY <2>0 DEF DeskInv, EmployedInv, VerifiedInv
  <2>4. do = "employ" /\ s.who \in People => Desk!Employed(s.who)'
    BY <1>2, <2>0
  <2>4a. do = "verify" /\ Alone => Len(t) = 1
    <3>1. 1 \in DOMAIN t
      BY <2>1
    <3>2. QED
      BY <2>1, <2>3, <3>1 DEF Verifying
  <2>5. Desk!Goes(c, r)
    BY <1>2, <2>0 DEF Desk!Done
  <2>6. \A i \in DOMAIN t : t[i] \in Statement
    BY <2>1
  <2>7. Employing(r)'
    <3>1. ASSUME NEW i \in DOMAIN r
          PROVE  /\ r[i].do \in {"status", "link"} => Desk!Employed(r[i].who)'
                 /\ r[i].do = "file" /\ r[i].row.link # Nobody =>
                      \/ Desk!Employed(r[i].row.link)'
                      \/ i > 1 /\ r[i - 1].do = "employ" /\ r[i - 1].who = r[i].row.link
      <4>0. i + 1 \in DOMAIN t /\ i \in Nat /\ i >= 1 /\ r[i] = t[i + 1] /\ r[i] \in Statement
        BY <2>2, <2>6
      <4>1. CASE r[i].do \in {"status", "link"}
        <5>1. Desk!Employed(r[i].who) /\ r[i].who \in People
          BY <2>3, <4>0, <4>1, JoiningParts DEF Employing
        <5>2. QED
          BY <4>1, <5>1 DEF Grows
      <4>2. CASE r[i].do = "file" /\ r[i].row.link # Nobody
        <5>1. r[i].row.link \in People
          BY <4>0, <4>2, JoiningParts DEF Filed
        <5>2. \/ Desk!Employed(r[i].row.link)
              \/ t[i + 1 - 1].do = "employ" /\ t[i + 1 - 1].who = r[i].row.link
          BY <2>3, <4>0, <4>2 DEF Employing
        <5>3. i + 1 - 1 = i
          BY <4>0
        <5>4. CASE Desk!Employed(r[i].row.link)
          BY <4>2, <5>1, <5>4 DEF Grows
        <5>5. CASE t[i].do = "employ" /\ t[i].who = r[i].row.link
          <6>1. CASE i = 1
            BY <2>1, <2>4, <4>2, <5>1, <5>5, <6>1
          <6>2. CASE i > 1
            <7>1. i - 1 \in DOMAIN r /\ r[i - 1] = t[i]
              <8>1. i - 1 \in DOMAIN r
                BY <2>1, <4>0, <6>2
              <8>2. r[i - 1] = t[i - 1 + 1]
                BY <2>2, <8>1
              <8>3. QED
                BY <4>0, <8>1, <8>2
            <7>2. QED
              BY <4>2, <5>5, <6>2, <7>1
          <6>3. QED
            BY <4>0, <6>1, <6>2
        <5>6. QED
          BY <5>2, <5>3, <5>4, <5>5
      <4>3. QED
        BY <4>1, <4>2
    <3>2. QED
      BY <3>1 DEF Employing
  <2>8. Alone => Verifying(r)'
    <3>1. SUFFICES ASSUME Alone
                   PROVE  Verifying(r)'
      OBVIOUS
    <3>2. CASE do = "verify"
      <4>1. DOMAIN r = {}
        BY <2>1, <2>4a, <3>1, <3>2
      <4>2. QED
        BY <4>1 DEF Verifying
    <3>3. CASE NoneVerified
      <4>1. ASSUME NEW i \in DOMAIN r
            PROVE  /\ r[i].do \in {"replace", "drop"} => ~paper'[r[i].p][r[i].d].verified
                   /\ r[i].do = "verify" => Len(r) = 1
        <5>0. i + 1 \in DOMAIN t /\ i \in Nat /\ i >= 1 /\ r[i] = t[i + 1] /\ r[i] \in Statement
          BY <2>2, <2>6
        <5>1. CASE r[i].do \in {"replace", "drop"}
          <6>1. r[i].p \in People /\ r[i].d \in Slots /\ ~paper[r[i].p][r[i].d].verified
            BY <2>3, <3>1, <5>0, <5>1, PapersParts DEF Verifying
          <6>2. QED
            BY <3>3, <5>1, <6>1 DEF NoneVerified
        <5>2. r[i].do # "verify"
          <6>1. r[i].do = "verify" => Len(t) = 1
            BY <2>3, <3>1, <5>0 DEF Verifying
          <6>2. Len(t) # 1
            BY <2>1, <5>0
          <6>3. QED
            BY <6>1, <6>2
        <5>3. QED
          BY <5>1, <5>2
      <4>2. QED
        BY <4>1 DEF Verifying
    <3>4. QED
      BY <3>2, <3>3
  <2>9. QED
    BY <2>1, <2>5, <2>7, <2>8, WentOn
<1>3. QED
  BY <1>1, <1>2

LEMMA SameTables ==
  ASSUME DeskInv, UNCHANGED <<login, joiner, onb, paper, letter>>
  PROVE  TablesInv /\ TablesInv' /\ Grows /\ CodesStay /\ NoneVerified
<1>1. TablesInv
  BY DEF DeskInv, DeskTyped, EmployedInv, TablesInv
<1>2. QED
  BY <1>1 DEF TablesInv, Grows, CodesStay, NoneVerified, Desk!JoiningTypeOK, Desk!PapersTypeOK,
       Desk!Live, Desk!Employed

LEMMA FileEdited ==
  ASSUME DeskInv, NEW f \in Files, NEW row \in Desk!OnboardingRequest,
         onb' = [onb EXCEPT ![f] = row], UNCHANGED <<login, joiner, paper, letter>>,
         row.st \notin {"none", "removed"} => row.who \in People,
         row.link # Nobody => Desk!Employed(row.link)
  PROVE  TablesInv' /\ Grows /\ CodesStay /\ NoneVerified
<1>1. /\ Desk!JoiningTypeOK /\ Desk!PapersTypeOK
      /\ \A g \in Files : Desk!Live(g) => onb[g].who \in People
      /\ \A p \in People : Desk!Employed(p) => login[p] = "staff"
      /\ \A g \in Files : onb[g].link # Nobody => Desk!Employed(onb[g].link)
  BY DEF DeskInv, DeskTyped, EmployedInv
<1>2. onb' \in [Files -> Desk!OnboardingRequest] /\ onb'[f] = row
      /\ \A g \in Files : g # f => onb'[g] = onb[g]
  BY <1>1 DEF Desk!JoiningTypeOK
<1>3. Desk!JoiningTypeOK' /\ Desk!PapersTypeOK'
  BY <1>1, <1>2 DEF Desk!JoiningTypeOK, Desk!PapersTypeOK
<1>4. Grows /\ CodesStay /\ NoneVerified
  BY DEF Grows, CodesStay, NoneVerified, Desk!Employed
<1>5. \A g \in Files : Desk!Live(g)' => onb'[g].who \in People
  BY <1>1, <1>2 DEF Desk!Live
<1>6. \A g \in Files : onb'[g].link # Nobody => Desk!Employed(onb[g].link)'
  BY <1>1, <1>2 DEF Desk!Employed
<1>7. \A p \in People : Desk!Employed(p)' => login'[p] = "staff"
  BY <1>1 DEF Desk!Employed
<1>8. QED
  BY <1>3, <1>4, <1>5, <1>6, <1>7 DEF TablesInv

LEMMA PersonEdited ==
  ASSUME DeskInv, NEW p \in People, NEW e \in Desk!Employee, NEW l \in Desk!User,
         joiner' = [joiner EXCEPT ![p] = e], login' = [login EXCEPT ![p] = l],
         UNCHANGED <<onb, paper, letter>>,
         e.st # "none" => l = "staff", Desk!Employed(p) => e.st # "none"
  PROVE  /\ TablesInv' /\ Grows /\ NoneVerified
         /\ (Desk!Employed(p) => e.code = joiner[p].code) => CodesStay
<1>1. /\ Desk!JoiningTypeOK /\ Desk!PapersTypeOK
      /\ \A g \in Files : Desk!Live(g) => onb[g].who \in People
      /\ \A q \in People : Desk!Employed(q) => login[q] = "staff"
      /\ \A g \in Files : onb[g].link # Nobody => Desk!Employed(onb[g].link)
  BY DEF DeskInv, DeskTyped, EmployedInv
<1>2. /\ joiner' \in [People -> Desk!Employee] /\ joiner'[p] = e
      /\ \A q \in People : q # p => joiner'[q] = joiner[q]
      /\ login' \in [People -> Desk!User] /\ login'[p] = l
      /\ \A q \in People : q # p => login'[q] = login[q]
  BY <1>1 DEF Desk!JoiningTypeOK
<1>3. Desk!JoiningTypeOK' /\ Desk!PapersTypeOK'
  BY <1>1, <1>2 DEF Desk!JoiningTypeOK, Desk!PapersTypeOK
<1>4. Grows /\ NoneVerified
  BY <1>2 DEF Grows, NoneVerified, Desk!Employed
<1>5. (Desk!Employed(p) => e.code = joiner[p].code) => CodesStay
  BY <1>2 DEF CodesStay
<1>6. \A q \in People : Desk!Employed(q)' => login'[q] = "staff"
  BY <1>1, <1>2 DEF Desk!Employed
<1>7. \A g \in Files : onb'[g].link # Nobody => Desk!Employed(onb[g].link)'
  <2>1. \A g \in Files : onb[g].link \in People \cup {Nobody}
    BY <1>1 DEF Desk!JoiningTypeOK, Desk!OnboardingRequest
  <2>2. \A g \in Files : onb[g].link # Nobody =>
          onb[g].link \in People /\ joiner'[onb[g].link].st # "none"
    BY <1>1, <1>2, <2>1 DEF Desk!Employed
  <2>3. QED
    BY <2>2 DEF Desk!Employed
<1>8. \A g \in Files : Desk!Live(g)' => onb'[g].who \in People
  BY <1>1 DEF Desk!Live
<1>9. QED
  BY <1>3, <1>4, <1>5, <1>6, <1>7, <1>8 DEF TablesInv

(* The next code is one more than the highest. *)
LEMMA NextCodeTyped ==
  ASSUME DeskInv
  PROVE  Desk!NextCode \in Nat /\ (Desk!NextCode <= MaxCode => Desk!NextCode \in Code)
<1>1. MaxCode \in Nat /\ joiner \in [People -> Desk!Employee]
  BY DeskDuty DEF DeskInv, DeskTyped, Desk!JoiningTypeOK
<1>2. Desk!Codes \cup {0} \in SUBSET (0 .. MaxCode) /\ Desk!Codes \cup {0} # {}
  BY <1>1 DEF Desk!Codes, Desk!Employee
<1>3. \E n \in Desk!Codes \cup {0} : \A m \in Desk!Codes \cup {0} : n >= m
  BY <1>1, <1>2, LargestOf
<1>4. \E n \in Desk!Codes \cup {0} : \A m \in Desk!Codes : m <= n
  BY <1>2, <1>3
<1>5. (CHOOSE n \in Desk!Codes \cup {0} : \A m \in Desk!Codes : m <= n) \in 0 .. MaxCode
  BY <1>2, <1>4
<1>6. QED
  BY <1>1, <1>5 DEF Desk!NextCode, Code

LEMMA AtHead ==
  ASSUME DeskInv, NEW c \in Calls, NEW do, Desk!Runs(c, do)
  PROVE  /\ do \in {"status", "link"} => Desk!Employed(Desk!It(c).who)
         /\ do = "file" /\ Desk!It(c).row.link # Nobody => Desk!Employed(Desk!It(c).row.link)
         /\ do \in {"replace", "drop"} /\ Alone =>
              ~paper[Desk!It(c).p][Desk!It(c).d].verified
<1>1. /\ doing[c].todo \in Seq(Statement) /\ doing[c].todo # <<>>
      /\ doing[c].todo[1] = Desk!It(c) /\ Desk!It(c).do = do
  BY Running DEF DeskInv
<1>2. 1 \in DOMAIN doing[c].todo
  BY <1>1
<1>3. Employing(doing[c].todo) /\ (Alone => Verifying(doing[c].todo))
  BY DEF DeskInv, EmployedInv, VerifiedInv
<1>4. QED
  BY <1>1, <1>2, <1>3 DEF Employing, Verifying

(* The statements on a request. *)
LEMMA FileStatements ==
  ASSUME DeskInv, UNCHANGED <<duty, paper, letter, crashed>>, NEW c \in Calls,
         \/ Desk!FileRequest(c) \/ Desk!Readdress(c) \/ Desk!Unfile(c) \/ Desk!Mark(c)
         \/ Desk!LinkEmployee(c)
  PROVE  DeskInv' /\ Desk!StaffStays
<1>1. /\ onb \in [Files -> Desk!OnboardingRequest]
      /\ \A f \in Files : Desk!Live(f) => onb[f].who \in People
      /\ \A f \in Files : onb[f].link # Nobody => Desk!Employed(onb[f].link)
      /\ \A f \in Files : onb[f].link \in People \cup {Nobody}
                          /\ onb[f].who \in People \cup {Nobody}
  BY DEF DeskInv, DeskTyped, EmployedInv, Desk!JoiningTypeOK, Desk!OnboardingRequest
<1>2. ASSUME NEW do, Desk!Runs(c, do)
      PROVE  Desk!It(c) \in Statement /\ Desk!It(c).do = do
  BY <1>2, Running DEF DeskInv
<1>3. ASSUME NEW do, Desk!Runs(c, do), do \notin {"employ", "recode", "verify"},
             UNCHANGED <<login, joiner>>, Desk!Done(c) \/ Desk!Fails(c),
             \/ UNCHANGED onb
             \/ \E f \in Files, row \in Desk!OnboardingRequest :
                  /\ onb' = [onb EXCEPT ![f] = row]
                  /\ row.st \notin {"none", "removed"} => row.who \in People
                  /\ row.link # Nobody => Desk!Employed(row.link)
      PROVE  DeskInv' /\ Desk!StaffStays
  <2>1. TablesInv' /\ Grows /\ CodesStay /\ NoneVerified
    <3>1. CASE UNCHANGED onb
      BY <1>3, <3>1, SameTables
    <3>2. CASE \E f \in Files, row \in Desk!OnboardingRequest :
                  /\ onb' = [onb EXCEPT ![f] = row]
                  /\ row.st \notin {"none", "removed"} => row.who \in People
                  /\ row.link # Nobody => Desk!Employed(row.link)
      BY <1>3, <3>2, FileEdited
    <3>3. QED
      BY <1>3, <3>1, <3>2
  <2>2. QED
    BY <1>3, <2>1, WentRest
<1>4. CASE Desk!FileRequest(c)
  <2> DEFINE row == Desk!It(c).row
             free == {f \in Files : onb[f].st = "none"}
             f0 == CHOOSE f \in free : \A g \in free : f <= g
  <2>1. /\ Desk!Runs(c, "file") /\ UNCHANGED <<login, joiner>>
        /\ \/ Desk!Fails(c) /\ UNCHANGED onb
           \/ free # {} /\ onb' = [onb EXCEPT ![f0] = row] /\ Desk!Done(c)
    BY <1>4 DEF Desk!FileRequest
  <2>2. row \in Filed /\ (row.link # Nobody => Desk!Employed(row.link))
    BY <1>2, <2>1, JoiningParts, AtHead
  <2>3. row \in Desk!OnboardingRequest /\ row.who \in People
    BY <2>2 DEF Filed
  <2>4. free # {} => f0 \in Files
    <3>1. free \in SUBSET Nat
      BY DeskDuty DEF DeskInv, DeskTyped
    <3>2. free # {} => \E x \in free : \A y \in free : x <= y
      BY <3>1, SmallestOf
    <3>3. free # {} => f0 \in free
      BY <3>2
    <3>4. QED
      BY <3>3
  <2> HIDE DEF row, free, f0
  <2>5. CASE Desk!Fails(c) /\ UNCHANGED onb
    BY <1>3, <2>1, <2>5
  <2>6. CASE free # {} /\ onb' = [onb EXCEPT ![f0] = row] /\ Desk!Done(c)
    BY <1>3, <2>1, <2>2, <2>3, <2>4, <2>6
  <2>7. QED
    BY <2>1, <2>5, <2>6
<1>5. CASE Desk!Readdress(c)
  <2>1. /\ Desk!Runs(c, "readdress") /\ UNCHANGED <<login, joiner>>
        /\ \/ /\ Desk!Live(Desk!It(c).f) /\ Desk!Done(c)
              /\ onb' = [onb EXCEPT ![Desk!It(c).f].who = Desk!It(c).who]
           \/ Desk!Fails(c) /\ UNCHANGED onb
    BY <1>5 DEF Desk!Readdress
  <2>2. Desk!It(c).f \in Files /\ Desk!It(c).who \in People
    BY <1>2, <2>1, JoiningParts
  <2>3. PICK f \in Files, p \in People : f = Desk!It(c).f /\ p = Desk!It(c).who
    BY <2>2
  <2> DEFINE row == [onb[f] EXCEPT !.who = p]
  <2>4. /\ row \in Desk!OnboardingRequest /\ row.who = p /\ row.link = onb[f].link
        /\ [onb EXCEPT ![f].who = p] = [onb EXCEPT ![f] = row]
    BY <1>1 DEF Desk!OnboardingRequest
  <2> HIDE DEF row
  <2>5. QED
    BY <1>1, <1>3, <2>1, <2>3, <2>4
<1>6. CASE Desk!Unfile(c)
  <2>1. /\ Desk!Runs(c, "unfile") /\ Desk!Done(c) /\ UNCHANGED <<login, joiner>>
        /\ onb' = [onb EXCEPT ![Desk!It(c).f].st = "removed"]
    BY <1>6 DEF Desk!Unfile
  <2>2. PICK f \in Files : f = Desk!It(c).f
    BY <1>2, <2>1, JoiningParts
  <2> DEFINE row == [onb[f] EXCEPT !.st = "removed"]
  <2>3. /\ row \in Desk!OnboardingRequest /\ row.st = "removed" /\ row.link = onb[f].link
        /\ [onb EXCEPT ![f].st = "removed"] = [onb EXCEPT ![f] = row]
    BY <1>1 DEF Desk!OnboardingRequest
  <2> HIDE DEF row
  <2>4. /\ onb' = [onb EXCEPT ![f] = row]
        /\ row.st \notin {"none", "removed"} => row.who \in People
        /\ row.link # Nobody => Desk!Employed(row.link)
    BY <1>1, <2>1, <2>2, <2>3
  <2>5. QED
    BY <1>3, <2>1, <2>3, <2>4
<1>7. CASE Desk!Mark(c)
  <2>1. /\ Desk!Runs(c, "mark") /\ UNCHANGED <<login, joiner>>
        /\ \/ /\ Desk!Live(Desk!It(c).f) /\ Desk!Done(c)
              /\ onb' = [onb EXCEPT ![Desk!It(c).f].st = Desk!It(c).st]
           \/ Desk!Fails(c) /\ UNCHANGED onb
    BY <1>7 DEF Desk!Mark
  <2>2. PICK f \in Files, st \in Marks : f = Desk!It(c).f /\ st = Desk!It(c).st
    BY <1>2, <2>1, JoiningParts
  <2> DEFINE row == [onb[f] EXCEPT !.st = st]
  <2>3. /\ row \in Desk!OnboardingRequest /\ row.who = onb[f].who /\ row.link = onb[f].link
        /\ [onb EXCEPT ![f].st = st] = [onb EXCEPT ![f] = row]
    BY <1>1 DEF Desk!OnboardingRequest, Marks
  <2> HIDE DEF row
  <2>4. QED
    BY <1>1, <1>3, <2>1, <2>2, <2>3
<1>8. CASE Desk!LinkEmployee(c)
  <2>1. /\ Desk!Runs(c, "link") /\ UNCHANGED <<login, joiner>>
        /\ \/ /\ Desk!Live(Desk!It(c).f) /\ Desk!Done(c)
              /\ onb' = [onb EXCEPT ![Desk!It(c).f] = Desk!Linked(@, Desk!It(c).who)]
           \/ Desk!Fails(c) /\ UNCHANGED onb
    BY <1>8 DEF Desk!LinkEmployee
  <2>2. Desk!It(c).f \in Files /\ Desk!It(c).who \in People /\ Desk!Employed(Desk!It(c).who)
    BY <1>2, <2>1, JoiningParts, AtHead
  <2>3. PICK f \in Files, p \in People : f = Desk!It(c).f /\ p = Desk!It(c).who
    BY <2>2
  <2> DEFINE row == Desk!Linked(onb[f], p)
  <2>4. /\ row \in Desk!OnboardingRequest /\ row.who = onb[f].who /\ row.link = p
    BY <1>1 DEF Desk!OnboardingRequest, Desk!Linked
  <2>5. [onb EXCEPT ![f] = Desk!Linked(@, p)] = [onb EXCEPT ![f] = row]
    OBVIOUS
  <2> HIDE DEF row
  <2>6. QED
    BY <1>1, <1>3, <2>1, <2>2, <2>3, <2>4, <2>5
<1>9. QED
  BY <1>4, <1>5, <1>6, <1>7, <1>8

(* The statements on a login or an employee. *)
LEMMA PersonStatements ==
  ASSUME DeskInv, UNCHANGED <<duty, paper, letter, crashed>>, NEW c \in Calls,
         \/ Desk!FillProfile(c) \/ Desk!WriteEmployeeStatus(c) \/ Desk!Recode(c)
         \/ Desk!DeleteLogin(c) \/ Desk!CreateLogin(c) \/ Desk!EmployRow(c)
  PROVE  DeskInv' /\ Desk!StaffStays
<1>1. /\ login \in [People -> Desk!User] /\ joiner \in [People -> Desk!Employee]
      /\ \A p \in People : Desk!Employed(p) => login[p] = "staff"
  BY DEF DeskInv, DeskTyped, EmployedInv, Desk!JoiningTypeOK
<1>2. ASSUME NEW do, Desk!Runs(c, do)
      PROVE  Desk!It(c) \in Statement /\ Desk!It(c).do = do
  BY <1>2, Running DEF DeskInv
<1>3. ASSUME NEW do, Desk!Runs(c, do), Desk!Fails(c), UNCHANGED <<login, joiner, onb>>
      PROVE  DeskInv' /\ Desk!StaffStays
  <2>1. TablesInv' /\ Grows /\ CodesStay /\ NoneVerified
    BY <1>3, SameTables
  <2>2. Employing(<<>>)' /\ Verifying(<<>>)' /\ <<>> \in Seq(Statement)
    BY Sequences DEF Employing, Verifying
  <2>3. QED
    BY <1>3, <2>1, <2>2, WentOn DEF Desk!Fails
<1>4. ASSUME NEW do, Desk!Runs(c, do), do # "verify", Desk!Done(c), UNCHANGED onb,
             NEW p \in People, p = Desk!It(c).who,
             NEW e \in Desk!Employee, NEW l \in Desk!User,
             joiner' = [joiner EXCEPT ![p] = e], login' = [login EXCEPT ![p] = l],
             e.st # "none" => l = "staff", Desk!Employed(p) => e.st # "none",
             do = "recode" \/ (Desk!Employed(p) => e.code = joiner[p].code),
             do = "employ" => e.st # "none"
      PROVE  DeskInv' /\ Desk!StaffStays
  <2>1. /\ TablesInv' /\ Grows /\ NoneVerified
        /\ (Desk!Employed(p) => e.code = joiner[p].code) => CodesStay
    BY <1>4, PersonEdited
  <2>2. do = "employ" => \A q \in People : q = Desk!It(c).who => Desk!Employed(q)'
    BY <1>1, <1>4 DEF Desk!Employed
  <2>3. QED
    BY <1>4, <2>1, <2>2, WentRest
<1>5. \A p \in People : /\ joiner = [joiner EXCEPT ![p] = joiner[p]]
                        /\ login = [login EXCEPT ![p] = login[p]]
                        /\ joiner[p] \in Desk!Employee /\ login[p] \in Desk!User
  BY <1>1
<1>5a. ASSUME NEW do, Desk!Runs(c, do), do \notin {"verify", "employ"}, Desk!Done(c),
              UNCHANGED login, UNCHANGED onb, NEW p \in People, p = Desk!It(c).who,
              NEW e \in Desk!Employee, joiner' = [joiner EXCEPT ![p] = e],
              e.st # "none" => login[p] = "staff", Desk!Employed(p) => e.st # "none",
              do = "recode" \/ e.code = joiner[p].code
       PROVE  DeskInv' /\ Desk!StaffStays
  <2>1. PICK l \in Desk!User : l = login[p]
    BY <1>5
  <2>2. login' = [login EXCEPT ![p] = l]
    BY <1>5a, <1>5, <2>1
  <2>3. QED
    BY <1>4, <1>5a, <2>1, <2>2
<1>6. CASE Desk!FillProfile(c)
  <2>1. /\ Desk!Runs(c, "fill") /\ Desk!Done(c) /\ UNCHANGED login /\ UNCHANGED onb
        /\ joiner' = [joiner EXCEPT ![Desk!It(c).who].filled = Desk!It(c).to]
    BY <1>6 DEF Desk!FillProfile
  <2>2. PICK p \in People, to \in BOOLEAN : p = Desk!It(c).who /\ to = Desk!It(c).to
    BY <1>2, <2>1, JoiningParts
  <2> DEFINE e == [joiner[p] EXCEPT !.filled = to]
  <2>3. /\ e \in Desk!Employee /\ e.st = joiner[p].st /\ e.code = joiner[p].code
        /\ [joiner EXCEPT ![p].filled = to] = [joiner EXCEPT ![p] = e]
    BY <1>1 DEF Desk!Employee
  <2> HIDE DEF e
  <2>4. joiner' = [joiner EXCEPT ![p] = e] /\ (e.st # "none" => login[p] = "staff")
    BY <1>1, <2>1, <2>2, <2>3 DEF Desk!Employed
  <2>5. /\ Desk!Runs(c, "fill") /\ Desk!Done(c) /\ UNCHANGED login /\ UNCHANGED onb
        /\ (Desk!Employed(p) => e.st # "none") /\ p = Desk!It(c).who
    BY <2>1, <2>2, <2>3 DEF Desk!Employed
  <2>6. QED
    BY <1>5a, <2>3, <2>4, <2>5
<1>7. CASE Desk!WriteEmployeeStatus(c)
  <2>1. /\ Desk!Runs(c, "status") /\ Desk!Done(c) /\ UNCHANGED login /\ UNCHANGED onb
        /\ joiner' = [joiner EXCEPT ![Desk!It(c).who].st = Desk!It(c).st]
    BY <1>7 DEF Desk!WriteEmployeeStatus
  <2>2. PICK p \in People, st \in Desk!Status : p = Desk!It(c).who /\ st = Desk!It(c).st
    BY <1>2, <2>1, JoiningParts
  <2> DEFINE e == [joiner[p] EXCEPT !.st = st]
  <2>3. /\ e \in Desk!Employee /\ e.st = st /\ e.code = joiner[p].code /\ st # "none"
        /\ [joiner EXCEPT ![p].st = st] = [joiner EXCEPT ![p] = e]
    BY <1>1 DEF Desk!Employee, Desk!Status
  <2> HIDE DEF e
  <2>4. joiner' = [joiner EXCEPT ![p] = e] /\ login' = [login EXCEPT ![p] = login[p]]
    BY <1>5, <2>1, <2>2, <2>3
  <2>5. login[p] = "staff"
    BY <1>1, <2>1, <2>2, AtHead
  <2>6. "staff" \in Desk!User /\ login' = [login EXCEPT ![p] = "staff"]
    BY <2>4, <2>5 DEF Desk!User
  <2>7. /\ joiner' = [joiner EXCEPT ![p] = e] /\ e \in Desk!Employee /\ e.st # "none"
        /\ e.code = joiner[p].code /\ p = Desk!It(c).who
        /\ Desk!Runs(c, "status") /\ Desk!Done(c) /\ UNCHANGED onb
    BY <2>1, <2>2, <2>3, <2>4
  <2>8. QED
    BY <1>4, <2>6, <2>7
<1>8. CASE Desk!Recode(c)
  <2>1. /\ Desk!Runs(c, "recode") /\ UNCHANGED login /\ UNCHANGED onb
        /\ \/ Desk!Fails(c) /\ UNCHANGED joiner
           \/ Desk!Done(c) /\ joiner' = [joiner EXCEPT ![Desk!It(c).who].code = Desk!It(c).code]
    BY <1>8 DEF Desk!Recode
  <2>2. PICK p \in People, n \in Code : p = Desk!It(c).who /\ n = Desk!It(c).code
    BY <1>2, <2>1, JoiningParts
  <2> DEFINE e == [joiner[p] EXCEPT !.code = n]
  <2>3. /\ e \in Desk!Employee /\ e.st = joiner[p].st
        /\ [joiner EXCEPT ![p].code = n] = [joiner EXCEPT ![p] = e]
    BY <1>1 DEF Desk!Employee, Code
  <2> HIDE DEF e
  <2>4. CASE Desk!Fails(c) /\ UNCHANGED joiner
    BY <1>3, <2>1, <2>4
  <2>5. CASE Desk!Done(c) /\ joiner' = [joiner EXCEPT ![Desk!It(c).who].code = Desk!It(c).code]
    <3>1. joiner' = [joiner EXCEPT ![p] = e] /\ (e.st # "none" => login[p] = "staff")
      BY <1>1, <2>2, <2>3, <2>5 DEF Desk!Employed
    <3>2. /\ Desk!Runs(c, "recode") /\ Desk!Done(c) /\ UNCHANGED login /\ UNCHANGED onb
          /\ (Desk!Employed(p) => e.st # "none") /\ p = Desk!It(c).who
      BY <2>1, <2>2, <2>3, <2>5 DEF Desk!Employed
    <3>3. QED
      BY <1>5a, <2>3, <3>1, <3>2
  <2>6. QED
    BY <2>1, <2>4, <2>5
<1>9. ASSUME NEW do \in {"unlogin", "login"}, Desk!Runs(c, do), Desk!Done(c),
             UNCHANGED <<joiner, onb>>, NEW l \in Desk!User,
             login' = [login EXCEPT ![Desk!It(c).who] = l], login[Desk!It(c).who] # "staff"
      PROVE  DeskInv' /\ Desk!StaffStays
  <2>1. PICK p \in People : p = Desk!It(c).who
    BY <1>2, <1>9, JoiningParts
  <2>2. joiner' = [joiner EXCEPT ![p] = joiner[p]]
    BY <1>5, <1>9
  <2>3. joiner[p].st = "none"
    BY <1>1, <1>9, <2>1 DEF Desk!Employed
  <2>4. QED
    BY <1>4, <1>5, <1>9, <2>1, <2>2, <2>3 DEF Desk!Employed
<1>10. CASE Desk!DeleteLogin(c)
  <2>1. /\ Desk!Runs(c, "unlogin") /\ UNCHANGED <<joiner, onb>>
        /\ \/ /\ login[Desk!It(c).who] \in {"bare", "student"} /\ Desk!Done(c)
              /\ login' = [login EXCEPT ![Desk!It(c).who] = "none"]
           \/ Desk!Fails(c) /\ UNCHANGED login
    BY <1>10 DEF Desk!DeleteLogin
  <2>2. QED
    BY <1>3, <1>9, <2>1 DEF Desk!User
<1>11. CASE Desk!CreateLogin(c)
  <2>1. /\ Desk!Runs(c, "login") /\ UNCHANGED <<joiner, onb>>
        /\ \/ /\ login[Desk!It(c).who] = "none" /\ Desk!Done(c)
              /\ login' = [login EXCEPT ![Desk!It(c).who] = "bare"]
           \/ Desk!Fails(c) /\ UNCHANGED login
    BY <1>11 DEF Desk!CreateLogin
  <2>2. QED
    BY <1>3, <1>9, <2>1 DEF Desk!User
<1>12. CASE Desk!EmployRow(c)
  <2> DEFINE p == Desk!It(c).who
             e == [code |-> Desk!It(c).code, st |-> "ACTIVE", filled |-> FALSE]
  <2>1. /\ Desk!Runs(c, "employ") /\ UNCHANGED onb
        /\ \/ /\ login[p] = "bare" /\ Desk!Done(c)
              /\ login' = [login EXCEPT ![p] = "staff"] /\ joiner' = [joiner EXCEPT ![p] = e]
           \/ Desk!Fails(c) /\ UNCHANGED <<login, joiner>>
    BY <1>12 DEF Desk!EmployRow, Desk!Hired
  <2>2. p \in People /\ Desk!It(c).code \in Code
    BY <1>2, <2>1, JoiningParts
  <2>3. e \in Desk!Employee /\ e.st = "ACTIVE"
    BY <2>2 DEF Desk!Employee, Desk!Status, Code
  <2>4. "staff" \in Desk!User
    BY DEF Desk!User
  <2>5. login[p] = "bare" => ~Desk!Employed(p)
    BY <1>1, <2>2
  <2> HIDE DEF e
  <2>6. CASE Desk!Fails(c) /\ UNCHANGED <<login, joiner>>
    BY <1>3, <2>1, <2>6
  <2>7. CASE /\ login[p] = "bare" /\ Desk!Done(c)
             /\ login' = [login EXCEPT ![p] = "staff"] /\ joiner' = [joiner EXCEPT ![p] = e]
    BY <1>4, <2>1, <2>2, <2>3, <2>4, <2>5, <2>7
  <2>8. QED
    BY <2>1, <2>6, <2>7
<1>13. QED
  BY <1>6, <1>7, <1>8, <1>10, <1>11, <1>12

LEMMA GoesOn ==
  ASSUME DeskInv, UNCHANGED <<duty, login, joiner, onb, paper, letter, crashed>>,
         NEW c \in Calls, NEW do, Desk!Runs(c, do), NEW todo, Good(todo), Desk!Goes(c, todo)
  PROVE  DeskInv' /\ Desk!StaffStays
<1>1. TablesInv' /\ Grows /\ CodesStay
  BY SameTables
<1>2. todo \in Seq(Statement) /\ Employing(todo)' /\ (Alone => Verifying(todo)')
  BY DEF Good, Employing, Verifying, Desk!Employed
<1>3. QED
  BY <1>1, <1>2, WentOn

(* A row of a sheet: login, employee and request, then the next row. *)
LEMMA RowGood ==
  ASSUME NEW p \in People, NEW n \in Code, NEW b \in Seq(Statement),
         b = <<>> \/ \E r \in Statement : b = <<r>> /\ r.do = "row"
  PROVE  Good(<<[do |-> "login", who |-> p], [do |-> "employ", who |-> p, code |-> n],
                [do |-> "file", row |-> Desk!Own(p)]>> \o b)
<1> DEFINE x == [do |-> "login", who |-> p]
           y == [do |-> "employ", who |-> p, code |-> n]
           z == [do |-> "file", row |-> Desk!Own(p)]
           a == <<x, y, z>>
<1>1. x \in Statement /\ y \in Statement
  BY DEF Statement, JoiningStatement
<1>2. z \in Statement
  BY DEF Statement, JoiningStatement, Filed, Desk!OnboardingRequest, Desk!Own
<1>3. /\ x.do = "login" /\ y.do = "employ" /\ y.who = p
      /\ z.do = "file" /\ z.row.link = p
  BY DEF Desk!Own
<1> HIDE DEF x, y, z
<1>4. a \in Seq(Statement) /\ Len(a) = 3 /\ a[1] = x /\ a[2] = y /\ a[3] = z
  BY <1>1, <1>2
<1> HIDE DEF a
<1>5. /\ a \o b \in Seq(Statement) /\ Len(a \o b) = 3 + Len(b)
      /\ \A i \in 1 .. 3 + Len(b) : (a \o b)[i] = IF i <= 3 THEN a[i] ELSE b[i - 3]
  <2>1. /\ a \o b \in Seq(Statement) /\ Len(a \o b) = Len(a) + Len(b)
        /\ \A i \in 1 .. Len(a) + Len(b) :
             (a \o b)[i] = IF i <= Len(a) THEN a[i] ELSE b[i - Len(a)]
    BY <1>4, ConcatProperties
  <2>2. QED
    BY <1>4, <2>1
<1>6. PICK v \in Seq(Statement) : v = a \o b
  BY <1>5
<1>7. Len(b) \in {0, 1} /\ (Len(b) = 1 => b[1].do = "row")
  <2>1. Len(<<>>) = 0 /\ \A r : Len(<<r>>) = 1 /\ <<r>>[1] = r
    OBVIOUS
  <2>2. CASE b = <<>>
    BY <2>1, <2>2
  <2>3. CASE \E r \in Statement : b = <<r>> /\ r.do = "row"
    <3>1. PICK r \in Statement : b = <<r>> /\ r.do = "row"
      BY <2>3
    <3>2. QED
      BY <2>1, <3>1
  <2>4. QED
    BY <2>2, <2>3
<1>8. /\ DOMAIN v = 1 .. 3 + Len(b) /\ v[1] = x /\ v[2] = y /\ v[3] = z
      /\ \A i \in DOMAIN v : i \in {1, 2, 3} \/ (i = 4 /\ v[i] = b[1] /\ Len(b) = 1)
  <2>1. Len(v) = 3 + Len(b) /\ DOMAIN v = 1 .. 3 + Len(b) /\ Len(b) \in {0, 1}
    BY <1>5, <1>6, <1>7
  <2>2. \A i \in DOMAIN v : v[i] = IF i <= 3 THEN a[i] ELSE b[i - 3]
    BY <1>5, <1>6, <2>1
  <2>3. 1 \in DOMAIN v /\ 2 \in DOMAIN v /\ 3 \in DOMAIN v
    BY <2>1
  <2>4. v[1] = x /\ v[2] = y /\ v[3] = z
    BY <1>4, <2>2, <2>3
  <2>5. ASSUME NEW i \in DOMAIN v, i \notin {1, 2, 3}
        PROVE  i = 4 /\ v[i] = b[1] /\ Len(b) = 1
    <3>1. PICK k \in {0, 1} : k = Len(b)
      BY <2>1
    <3>2. i \in 1 .. 3 + k
      BY <2>1, <3>1
    <3>3. k = 1 /\ i = 4
      BY <2>5, <3>2
    <3>4. v[i] = b[i - 3] /\ i - 3 = 1
      BY <2>2, <3>3
    <3>5. QED
      BY <3>1, <3>3, <3>4
  <2>6. ASSUME NEW i \in DOMAIN v
        PROVE  i \in {1, 2, 3} \/ (i = 4 /\ v[i] = b[1] /\ Len(b) = 1)
    <3>1. CASE i \in {1, 2, 3}
      BY <3>1
    <3>2. CASE i \notin {1, 2, 3}
      BY <2>5, <3>2
    <3>3. QED
      BY <3>1, <3>2
  <2>7. QED
    BY <2>1, <2>4, <2>6
<1>10. Employing(v)
  <2>1. ASSUME NEW i \in DOMAIN v
        PROVE  /\ v[i].do \in {"status", "link"} => Desk!Employed(v[i].who)
               /\ v[i].do = "file" /\ v[i].row.link # Nobody =>
                    \/ Desk!Employed(v[i].row.link)
                    \/ i > 1 /\ v[i - 1].do = "employ" /\ v[i - 1].who = v[i].row.link
    <3>1. CASE i = 3
      <4>1. v[i - 1] = y /\ v[i] = z /\ i > 1
        BY <1>8, <3>1
      <4>2. QED
        BY <1>3, <4>1
    <3>2. CASE i # 3
      <4>1. v[i].do \in {"login", "employ", "row"}
        BY <1>3, <1>7, <1>8, <3>2
      <4>2. QED
        BY <4>1
    <3>3. QED
      BY <3>1, <3>2
  <2>2. QED
    BY <2>1 DEF Employing
<1>11. Verifying(v)
  <2>1. \A i \in DOMAIN v : v[i].do \in {"login", "employ", "file", "row"}
    BY <1>3, <1>7, <1>8
  <2>2. QED
    BY <2>1 DEF Verifying
<1>12. QED
  BY <1>6, <1>10, <1>11 DEF Good, a, x, y, z

(* The statements that read, and the transaction of a hire. *)
LEMMA HiringStatements ==
  ASSUME DeskInv, UNCHANGED <<duty, paper, letter, crashed>>, NEW c \in Calls,
         \/ Desk!LookUp(c) \/ Desk!NextEmployeeCode(c) \/ Desk!EnterEmployee(c)
         \/ Desk!ReadSheet(c) \/ Desk!SheetRow(c)
  PROVE  DeskInv' /\ Desk!StaffStays
<1>1. /\ login \in [People -> Desk!User] /\ joiner \in [People -> Desk!Employee]
      /\ \A p \in People : Desk!Employed(p) => login[p] = "staff"
  BY DEF DeskInv, DeskTyped, EmployedInv, Desk!JoiningTypeOK
<1>2. ASSUME NEW do, Desk!Runs(c, do)
      PROVE  Desk!It(c) \in Statement /\ Desk!It(c).do = do
  BY <1>2, Running DEF DeskInv
<1>3. ASSUME NEW do, Desk!Runs(c, do), NEW todo, Good(todo), Desk!Goes(c, todo),
             UNCHANGED <<login, joiner, onb>>
      PROVE  DeskInv' /\ Desk!StaffStays
  BY <1>3, GoesOn
<1>4. Good(<<>>)
  BY Sequences DEF Good, Employing, Verifying
<1>5. CASE Desk!LookUp(c)
  <2>1. Desk!Runs(c, "lookup") /\ UNCHANGED <<login, joiner, onb>>
    BY <1>5 DEF Desk!LookUp, Desk!joining
  <2>2. PICK f \in Files, p \in People : f = Desk!It(c).f /\ p = Desk!It(c).who
    BY <1>2, <2>1, JoiningParts
  <2> DEFINE s == [do |-> "unlogin", who |-> p]
             t == Desk!Hiring(f, p, "ON_PROBATION")
  <2>3. s \in Statement /\ t \in Statement /\ s.do = "unlogin" /\ t.do = "code"
    BY DEF Statement, JoiningStatement, Desk!Hiring, Desk!Status
  <2>4. \/ Desk!Goes(c, <<>>)
        \/ Desk!Goes(c, (IF login[p] = "none" THEN <<>> ELSE <<s>>) \o <<t>>)
    BY <1>5, <2>2 DEF Desk!LookUp, Desk!Fails
  <2> HIDE DEF s, t
  <2>5. Good(<<s>> \o <<t>>)
    BY <2>3, TwoGood
  <2>6. <<>> \o <<t>> = <<t>> /\ Good(<<t>>)
    <3>1. <<>> \o <<t>> = <<t>>
      BY <2>3, EmptyAside
    <3>2. Good(<<t>>)
      BY <2>3, OneGood
    <3>3. QED
      BY <3>1, <3>2
  <2>7. \/ Desk!Goes(c, <<>>) \/ Desk!Goes(c, <<t>>) \/ Desk!Goes(c, <<s>> \o <<t>>)
    BY <2>4, <2>6
  <2>8. QED
    BY <1>3, <1>4, <2>1, <2>5, <2>6, <2>7
<1>6. CASE Desk!NextEmployeeCode(c)
  <2> DEFINE it == Desk!It(c)
             s == [do |-> "enter", f |-> it.f, who |-> it.who, st |-> it.st,
                   code |-> Desk!NextCode]
  <2>1. /\ Desk!Runs(c, "code") /\ Desk!NextCode <= MaxCode /\ Desk!Goes(c, <<s>>)
        /\ UNCHANGED <<login, joiner, onb>>
    BY <1>6 DEF Desk!NextEmployeeCode, Desk!joining
  <2>2. it.f \in Files \cup {0} /\ it.who \in People /\ it.st \in Desk!Status
    BY <1>2, <2>1, JoiningParts
  <2>3. Desk!NextCode \in Code
    BY <2>1, NextCodeTyped
  <2>4. s \in Statement /\ s.do = "enter"
    BY <2>2, <2>3 DEF Statement, JoiningStatement
  <2> HIDE DEF s
  <2>5. Good(<<s>>)
    BY <2>4, OneGood
  <2>6. QED
    BY <1>3, <2>1, <2>5
<1>7. CASE Desk!EnterEmployee(c)
  <2>1. Desk!Runs(c, "enter") /\ UNCHANGED onb
    BY <1>7 DEF Desk!EnterEmployee
  <2>2. PICK f \in Files \cup {0}, p \in People, st \in Desk!Status, n \in Code :
          f = Desk!It(c).f /\ p = Desk!It(c).who /\ st = Desk!It(c).st /\ n = Desk!It(c).code
    BY <1>2, <2>1, JoiningParts
  <2> DEFINE e == [code |-> n, st |-> st, filled |-> FALSE]
             s == [do |-> "link", f |-> f, who |-> p]
  <2>3. \/ Desk!Goes(c, <<>>) /\ UNCHANGED <<login, joiner>>
        \/ /\ login[p] = "none"
           /\ login' = [login EXCEPT ![p] = "staff"] /\ joiner' = [joiner EXCEPT ![p] = e]
           /\ Desk!Goes(c, IF f = 0 THEN <<>> ELSE <<s>>)
    BY <1>7, <2>2 DEF Desk!EnterEmployee, Desk!Hired, Desk!Fails
  <2>4. CASE Desk!Goes(c, <<>>) /\ UNCHANGED <<login, joiner>>
    BY <1>3, <1>4, <2>1, <2>4
  <2>5. CASE /\ login[p] = "none"
             /\ login' = [login EXCEPT ![p] = "staff"] /\ joiner' = [joiner EXCEPT ![p] = e]
             /\ Desk!Goes(c, IF f = 0 THEN <<>> ELSE <<s>>)
    <3>1. e \in Desk!Employee /\ e.st = st /\ st # "none" /\ "staff" \in Desk!User
      BY DEF Desk!Employee, Desk!User, Code, Desk!Status
    <3>2. ~Desk!Employed(p)
      BY <1>1, <2>5
    <3> HIDE DEF e
    <3>3. TablesInv' /\ Grows /\ CodesStay
      BY <2>1, <2>5, <3>1, <3>2, PersonEdited
    <3>4. Desk!Employed(p)'
      BY <1>1, <2>5, <3>1 DEF Desk!Employed
    <3>5. CASE f = 0
      <4>1. Employing(<<>>)' /\ Verifying(<<>>)' /\ <<>> \in Seq(Statement)
        BY Sequences DEF Employing, Verifying
      <4>2. QED
        BY <2>1, <2>5, <3>3, <3>5, <4>1, WentOn
    <3>6. CASE f # 0
      <4>1. s \in Statement /\ s.do = "link" /\ s.who = p
        BY <3>6 DEF Statement, JoiningStatement
      <4> HIDE DEF s
      <4>2. <<s>> \in Seq(Statement) /\ DOMAIN <<s>> = {1} /\ <<s>>[1] = s
        BY <4>1, Sequences
      <4>3. PICK todo \in Seq(Statement) : todo = <<s>>
        BY <4>2
      <4>4. Employing(todo)' /\ Verifying(todo)'
        BY <3>4, <4>1, <4>2, <4>3 DEF Employing, Verifying
      <4>5. Desk!Goes(c, todo)
        BY <2>5, <3>6, <4>3
      <4>6. QED
        BY <2>1, <3>3, <4>4, <4>5, WentOn
    <3>7. QED
      BY <3>5, <3>6
  <2>6. QED
    BY <2>3, <2>4, <2>5
<1>8. CASE Desk!ReadSheet(c)
  <2> DEFINE s == [do |-> "row", left |-> Desk!It(c).left, code |-> Desk!NextCode]
  <2>1. Desk!Runs(c, "sheet") /\ Desk!Goes(c, <<s>>) /\ UNCHANGED <<login, joiner, onb>>
    BY <1>8 DEF Desk!ReadSheet, Desk!joining
  <2>2. Desk!It(c).left \in Seq(People) \ {<<>>} /\ Desk!NextCode \in Nat
    BY <1>2, <2>1, JoiningParts, NextCodeTyped
  <2>3. s \in Statement /\ s.do = "row"
    BY <2>2 DEF Statement, JoiningStatement
  <2> HIDE DEF s
  <2>4. Good(<<s>>)
    BY <2>3, OneGood
  <2>5. QED
    BY <1>3, <2>1, <2>4
<1>9. CASE Desk!SheetRow(c)
  <2>1. Desk!Runs(c, "row") /\ UNCHANGED <<login, joiner, onb>> /\ Desk!It(c).code <= MaxCode
    BY <1>9 DEF Desk!SheetRow, Desk!joining
  <2>2. PICK left \in Seq(People) \ {<<>>}, n \in Nat :
          left = Desk!It(c).left /\ n = Desk!It(c).code
    BY <1>2, <2>1, JoiningParts
  <2> DEFINE p == Head(left)
             r(code) == [do |-> "row", left |-> Tail(left), code |-> code]
             rows(code) == IF Len(left) = 1 THEN <<>> ELSE <<r(code)>>
  <2>3. \/ Desk!Goes(c, rows(n))
        \/ Desk!Goes(c, <<[do |-> "login", who |-> p], [do |-> "employ", who |-> p, code |-> n],
                          [do |-> "file", row |-> Desk!Own(p)]>> \o rows(n + 1))
    BY <1>9, <2>2 DEF Desk!SheetRow
  <2>4. p \in People /\ n \in Code /\ n + 1 \in Nat
    <3>1. MaxCode \in Nat
      BY DeskDuty DEF DeskInv, DeskTyped
    <3>2. QED
      BY <2>1, <2>2, <3>1 DEF Code
  <2>5. Len(left) # 1 => Tail(left) \in Seq(People) \ {<<>>}
    <3>1. Len(left) \in Nat /\ Len(left) >= 1 /\ left \in Seq(People)
      OBVIOUS
    <3>2. Tail(left) \in Seq(People) /\ Len(Tail(left)) = Len(left) - 1
      BY <3>1
    <3>3. ASSUME Len(left) # 1
          PROVE  Tail(left) # <<>>
      <4>1. Len(Tail(left)) # 0
        BY <3>1, <3>2, <3>3
      <4>2. Len(<<>>) = 0
        OBVIOUS
      <4>3. QED
        BY <4>1, <4>2, Zenon
    <3>4. QED
      BY <3>2, <3>3, Zenon
  <2>6. \A k \in Nat : Len(left) # 1 => r(k) \in Statement /\ r(k).do = "row"
    BY <2>5 DEF Statement, JoiningStatement
  <2> HIDE DEF r, p
  <2>7. ASSUME NEW k \in Nat
        PROVE  /\ rows(k) = <<>> \/ \E x \in Statement : rows(k) = <<x>> /\ x.do = "row"
               /\ rows(k) \in Seq(Statement) /\ Good(rows(k))
    <3>1. CASE Len(left) = 1
      BY <1>4, <3>1, Sequences
    <3>2. CASE Len(left) # 1
      <4>1. r(k) \in Statement /\ r(k).do = "row"
        BY <2>6, <3>2
      <4>2. Good(<<r(k)>>)
        BY <4>1, OneGood
      <4>3. QED
        BY <3>2, <4>1, <4>2, Sequences
    <3>3. QED
      BY <3>1, <3>2
  <2> HIDE DEF rows
  <2>8. Good(<<[do |-> "login", who |-> p], [do |-> "employ", who |-> p, code |-> n],
               [do |-> "file", row |-> Desk!Own(p)]>> \o rows(n + 1))
    BY <2>4, <2>7, RowGood
  <2>9. QED
    BY <1>3, <2>1, <2>3, <2>7, <2>8
<1>10. QED
  BY <1>5, <1>6, <1>7, <1>8, <1>9

-----------------------------------------------------------------------------
(* The statements on papers.                                               *)

(* A finite set of numbers has a largest: of one that had none, with as    *)
(* few elements as possible, drop one.                                     *)
LEMMA FiniteLargest ==
  ASSUME NEW S \in SUBSET Nat, IsFiniteSet(S), S # {}
  PROVE  \E n \in S : \A m \in S : m <= n
<1> DEFINE Big(T) == \E n \in T : \A m \in T : m <= n
           Bad == {k \in Nat : \E T \in SUBSET Nat :
                     IsFiniteSet(T) /\ T # {} /\ ~Big(T) /\ Cardinality(T) = k}
<1>1. SUFFICES ASSUME ~Big(S)
               PROVE  FALSE
  OBVIOUS
<1>2. Cardinality(S) \in Bad
  BY <1>1, FS_CardinalityType
<1>3. PICK k \in Bad : \A j \in Bad : k <= j
  BY <1>2, SmallestOf
<1>4. PICK T \in SUBSET Nat : IsFiniteSet(T) /\ T # {} /\ ~Big(T) /\ Cardinality(T) = k
  BY <1>3
<1>5. PICK x \in T : TRUE
  BY <1>4
<1>6. IsFiniteSet(T \ {x}) /\ Cardinality(T \ {x}) = k - 1 /\ k \in Nat
  BY <1>3, <1>4, <1>5, FS_RemoveElement
<1>7. T \ {x} # {}
  BY <1>4, <1>5
<1>8. Big(T \ {x})
  <2>1. SUFFICES ASSUME ~Big(T \ {x})
                 PROVE  FALSE
    OBVIOUS
  <2>2. T \ {x} \in SUBSET Nat
    OBVIOUS
  <2>3. k - 1 \in Nat
    BY <1>6, FS_CardinalityType
  <2>4. k - 1 \in Bad
    BY <1>6, <1>7, <2>1, <2>2, <2>3
  <2>5. QED
    BY <1>3, <1>6, <2>4
<1>9. PICK n \in T \ {x} : \A m \in T \ {x} : m <= n
  BY <1>8
<1>10. n \in Nat /\ x \in Nat /\ n \in T
  BY <1>9
<1>11. CASE x <= n
  <2>1. \A m \in T : m <= n
    BY <1>9, <1>11
  <2>2. QED
    BY <1>4, <1>10, <2>1
<1>12. CASE n <= x
  <2>1. \A m \in T : m <= x
    <3>1. ASSUME NEW m \in T
          PROVE  m <= x
      <4>1. m = x \/ m <= n
        BY <1>9
      <4>2. m \in Nat
        BY <1>4
      <4>3. QED
        BY <1>10, <1>12, <4>1, <4>2
    <3>2. QED
      BY <3>1
  <2>2. QED
    BY <1>4, <2>1
<1>13. QED
  BY <1>10, <1>11, <1>12

(* The latest upload has a number. *)
LEMMA NewestTyped ==
  ASSUME DeskInv, NEW p \in People, NEW d \in Slots
  PROVE  Desk!Newest(p) \in Nat
<1> DEFINE S == {paper[p][e].file : e \in Slots}
<1>1. \A e \in Slots : paper[p][e].file \in Nat
  BY DEF DeskInv, DeskTyped, Desk!PapersTypeOK, Desk!Document
<1>2. S \in SUBSET Nat /\ S # {}
  BY <1>1
<1>3. IsFiniteSet(S)
  <2>1. [e \in Slots |-> paper[p][e].file] \in Surjection(Slots, S)
    BY DEF Surjection
  <2>2. QED
    BY <2>1, Finite, FS_Surjection
<1>4. \E n \in S : \A m \in S : m <= n
  BY <1>2, <1>3, FiniteLargest
<1>5. \E n \in S : \A e \in Slots : paper[p][e].file <= n
  BY <1>4
<1>6. (CHOOSE n \in S : \A e \in Slots : paper[p][e].file <= n) \in S
  BY <1>5
<1>7. QED
  BY <1>2, <1>6 DEF Desk!Newest

(* One row of one person's documents changes. *)
LEMMA PaperWritten ==
  ASSUME DeskInv, UNCHANGED <<duty, login, joiner, onb, letter, crashed>>,
         NEW c \in Calls, NEW do, Desk!Runs(c, do), do # "employ", Desk!Done(c),
         NEW p \in People, NEW d \in Slots, NEW doc \in Desk!Document,
         paper' = [paper EXCEPT ![p][d] = doc],
         doc.verified => paper[p][d].verified \/ do = "verify",
         Alone /\ paper[p][d].st = "there" /\ paper[p][d].verified =>
           doc.st = "there" /\ doc.file = paper[p][d].file
  PROVE  DeskInv' /\ Desk!StaffStays /\ Desk!VerifiedStays
<1>1. paper \in [People -> [Slots -> Desk!Document]] /\ Desk!JoiningTypeOK
      /\ letter \in [People -> Desk!AppointmentLetter] /\ TablesInv
  BY DEF DeskInv, DeskTyped, EmployedInv, TablesInv, Desk!PapersTypeOK
<1> DEFINE col == [paper[p] EXCEPT ![d] = doc]
<1>2. col \in [Slots -> Desk!Document] /\ col[d] = doc
      /\ \A e \in Slots : e # d => col[e] = paper[p][e]
  BY <1>1
<1>3. paper' = [paper EXCEPT ![p] = col]
  OBVIOUS
<1> HIDE DEF col
<1>4. paper' \in [People -> [Slots -> Desk!Document]] /\ paper'[p] = col
      /\ \A q \in People : q # p => paper'[q] = paper[q]
  BY <1>1, <1>2, <1>3
<1>5. paper'[p][d] = doc
      /\ \A q \in People, e \in Slots : q # p \/ e # d => paper'[q][e] = paper[q][e]
  BY <1>2, <1>4
<1>6. TablesInv'
  BY <1>1, <1>4 DEF TablesInv, Desk!JoiningTypeOK, Desk!PapersTypeOK, Desk!Live, Desk!Employed
<1>7. Grows /\ CodesStay
  BY DEF Grows, CodesStay, Desk!Employed
<1>8. do = "verify" \/ NoneVerified
  BY <1>5 DEF NoneVerified
<1>9. DeskInv' /\ Desk!StaffStays
  BY <1>6, <1>7, <1>8, WentRest
<1>10. Desk!VerifiedStays
  <2>1. SUFFICES ASSUME Desk!Serial, Desk!Unused({"superAdmin"}), NEW q \in People,
                        NEW e \in Desk!There(q), paper[q][e].verified
                 PROVE  paper'[q][e].st = "there" /\ paper'[q][e].file = paper[q][e].file
    BY DEF Desk!VerifiedStays
  <2>2. Alone /\ e \in Slots /\ paper[q][e].st = "there"
    BY <2>1 DEF Alone, Desk!Unused, Desk!There
  <2>3. CASE q = p /\ e = d
    BY <1>5, <2>1, <2>2, <2>3
  <2>4. CASE q # p \/ e # d
    BY <1>5, <2>2, <2>4
  <2>5. QED
    BY <2>3, <2>4
<1>11. QED
  BY <1>9, <1>10

(* A statement that is refused ends its call. *)
LEMMA Refused ==
  ASSUME DeskInv, UNCHANGED <<duty, login, joiner, onb, paper, letter, crashed>>,
         NEW c \in Calls, NEW do, Desk!Runs(c, do), Desk!Fails(c)
  PROVE  DeskInv' /\ Desk!StaffStays /\ Desk!VerifiedStays
<1>1. Good(<<>>)
  BY Sequences DEF Good, Employing, Verifying
<1>2. DeskInv' /\ Desk!StaffStays
  BY <1>1, GoesOn DEF Desk!Fails
<1>3. Desk!VerifiedStays
  BY DEF Desk!VerifiedStays, Desk!There
<1>4. QED
  BY <1>2, <1>3

LEMMA DocumentEdited ==
  ASSUME NEW r \in Desk!Document, NEW n \in Nat, NEW b \in BOOLEAN
  PROVE  /\ [r EXCEPT !.file = n, !.stored = TRUE] \in Desk!Document
         /\ [r EXCEPT !.stored = FALSE] \in Desk!Document
         /\ [r EXCEPT !.verified = TRUE, !.seen = n] \in Desk!Document
         /\ [r EXCEPT !.original = b] \in Desk!Document
         /\ [r EXCEPT !.st = "deleted"] \in Desk!Document
BY DEF Desk!Document

LEMMA DocumentSame ==
  ASSUME NEW r \in Desk!Document, NEW n, NEW b
  PROVE  /\ [r EXCEPT !.file = n, !.stored = TRUE].verified = r.verified
         /\ [r EXCEPT !.stored = FALSE].verified = r.verified
         /\ [r EXCEPT !.stored = FALSE].st = r.st
         /\ [r EXCEPT !.stored = FALSE].file = r.file
         /\ [r EXCEPT !.verified = TRUE, !.seen = n].st = r.st
         /\ [r EXCEPT !.verified = TRUE, !.seen = n].file = r.file
         /\ [r EXCEPT !.original = b].verified = r.verified
         /\ [r EXCEPT !.original = b].st = r.st
         /\ [r EXCEPT !.original = b].file = r.file
         /\ [r EXCEPT !.st = "deleted"].verified = r.verified
BY DEF Desk!Document

LEMMA DocumentMade ==
  ASSUME NEW scan \in BOOLEAN, NEW n \in Nat
  PROVE  LET doc == [Desk!NoDocument EXCEPT !.st = "there", !.original = ~scan,
                       !.stored = scan, !.file = n]
         IN  doc \in Desk!Document /\ ~doc.verified
BY DEF Desk!NoDocument, Desk!Document

LEMMA LetterEdited ==
  ASSUME NEW r \in Desk!AppointmentLetter, NEW n \in Nat, NEW k \in 0 .. 2,
         NEW st \in Desk!AppointmentLetterStatus \cup {"removed"}
  PROVE  /\ [r EXCEPT !.st = "DRAFT", !.text = @ + 1] \in Desk!AppointmentLetter
         /\ [r EXCEPT !.st = st] \in Desk!AppointmentLetter
         /\ [r EXCEPT !.mailed = n, !.mails = k] \in Desk!AppointmentLetter
<1>1. [r EXCEPT !.st = "DRAFT", !.text = @ + 1] \in Desk!AppointmentLetter
  <2>1. "DRAFT" \in Desk!AppointmentLetterStatus \cup {"none", "removed"} /\ r.text + 1 \in Nat
    BY DEF Desk!AppointmentLetter, Desk!AppointmentLetterStatus
  <2>2. [r EXCEPT !.st = "DRAFT", !.text = @ + 1] = [r EXCEPT !.st = "DRAFT", !.text = r.text + 1]
    BY DEF Desk!AppointmentLetter
  <2>3. QED
    BY <2>1, <2>2 DEF Desk!AppointmentLetter
<1>2. [r EXCEPT !.st = st] \in Desk!AppointmentLetter
  BY DEF Desk!AppointmentLetter
<1>3. [r EXCEPT !.mailed = n, !.mails = k] \in Desk!AppointmentLetter
  BY DEF Desk!AppointmentLetter
<1>4. QED
  BY <1>1, <1>2, <1>3

LEMMA PaperStatements ==
  ASSUME DeskInv, UNCHANGED <<duty, crashed>>, NEW c \in Calls,
         \/ Desk!Attach(c) \/ Desk!Replace(c) \/ Desk!Unstore(c) \/ Desk!Verify(c)
         \/ Desk!StoreOriginal(c) \/ Desk!Drop(c)
  PROVE  DeskInv' /\ Desk!StaffStays /\ Desk!VerifiedStays
<1>1. \A p \in People, d \in Slots : paper[p][d] \in Desk!Document
  BY DEF DeskInv, DeskTyped, Desk!PapersTypeOK
<1>2. ASSUME NEW do, Desk!Runs(c, do)
      PROVE  Desk!It(c) \in Statement /\ Desk!It(c).do = do
  BY <1>2, Running DEF DeskInv
<1>3. ASSUME NEW do \in {"replace", "unstore", "verify", "original", "drop"}, NEW doc,
             NEW p \in People, NEW d \in Slots, p = Desk!It(c).p, d = Desk!It(c).d,
             Desk!OnRow(c, do, doc), doc \in Desk!Document,
             doc.verified => paper[p][d].verified \/ do = "verify",
             Alone /\ paper[p][d].verified => doc.st = paper[p][d].st
                                              /\ doc.file = paper[p][d].file
      PROVE  DeskInv' /\ Desk!StaffStays /\ Desk!VerifiedStays
  <2>1. /\ Desk!Runs(c, do) /\ UNCHANGED <<login, joiner, onb, letter>>
        /\ \/ Desk!Done(c) /\ paper' = [paper EXCEPT ![p][d] = doc]
           \/ Desk!Fails(c) /\ UNCHANGED paper
    BY <1>3 DEF Desk!OnRow, Desk!joining
  <2>2. CASE Desk!Fails(c) /\ UNCHANGED paper
    BY <2>1, <2>2, Refused
  <2>3. CASE Desk!Done(c) /\ paper' = [paper EXCEPT ![p][d] = doc]
    <3>1. Alone /\ paper[p][d].st = "there" /\ paper[p][d].verified =>
            doc.st = "there" /\ doc.file = paper[p][d].file
      BY <1>3
    <3>2. QED
      BY <1>3, <2>1, <2>3, <3>1, PaperWritten
  <2>4. QED
    BY <2>1, <2>2, <2>3
<1>4. ASSUME NEW do \in {"replace", "unstore", "verify", "original", "drop"}, Desk!Runs(c, do)
      PROVE  Desk!It(c).p \in People /\ Desk!It(c).d \in Slots
  BY <1>2, <1>4, PapersParts
<1>5. CASE Desk!Attach(c)
  <2> DEFINE p == Desk!It(c).p
             free == {d \in Slots : paper[p][d].st = "none"}
             d0 == CHOOSE d \in free : \A e \in free : d <= e
             n0 == IF Desk!It(c).scan THEN Desk!Newest(p) + 1 ELSE 0
             doc == [Desk!NoDocument EXCEPT !.st = "there", !.original = ~Desk!It(c).scan,
                                            !.stored = Desk!It(c).scan, !.file = n0]
  <2>1. /\ Desk!Runs(c, "attach") /\ Desk!Done(c) /\ free # {}
        /\ paper' = [paper EXCEPT ![p][d0] = doc]
        /\ UNCHANGED <<login, joiner, onb, letter>>
    BY <1>5 DEF Desk!Attach, Desk!joining
  <2>2. p \in People /\ Desk!It(c).scan \in BOOLEAN
    BY <1>2, <2>1, PapersParts
  <2>3. d0 \in Slots /\ paper[p][d0].st = "none"
    <3>1. free \in SUBSET Nat
      BY DeskDuty DEF DeskInv, DeskTyped
    <3>2. \E x \in free : \A y \in free : x <= y
      BY <2>1, <3>1, SmallestOf
    <3>3. d0 \in free
      BY <3>2
    <3>4. QED
      BY <3>3
  <2> HIDE DEF p, free, d0
  <2>4. Desk!Newest(p) \in Nat
    BY <2>2, <2>3, NewestTyped
  <2>5. n0 \in Nat
    BY <2>4
  <2>6. doc \in Desk!Document /\ ~doc.verified
    BY <2>2, <2>5, DocumentMade
  <2> HIDE DEF doc
  <2>7. QED
    BY <2>1, <2>2, <2>3, <2>6, PaperWritten
<1>6. CASE Desk!Replace(c)
  <2>1. Desk!Runs(c, "replace")
    BY <1>6 DEF Desk!Replace
  <2>2. PICK p \in People, d \in Slots : p = Desk!It(c).p /\ d = Desk!It(c).d
    BY <1>4, <2>1
  <2>3. PICK n \in Nat : n = Desk!Newest(p) + 1
    BY NewestTyped
  <2> DEFINE doc == [paper[p][d] EXCEPT !.file = n, !.stored = TRUE]
  <2>4. doc \in Desk!Document /\ doc.verified = paper[p][d].verified
    BY <1>1, DocumentEdited, DocumentSame
  <2>5. Desk!OnRow(c, "replace", doc)
    BY <1>6, <2>2, <2>3 DEF Desk!Replace
  <2>6. Alone => ~paper[p][d].verified
    BY <2>1, <2>2, AtHead
  <2> HIDE DEF doc
  <2>7. QED
    BY <1>3, <2>2, <2>4, <2>5, <2>6
<1>7. CASE Desk!Unstore(c)
  <2>1. Desk!Runs(c, "unstore")
    BY <1>7 DEF Desk!Unstore
  <2>2. PICK p \in People, d \in Slots : p = Desk!It(c).p /\ d = Desk!It(c).d
    BY <1>4, <2>1
  <2> DEFINE doc == [paper[p][d] EXCEPT !.stored = FALSE]
  <2>3. /\ doc \in Desk!Document /\ doc.verified = paper[p][d].verified
        /\ doc.st = paper[p][d].st /\ doc.file = paper[p][d].file
    BY <1>1, DocumentEdited, DocumentSame
  <2>4. Desk!OnRow(c, "unstore", doc)
    BY <1>7, <2>2 DEF Desk!Unstore
  <2> HIDE DEF doc
  <2>5. QED
    BY <1>3, <2>2, <2>3, <2>4
<1>8. CASE Desk!Verify(c)
  <2>1. Desk!Runs(c, "verify")
    BY <1>8 DEF Desk!Verify
  <2>2. PICK p \in People, d \in Slots : p = Desk!It(c).p /\ d = Desk!It(c).d
    BY <1>4, <2>1
  <2>3. PICK n \in Nat : n = Desk!It(c).seen
    BY <1>2, <2>1, PapersParts
  <2> DEFINE doc == [paper[p][d] EXCEPT !.verified = TRUE, !.seen = n]
  <2>4. /\ doc \in Desk!Document /\ doc.st = paper[p][d].st /\ doc.file = paper[p][d].file
    BY <1>1, DocumentEdited, DocumentSame
  <2>5. Desk!OnRow(c, "verify", doc)
    BY <1>8, <2>2, <2>3 DEF Desk!Verify
  <2> HIDE DEF doc
  <2>6. QED
    BY <1>3, <2>2, <2>4, <2>5
<1>9. CASE Desk!StoreOriginal(c)
  <2>1. Desk!Runs(c, "original")
    BY <1>9 DEF Desk!StoreOriginal
  <2>2. PICK p \in People, d \in Slots : p = Desk!It(c).p /\ d = Desk!It(c).d
    BY <1>4, <2>1
  <2>3. PICK to \in BOOLEAN : to = Desk!It(c).to
    BY <1>2, <2>1, PapersParts
  <2> DEFINE doc == [paper[p][d] EXCEPT !.original = to]
  <2>4. /\ doc \in Desk!Document /\ doc.verified = paper[p][d].verified
        /\ doc.st = paper[p][d].st /\ doc.file = paper[p][d].file
    BY <1>1, DocumentEdited, DocumentSame
  <2>5. Desk!OnRow(c, "original", doc)
    BY <1>9, <2>2, <2>3 DEF Desk!StoreOriginal
  <2> HIDE DEF doc
  <2>6. QED
    BY <1>3, <2>2, <2>4, <2>5
<1>10. CASE Desk!Drop(c)
  <2>1. Desk!Runs(c, "drop")
    BY <1>10 DEF Desk!Drop
  <2>2. PICK p \in People, d \in Slots : p = Desk!It(c).p /\ d = Desk!It(c).d
    BY <1>4, <2>1
  <2> DEFINE doc == [paper[p][d] EXCEPT !.st = "deleted"]
  <2>3. /\ doc \in Desk!Document /\ doc.verified = paper[p][d].verified
    BY <1>1, DocumentEdited, DocumentSame
  <2>4. Desk!OnRow(c, "drop", doc)
    BY <1>10, <2>2 DEF Desk!Drop
  <2>5. Alone => ~paper[p][d].verified
    BY <2>1, <2>2, AtHead
  <2> HIDE DEF doc
  <2>6. QED
    BY <1>3, <2>2, <2>3, <2>4, <2>5
<1>11. QED
  BY <1>5, <1>6, <1>7, <1>8, <1>9, <1>10

LEMMA LetterWritten ==
  ASSUME DeskInv, UNCHANGED <<duty, login, joiner, onb, paper, crashed>>,
         NEW c \in Calls, NEW do, Desk!Runs(c, do), do \notin {"employ", "verify"},
         Desk!Done(c), NEW p \in People, NEW new \in Desk!AppointmentLetter,
         letter' = [letter EXCEPT ![p] = new]
  PROVE  DeskInv' /\ Desk!StaffStays /\ Desk!VerifiedStays
<1>1. TablesInv'
  BY DEF DeskInv, DeskTyped, EmployedInv, TablesInv, Desk!JoiningTypeOK, Desk!PapersTypeOK,
         Desk!Live, Desk!Employed
<1>2. Grows /\ CodesStay /\ NoneVerified
  BY DEF Grows, CodesStay, NoneVerified, Desk!Employed
<1>3. DeskInv' /\ Desk!StaffStays
  BY <1>1, <1>2, WentRest
<1>4. Desk!VerifiedStays
  BY DEF Desk!VerifiedStays, Desk!There
<1>5. QED
  BY <1>3, <1>4

LEMMA LetterStatements ==
  ASSUME DeskInv, UNCHANGED <<duty, crashed>>, NEW c \in Calls,
         \/ Desk!DraftLetter(c) \/ Desk!WriteText(c) \/ Desk!WriteLetterStatus(c)
         \/ Desk!MailLetter(c) \/ Desk!GenerateAppointmentLetterPDF(c)
  PROVE  DeskInv' /\ Desk!StaffStays /\ Desk!VerifiedStays
<1>1. \A p \in People : letter[p] \in Desk!AppointmentLetter
  BY DEF DeskInv, DeskTyped, Desk!PapersTypeOK
<1>2. ASSUME NEW do, Desk!Runs(c, do)
      PROVE  Desk!It(c) \in Statement /\ Desk!It(c).do = do
  BY <1>2, Running DEF DeskInv
<1>3. ASSUME NEW do \in {"draft", "text", "letter", "mail"}, Desk!Runs(c, do),
             UNCHANGED <<login, joiner, onb, paper>>,
             NEW p \in People, NEW new \in Desk!AppointmentLetter,
             \/ Desk!Done(c) /\ letter' = [letter EXCEPT ![p] = new]
             \/ Desk!Fails(c) /\ UNCHANGED letter
      PROVE  DeskInv' /\ Desk!StaffStays /\ Desk!VerifiedStays
  <2>1. CASE Desk!Done(c) /\ letter' = [letter EXCEPT ![p] = new]
    BY <1>3, <2>1, LetterWritten
  <2>2. CASE Desk!Fails(c) /\ UNCHANGED letter
    BY <1>3, <2>2, Refused
  <2>3. QED
    BY <1>3, <2>1, <2>2
<1>4. CASE Desk!WriteText(c)
  <2>1. Desk!Runs(c, "text")
    BY <1>4 DEF Desk!WriteText
  <2>2. PICK p \in People : p = Desk!It(c).p
    BY <1>2, <2>1, PapersParts
  <2> DEFINE new == [letter[p] EXCEPT !.st = "DRAFT", !.text = @ + 1]
  <2>3. new \in Desk!AppointmentLetter
    <3>1. 0 \in Nat /\ 0 \in 0 .. 2 /\ "removed" \in Desk!AppointmentLetterStatus \cup {"removed"}
      OBVIOUS
    <3>2. QED
      BY <1>1, <3>1, LetterEdited
  <2>4. /\ UNCHANGED <<login, joiner, onb, paper>>
        /\ \/ Desk!Done(c) /\ letter' = [letter EXCEPT ![p] = new]
           \/ Desk!Fails(c) /\ UNCHANGED letter
    BY <1>4, <2>2 DEF Desk!WriteText, Desk!OnLetter, Desk!joining
  <2> HIDE DEF new
  <2>5. QED
    BY <1>3, <2>1, <2>3, <2>4
<1>5. CASE Desk!WriteLetterStatus(c)
  <2>1. Desk!Runs(c, "letter")
    BY <1>5 DEF Desk!WriteLetterStatus
  <2>2. PICK p \in People, st \in Desk!AppointmentLetterStatus \cup {"removed"} :
          p = Desk!It(c).p /\ st = Desk!It(c).st
    BY <1>2, <2>1, PapersParts
  <2> DEFINE new == [letter[p] EXCEPT !.st = st]
  <2>3. new \in Desk!AppointmentLetter
    <3>1. 0 \in Nat /\ 0 \in 0 .. 2
      OBVIOUS
    <3>2. QED
      BY <1>1, <3>1, LetterEdited
  <2>4. /\ UNCHANGED <<login, joiner, onb, paper>>
        /\ \/ Desk!Done(c) /\ letter' = [letter EXCEPT ![p] = new]
           \/ Desk!Fails(c) /\ UNCHANGED letter
    BY <1>5, <2>2 DEF Desk!WriteLetterStatus, Desk!OnLetter, Desk!joining
  <2> HIDE DEF new
  <2>5. QED
    BY <1>3, <2>1, <2>3, <2>4
<1>6. CASE Desk!MailLetter(c)
  <2>1. Desk!Runs(c, "mail")
    BY <1>6 DEF Desk!MailLetter
  <2>2. PICK p \in People, n \in Nat : p = Desk!It(c).p /\ n = Desk!It(c).text
    BY <1>2, <2>1, PapersParts
  <2> DEFINE k == IF letter[p].mails = 0 THEN 1 ELSE 2
             new == [letter[p] EXCEPT !.mailed = n, !.mails = k]
  <2>3. new \in Desk!AppointmentLetter
    <3>1. k \in 0 .. 2 /\ "removed" \in Desk!AppointmentLetterStatus \cup {"removed"}
      OBVIOUS
    <3>2. QED
      BY <1>1, <3>1, LetterEdited
  <2>4. [letter EXCEPT ![p].mailed = n, ![p].mails = IF @ = 0 THEN 1 ELSE 2]
          = [letter EXCEPT ![p] = new]
    BY DEF DeskInv, DeskTyped, Desk!PapersTypeOK, Desk!AppointmentLetter
  <2>5. /\ UNCHANGED <<login, joiner, onb, paper>>
        /\ \/ Desk!Done(c) /\ letter' = [letter EXCEPT ![p].mailed = n,
                                           ![p].mails = IF @ = 0 THEN 1 ELSE 2]
           \/ Desk!Fails(c) /\ UNCHANGED letter
    BY <1>6, <2>2 DEF Desk!MailLetter, Desk!joining
  <2> HIDE DEF new
  <2>6. \/ Desk!Done(c) /\ letter' = [letter EXCEPT ![p] = new]
        \/ Desk!Fails(c) /\ UNCHANGED letter
    BY <2>4, <2>5
  <2>7. UNCHANGED <<login, joiner, onb, paper>>
    BY <2>5
  <2>8. QED
    BY <1>3, <2>1, <2>3, <2>6, <2>7
<1>7. CASE Desk!GenerateAppointmentLetterPDF(c)
  <2>1. Desk!Runs(c, "pdf") /\ UNCHANGED <<login, joiner, onb, paper, letter>>
    BY <1>7 DEF Desk!GenerateAppointmentLetterPDF, Desk!joining, Desk!papers
  <2>2. PICK p \in People, n \in Nat : p = Desk!It(c).p /\ n = letter[p].text
    <3>1. Desk!It(c).p \in People
      BY <1>2, <2>1, PapersParts
    <3>2. QED
      BY <1>1, <3>1 DEF Desk!AppointmentLetter
  <2> DEFINE x == Desk!Letter("APPROVED", p)
             y == [do |-> "mail", p |-> p, text |-> n]
             z == Desk!Letter("SENT", p)
  <2>3. /\ x \in Statement /\ y \in Statement /\ z \in Statement
        /\ x.do = "letter" /\ y.do = "mail" /\ z.do = "letter"
    BY DEF Statement, PapersStatement, Desk!Letter, Desk!AppointmentLetterStatus
  <2>4. Desk!Fails(c) \/ Desk!Goes(c, <<x, y, z>>)
    BY <1>7, <2>2 DEF Desk!GenerateAppointmentLetterPDF
  <2> HIDE DEF x, y, z
  <2>5. Good(<<x, y, z>>)
    <3>1. PICK v \in Seq(Statement) : v = <<x, y, z>> /\ DOMAIN v = {1, 2, 3}
      <4>1. <<x, y, z>> \in Seq(Statement) /\ DOMAIN <<x, y, z>> = {1, 2, 3}
        BY <2>3
      <4>2. QED
        BY <4>1
    <3>2. \A i \in DOMAIN v : v[i].do \in {"letter", "mail"}
      BY <2>3, <3>1
    <3>3. Employing(v) /\ Verifying(v)
      BY <3>2 DEF Employing, Verifying
    <3>4. QED
      BY <3>1, <3>3 DEF Good
  <2>6. CASE Desk!Fails(c)
    BY <2>1, <2>6, Refused
  <2>7. CASE Desk!Goes(c, <<x, y, z>>)
    <3>1. DeskInv' /\ Desk!StaffStays
      BY <2>1, <2>5, <2>7, GoesOn
    <3>2. Desk!VerifiedStays
      BY <2>1 DEF Desk!VerifiedStays, Desk!There
    <3>3. QED
      BY <3>1, <3>2
  <2>8. QED
    BY <2>4, <2>6, <2>7
<1>8. CASE Desk!DraftLetter(c)
  <2>1. Desk!Runs(c, "draft") /\ Desk!Done(c) /\ UNCHANGED <<login, joiner, onb, paper>>
    BY <1>8 DEF Desk!DraftLetter, Desk!joining
  <2>2. PICK p \in People : p = Desk!It(c).p
    BY <1>2, <2>1, PapersParts
  <2> DEFINE new == [letter[p] EXCEPT !.st = "DRAFT", !.text = 1]
  <2>3. new \in Desk!AppointmentLetter
    BY <1>1 DEF Desk!AppointmentLetter, Desk!AppointmentLetterStatus
  <2>4. letter' = [letter EXCEPT ![p].st = "DRAFT", ![p].text = 1]
    BY <1>8, <2>2 DEF Desk!DraftLetter
  <2>5. letter' = [letter EXCEPT ![p] = new]
    BY <2>4 DEF DeskInv, DeskTyped, Desk!PapersTypeOK, Desk!AppointmentLetter
  <2> HIDE DEF new
  <2>6. QED
    BY <1>3, <2>1, <2>3, <2>5
<1>9. QED
  BY <1>4, <1>5, <1>6, <1>7, <1>8

-----------------------------------------------------------------------------
(* Every step of the office.                                               *)
LEMMA DeskStays ==
  ASSUME DeskInv, UNCHANGED <<duty, office>>
  PROVE  DeskInv'
<1>1. DeskTyped'
  BY DEF office, DeskInv, DeskTyped, Call, Desk!JoiningTypeOK, Desk!PapersTypeOK, Desk!Live
<1>2. EmployedInv'
  BY DEF office, DeskInv, EmployedInv, Employing, Desk!Employed
<1>3. VerifiedInv'
  BY DEF office, DeskInv, VerifiedInv, Alone, Desk!Serial, Verifying
<1>4. QED
  BY <1>1, <1>2, <1>3 DEF DeskInv

LEMMA CrashStep ==
  ASSUME DeskInv, Crash
  PROVE  DeskInv' /\ Desk!StaffStays /\ Desk!VerifiedStays
<1>1. /\ doing' = [c \in Calls |-> Desk!Idle] /\ crashed' = TRUE
      /\ UNCHANGED <<duty, login, joiner, onb, paper, letter>>
  BY DEF Crash
<1>2. Desk!Idle \in Call' /\ Desk!Idle.todo = <<>>
  BY Sequences DEF Desk!Idle, Call
<1>3. DeskTyped'
  <2>1. doing' \in [Calls -> Call'] /\ \A c \in Calls : doing'[c] = Desk!Idle
    BY <1>1, <1>2
  <2>2. Desk!JoiningTypeOK' /\ Desk!PapersTypeOK'
    BY <1>1 DEF DeskInv, DeskTyped, Desk!JoiningTypeOK, Desk!PapersTypeOK
  <2>3. \A f \in Files : Desk!Live(f)' => onb'[f].who \in People
    BY <1>1 DEF DeskInv, DeskTyped, Desk!Live
  <2>4. QED
    BY <1>1, <2>1, <2>2, <2>3 DEF DeskInv, DeskTyped
<1>4. EmployedInv' /\ VerifiedInv'
  <2>1. \A c \in Calls : doing'[c].todo = <<>>
    BY <1>1, <1>2
  <2>2. \A c \in Calls : Employing(doing[c].todo)' /\ Verifying(doing[c].todo)'
    BY <2>1 DEF Employing, Verifying
  <2>3. QED
    BY <1>1, <2>2 DEF DeskInv, EmployedInv, VerifiedInv, Desk!Employed
<1>5. Desk!StaffStays
  BY <1>1 DEF Desk!StaffStays, DeskInv, EmployedInv, Desk!Employed
<1>6. Desk!VerifiedStays
  BY <1>1 DEF Desk!VerifiedStays, Desk!There
<1>7. QED
  BY <1>3, <1>4, <1>5, <1>6 DEF DeskInv

LEMMA DeskStep ==
  ASSUME DeskInv, [StaffNext]_staff
  PROVE  DeskInv' /\ [Desk!StaffStays /\ Desk!VerifiedStays]_office
<1>1. CASE KeepJoining
  <2>1. Desk!JoiningNext /\ UNCHANGED <<duty, paper, letter, crashed>>
    BY <1>1 DEF KeepJoining
  <2>2. PICK c \in Calls :
          \/ \E p \in duty.people :
               \/ Desk!CreateOnboarding(c, p) \/ Desk!GetMyStatus(c, p)
               \/ Desk!CompleteProfile(c, p) \/ Desk!CreateEmployee(c, p)
               \/ Desk!UpdateEmployee(c, p) \/ Desk!RemoveEmployee(c, p)
               \/ Desk!UpdateEmpCode(c, p)
               \/ \E f \in Files : Desk!UpdateOnboarding(c, f, p)
          \/ \E f \in Files :
               \/ Desk!RemoveOnboarding(c, f) \/ Desk!RejectOnboarding(c, f)
               \/ Desk!ApproveOnboarding(c, f) \/ Desk!HrFinalApprove(c, f)
               \/ Desk!HrFinalReject(c, f) \/ Desk!Reinitiate(c, f)
          \/ \E sheet \in duty.sheets : Desk!BulkCreate(c, sheet)
          \/ Desk!FileRequest(c) \/ Desk!Readdress(c) \/ Desk!Unfile(c) \/ Desk!Mark(c)
          \/ Desk!LookUp(c) \/ Desk!DeleteLogin(c) \/ Desk!NextEmployeeCode(c)
          \/ Desk!EnterEmployee(c) \/ Desk!LinkEmployee(c) \/ Desk!FillProfile(c)
          \/ Desk!ReadSheet(c) \/ Desk!SheetRow(c) \/ Desk!CreateLogin(c)
          \/ Desk!EmployRow(c) \/ Desk!WriteEmployeeStatus(c) \/ Desk!Recode(c)
    BY <2>1 DEF Desk!JoiningNext
  <2>3. CASE \/ \E p \in duty.people :
                  \/ Desk!CreateOnboarding(c, p) \/ Desk!GetMyStatus(c, p)
                  \/ Desk!CompleteProfile(c, p) \/ Desk!CreateEmployee(c, p)
                  \/ Desk!UpdateEmployee(c, p) \/ Desk!RemoveEmployee(c, p)
                  \/ Desk!UpdateEmpCode(c, p)
                  \/ \E f \in Files : Desk!UpdateOnboarding(c, f, p)
             \/ \E f \in Files :
                  \/ Desk!RemoveOnboarding(c, f) \/ Desk!RejectOnboarding(c, f)
                  \/ Desk!ApproveOnboarding(c, f) \/ Desk!HrFinalApprove(c, f)
                  \/ Desk!HrFinalReject(c, f) \/ Desk!Reinitiate(c, f)
             \/ \E sheet \in duty.sheets : Desk!BulkCreate(c, sheet)
    <3>1. PICK op, todo : Good(todo) /\ Desk!Asks(c, op, todo)
      BY <2>3, JoiningAsks
    <3>2. QED
      BY <2>1, <3>1, AskedStep
  <2>4. CASE \/ Desk!FileRequest(c) \/ Desk!Readdress(c) \/ Desk!Unfile(c) \/ Desk!Mark(c)
             \/ Desk!LinkEmployee(c)
    BY <2>1, <2>4, FileStatements DEF Desk!VerifiedStays, Desk!There
  <2>5. CASE \/ Desk!FillProfile(c) \/ Desk!WriteEmployeeStatus(c) \/ Desk!Recode(c)
             \/ Desk!DeleteLogin(c) \/ Desk!CreateLogin(c) \/ Desk!EmployRow(c)
    BY <2>1, <2>5, PersonStatements DEF Desk!VerifiedStays, Desk!There
  <2>6. CASE \/ Desk!LookUp(c) \/ Desk!NextEmployeeCode(c) \/ Desk!EnterEmployee(c)
             \/ Desk!ReadSheet(c) \/ Desk!SheetRow(c)
    BY <2>1, <2>6, HiringStatements DEF Desk!VerifiedStays, Desk!There
  <2>7. QED
    BY <2>2, <2>3, <2>4, <2>5, <2>6
<1>2. CASE KeepPapers
  <2>1. Desk!PapersNext /\ UNCHANGED <<duty, crashed>>
    BY <1>2 DEF KeepPapers
  <2>2. PICK c \in Calls :
          \/ \E p \in duty.people :
               \/ Desk!UploadDocument(c, p) \/ Desk!VerifyDocument(c, p)
               \/ Desk!MarkOriginal(c, p) \/ Desk!CollectOriginalsAtJoining(c, p)
               \/ Desk!DeleteDocument(c, p) \/ Desk!SubmitForReview(c, p)
               \/ Desk!CreateLetter(c, p) \/ Desk!UpdateLetter(c, p)
               \/ Desk!SubmitLetter(c, p) \/ Desk!ApproveLetter(c, p)
               \/ Desk!RejectLetter(c, p) \/ Desk!RemoveLetter(c, p)
          \/ Desk!Attach(c) \/ Desk!Replace(c) \/ Desk!Unstore(c) \/ Desk!Verify(c)
          \/ Desk!StoreOriginal(c) \/ Desk!Drop(c) \/ Desk!DraftLetter(c)
          \/ Desk!WriteText(c) \/ Desk!WriteLetterStatus(c)
          \/ Desk!GenerateAppointmentLetterPDF(c) \/ Desk!MailLetter(c)
    BY <2>1 DEF Desk!PapersNext
  <2>3. ASSUME NEW p \in duty.people,
               \/ Desk!UploadDocument(c, p) \/ Desk!VerifyDocument(c, p)
               \/ Desk!MarkOriginal(c, p) \/ Desk!CollectOriginalsAtJoining(c, p)
               \/ Desk!DeleteDocument(c, p) \/ Desk!SubmitForReview(c, p)
               \/ Desk!CreateLetter(c, p) \/ Desk!UpdateLetter(c, p)
               \/ Desk!SubmitLetter(c, p) \/ Desk!ApproveLetter(c, p)
               \/ Desk!RejectLetter(c, p) \/ Desk!RemoveLetter(c, p)
        PROVE  DeskInv' /\ Desk!StaffStays /\ Desk!VerifiedStays
    <3>1. /\ \E op, todo : Good(todo) /\ Desk!Asks(c, op, todo)
          /\ UNCHANGED <<paper, letter>>
      BY <2>3, PapersAsks
    <3>2. PICK op, todo : Good(todo) /\ Desk!Asks(c, op, todo)
      BY <3>1
    <3>3. QED
      BY <2>1, <3>1, <3>2, AskedStep
  <2>4. CASE \/ Desk!Attach(c) \/ Desk!Replace(c) \/ Desk!Unstore(c) \/ Desk!Verify(c)
             \/ Desk!StoreOriginal(c) \/ Desk!Drop(c)
    BY <2>1, <2>4, PaperStatements
  <2>5. CASE \/ Desk!DraftLetter(c) \/ Desk!WriteText(c) \/ Desk!WriteLetterStatus(c)
             \/ Desk!MailLetter(c) \/ Desk!GenerateAppointmentLetterPDF(c)
    BY <2>1, <2>5, LetterStatements
  <2>6. QED
    BY <2>2, <2>3, <2>4, <2>5
<1>3. CASE Crash
  BY <1>3, CrashStep
<1>4. CASE KeepLeave \/ KeepDay \/ KeepExit \/ UNCHANGED staff
  <2>1. UNCHANGED <<duty, office>>
    BY <1>4 DEF KeepLeave, KeepDay, KeepExit, staff
  <2>2. QED
    BY <2>1, DeskStays
<1>5. QED
  BY <1>1, <1>2, <1>3, <1>4 DEF StaffNext

LEMMA DeskStarts ==
  ASSUME StaffInit
  PROVE  DeskInv
<1>1. /\ duty \in Duties /\ crashed = FALSE
      /\ doing = [c \in Calls |-> Desk!Idle]
      /\ login = [p \in People |-> IF p \in duty.students THEN "student" ELSE "none"]
      /\ joiner = [p \in People |-> Desk!NoEmployee]
      /\ onb = [f \in Files |-> Desk!NoFile]
      /\ paper = [p \in People |-> [d \in Slots |-> Desk!NoDocument]]
      /\ letter = [p \in People |-> [st |-> "none", text |-> 0, mailed |-> 0, mails |-> 0]]
  BY DEF StaffInit, Desk!CallsInit, Desk!JoiningInit, Desk!PapersInit
<1>2. MaxCode \in Nat
  BY <1>1, DeskDuty
<1>3. Desk!JoiningTypeOK
  <2>1. /\ Desk!NoEmployee \in Desk!Employee /\ Desk!NoFile \in Desk!OnboardingRequest
        /\ {"student", "none"} \subseteq Desk!User
    BY <1>2 DEF Desk!NoEmployee, Desk!Employee, Desk!NoFile, Desk!OnboardingRequest, Desk!User
  <2>2. QED
    BY <1>1, <2>1 DEF Desk!JoiningTypeOK
<1>4. Desk!PapersTypeOK
  <2>1. Desk!NoDocument \in Desk!Document
    BY DEF Desk!NoDocument, Desk!Document
  <2>2. [st |-> "none", text |-> 0, mailed |-> 0, mails |-> 0] \in Desk!AppointmentLetter
    BY DEF Desk!AppointmentLetter
  <2>3. QED
    BY <1>1, <2>1, <2>2 DEF Desk!PapersTypeOK
<1>5. /\ doing \in [Calls -> Call]
      /\ \A c \in Calls : doing[c] = Desk!Idle /\ doing[c].todo = <<>>
  <2>1. Desk!Idle \in Call /\ Desk!Idle.todo = <<>>
    BY Sequences DEF Desk!Idle, Call
  <2>2. QED
    BY <1>1, <2>1
<1>6. /\ \A f \in Files : ~Desk!Live(f) /\ onb[f].link = Nobody
      /\ \A p \in People : ~Desk!Employed(p)
  BY <1>1 DEF Desk!Live, Desk!Employed, Desk!NoFile, Desk!NoEmployee
<1>7. DeskTyped
  BY <1>1, <1>3, <1>4, <1>5, <1>6 DEF DeskTyped
<1>8. EmployedInv /\ VerifiedInv
  <2>1. \A c \in Calls : Employing(doing[c].todo) /\ Verifying(doing[c].todo)
    BY <1>5 DEF Employing, Verifying
  <2>2. QED
    BY <1>6, <2>1 DEF EmployedInv, VerifiedInv
<1>9. QED
  BY <1>7, <1>8 DEF DeskInv

LEMMA DeskInvariant == StaffSpec => []DeskInv
<1>1. StaffInit => DeskInv
  BY DeskStarts
<1>2. DeskInv /\ [StaffNext]_staff => DeskInv'
  BY DeskStep
<1>3. QED
  BY <1>1, <1>2, PTL DEF StaffSpec

(* Every table of the office keeps its type, and every call in flight is   *)
(* of an endpoint in use: people who join, papers, leave, the day and the  *)
(* way out.                                                                *)
THEOREM OfficeTyped == StaffSpec => []StaffTypeOK
<1>1. DeskInv /\ (Leaves!TypeOK /\ Days!TypeOK) /\ (TypeOK /\ CallInv) => StaffTypeOK
  <2>1. DeskInv => Desk!CallsTypeOK /\ duty \in Duties /\ crashed \in BOOLEAN
    BY DEF DeskInv, DeskTyped, Desk!CallsTypeOK, Call
  <2>2. DeskInv => Desk!JoiningTypeOK /\ Desk!PapersTypeOK
    BY DEF DeskInv, DeskTyped
  <2>3. QED
    BY <2>1, <2>2 DEF StaffTypeOK
<1>2. QED
  BY <1>1, DeskInvariant, LeaveAndDayTyped, ExitInside, ExitTyped, PTL

(* No application overdraws the leave (apply), and no step takes an        *)
(* employee its login or code (approve, bulkCreate, updateEmpCode), or     *)
(* replaces or deletes a document HR has verified (upload, remove), as far *)
(* as NoStep says.                                                         *)
THEOREM NothingIsTaken == StaffSpec => NoStep
<1>1. StaffSpec => [][Desk!StaffStays /\ Desk!VerifiedStays]_office
  <2>1. DeskInv /\ [StaffNext]_staff => [Desk!StaffStays /\ Desk!VerifiedStays]_office
    BY DeskStep
  <2>2. QED
    BY <2>1, DeskInvariant, PTL DEF StaffSpec
<1>2. QED
  BY <1>1, NeverMoreThanLeft, PTL DEF NoStep

(* What module Exit promises of its own behaviours holds in the office: the *)
(* statuses say what the two sides answered; and, but for HR typing the     *)
(* status into the employee form, nobody becomes RESIGNED before both have  *)
(* signed one clearance (managerClearExit, hrClearExit), nor gets an exit   *)
(* date before that in any way.                                             *)
THEOREM ExitInOffice == StaffSpec => []AnswersAgree /\ LeavesCleared
BY ExitInside, StatusSaysAnswers, ResignedCleared, PTL

-----------------------------------------------------------------------------
(* Calls: whose statements they are, what their endpoints found, how a     *)
(* list goes on, and what each statement writes.  Desk_proofs relies on it. *)

(* The endpoint each statement is of. *)
Belongs(op, s) ==
  /\ s.do = "file" =>
       IF s.row.link = Nobody THEN op = "fileJoiner" /\ s.row.st = "PENDING"
       ELSE op \in {"myStatus", "bulk"} /\ s.row.st = "ACCOUNT_CREATED"
  /\ s.do = "readdress" => op = "correctJoiner"
  /\ s.do = "unfile" => op = "removeJoiner"
  /\ s.do = "mark" =>
       /\ s.st = "REJECTED" => op = "rejectJoiner"
       /\ s.st = "ACCOUNT_CREATED" => op = "reinitiate"
       /\ s.st = "PROFILE_COMPLETE" => op \in {"profile", "finalReject"}
       /\ s.st = "AWAITING_APPROVAL" => op = "handIn"
       /\ s.st = "COMPLETED" => op = "finalApprove"
  /\ s.do \in {"lookup", "unlogin", "link"} => op = "approveJoiner"
  /\ s.do \in {"code", "enter"} => op = IF s.f = 0 THEN "hire" ELSE "approveJoiner"
  /\ s.do = "fill" => op = IF s.to THEN "profile" ELSE "reinitiate"
  /\ s.do = "status" =>
       IF s.st = "ON_PROBATION" THEN op = "status"
       ELSE op \in {"status", "terminate", "finalApprove"}
  /\ s.do \in {"sheet", "row", "login", "employ"} => op = "bulk"
  /\ s.do = "recode" => op = "recode"
  /\ s.do = "attach" => op \in {"upload", "collect"}
  /\ s.do = "replace" => op = "upload"
  /\ s.do = "unstore" => op \in {"upload", "deletePaper"}
  /\ s.do = "drop" => op = "deletePaper"
  /\ s.do = "verify" => op = "verify"
  /\ s.do = "original" => op \in {"original", "collect"}
  /\ s.do = "draft" => op = "letter"
  /\ s.do = "text" => op = "redraft"
  /\ s.do = "letter" =>
       IF s.st \in {"APPROVED", "SENT"} THEN op = "approveLetter"
       ELSE op \in {"submitLetter", "rejectLetter", "removeLetter"}
  /\ s.do \in {"pdf", "mail"} => op = "approveLetter"

Busy(c) == doing[c] # Desk!Idle
CallsInv ==
  /\ \A c \in Calls : Busy(c) =>
       /\ doing[c].todo # <<>> /\ doing[c].op \in duty.ops
       /\ \A i \in DOMAIN doing[c].todo : Belongs(doing[c].op, doing[c].todo[i])
  /\ \A c, d \in Calls : Busy(c) /\ Busy(d) /\ Desk!NotDuring(doing[c].op) => c = d

(* What an endpoint found when it started its statements t: each alone, and *)
(* in pairs.                                                               *)
Found(op, s) ==
  /\ Belongs(op, s)
  /\ s.do \notin {"link", "row", "login", "employ", "mail"}
  /\ s.do = "lookup" => onb[s.f].st = "PENDING" /\ onb[s.f].who = s.who
  /\ s.do \in {"code", "enter"} => s.f = 0
  /\ s.do = "readdress" =>
       /\ Desk!Live(s.f) /\ onb[s.f].link = Nobody
       /\ \A g \in Files : Desk!Live(g) => onb[g].who # s.who
  /\ s.do = "file" =>
       IF s.row.link = Nobody THEN \A g \in Files : Desk!Live(g) => onb[g].who # s.row.who
       ELSE Desk!Employed(s.row.link) /\ Desk!FileOf(s.row.link) = {}
  /\ s.do = "mark" /\ s.st = "AWAITING_APPROVAL" =>
       onb[s.f].link # Nobody /\ Desk!There(onb[s.f].link) # {}
  /\ s.do = "mark" /\ s.st = "COMPLETED" =>
       onb[s.f].st \in {"AWAITING_APPROVAL", "PROFILE_COMPLETE"}
  /\ s.do = "attach" => Desk!There(s.p) = {}
  /\ s.do = "replace" => ~paper[s.p][s.d].verified
  /\ s.do = "verify" => s.seen = paper[s.p][s.d].file
  /\ s.do = "text" => letter[s.p].st \in {"DRAFT", "REJECTED"}
  /\ s.do = "pdf" => letter[s.p].st = "PENDING_APPROVAL"
  /\ s.do = "letter" =>
       /\ s.st \notin {"APPROVED", "SENT"}
       /\ IF s.st = "removed" THEN letter[s.p].st \notin {"none", "removed"}
          ELSE letter[s.p].st \in {"DRAFT", "REJECTED", "PENDING_APPROVAL"}

(* The endpoints of more than one statement.                               *)
Long == {"profile", "finalApprove", "reinitiate", "approveJoiner", "bulk",
         "upload", "deletePaper", "approveLetter"}

Paired(op, t) ==
  \A i \in DOMAIN t : LET s == t[i] IN
    /\ s.do = "mark" /\ op = "profile" =>
         /\ i = 2 /\ t[1].do = "fill" /\ t[1].to
         /\ onb[s.f].link # Nobody /\ t[1].who = onb[s.f].link
    /\ s.do = "mark" /\ s.st = "COMPLETED" /\ onb[s.f].link # Nobody =>
         /\ i = 1 /\ 2 \in DOMAIN t /\ t[2].do = "status" /\ t[2].st = "ACTIVE"
         /\ t[2].who = onb[s.f].link
    /\ s.do = "fill" /\ ~s.to =>
         /\ i = 2 /\ t[1].do = "mark" /\ t[1].st = "ACCOUNT_CREATED" /\ t[1].f \in Files
         /\ Desk!Live(t[1].f) /\ onb[t[1].f].link = s.who /\ s.who # Nobody
    /\ s.do = "unstore" =>
         /\ i + 1 \in DOMAIN t /\ t[i + 1].do \in {"replace", "drop"}
         /\ t[i + 1].p = s.p /\ t[i + 1].d = s.d
    /\ s.do \in {"attach", "pdf"} => DOMAIN t = {1}
    /\ op \notin Long => i = 1

Fresh(op, t) == (\A i \in DOMAIN t : Found(op, t[i])) /\ Paired(op, t)

LEMMA OneFresh ==
  ASSUME NEW op, NEW s, Found(op, s), s.do \notin {"fill", "unstore"},
         s.do = "mark" => op # "profile" /\ (s.st = "COMPLETED" => onb[s.f].link = Nobody)
  PROVE  Fresh(op, <<s>>)
<1>1. PICK t : t = <<s>>
  OBVIOUS
<1>2. DOMAIN t = {1} /\ t[1] = s
  BY <1>1
<1>3. Fresh(op, t)
  BY <1>2 DEF Fresh, Paired
<1>4. QED
  BY <1>1, <1>3

LEMMA TwoFresh ==
  ASSUME NEW op, NEW s \in Statement, NEW t \in Statement, Found(op, s), Found(op, t),
         \A v : DOMAIN v = {1, 2} /\ v[1] = s /\ v[2] = t => Paired(op, v)
  PROVE  Fresh(op, <<s, t>>) /\ Fresh(op, <<s>> \o <<t>>)
<1>1. ASSUME NEW v, DOMAIN v = {1, 2}, v[1] = s, v[2] = t
      PROVE  Fresh(op, v)
  BY <1>1 DEF Fresh
<1>2. Fresh(op, <<s, t>>)
  <2>1. DOMAIN <<s, t>> = {1, 2} /\ <<s, t>>[1] = s /\ <<s, t>>[2] = t
    OBVIOUS
  <2>2. QED
    BY <1>1, <2>1
<1>3. Fresh(op, <<s>> \o <<t>>)
  <2> DEFINE a == <<s>>
             b == <<t>>
  <2>1. a \in Seq(Statement) /\ b \in Seq(Statement) /\ Len(a) = 1 /\ Len(b) = 1
        /\ a[1] = s /\ b[1] = t
    BY Sequences
  <2> HIDE DEF a, b
  <2>2. /\ a \o b \in Seq(Statement) /\ Len(a \o b) = 1 + 1
        /\ \A i \in 1 .. 1 + 1 : (a \o b)[i] = IF i <= 1 THEN a[i] ELSE b[i - 1]
    BY <2>1, ConcatProperties
  <2>3. DOMAIN (a \o b) = {1, 2} /\ (a \o b)[1] = s /\ (a \o b)[2] = t
    BY <2>1, <2>2
  <2>4. Fresh(op, a \o b)
    BY <1>1, <2>3
  <2>5. QED
    BY <2>4 DEF a, b
<1>4. QED
  BY <1>2, <1>3

(* What every endpoint of the joining has found. *)
LEMMA JoiningFound ==
  ASSUME DeskInv, NEW c \in Calls,
         \/ \E p \in duty.people :
              \/ Desk!CreateOnboarding(c, p) \/ Desk!GetMyStatus(c, p)
              \/ Desk!CompleteProfile(c, p) \/ Desk!CreateEmployee(c, p)
              \/ Desk!UpdateEmployee(c, p) \/ Desk!RemoveEmployee(c, p)
              \/ Desk!UpdateEmpCode(c, p)
              \/ \E f \in Files : Desk!UpdateOnboarding(c, f, p)
         \/ \E f \in Files :
              \/ Desk!RemoveOnboarding(c, f) \/ Desk!RejectOnboarding(c, f)
              \/ Desk!ApproveOnboarding(c, f) \/ Desk!HrFinalApprove(c, f)
              \/ Desk!HrFinalReject(c, f) \/ Desk!Reinitiate(c, f)
         \/ \E sheet \in duty.sheets : Desk!BulkCreate(c, sheet)
  PROVE  \E op, todo : Fresh(op, todo) /\ Desk!Asks(c, op, todo)
<1>1. /\ duty \in Duties /\ duty.people \subseteq People /\ Nobody \notin People
      /\ \A f \in Files : onb[f].link \in People \cup {Nobody}
      /\ \A f \in Files : onb[f].link # Nobody => Desk!Employed(onb[f].link)
  BY DeskDuty DEF DeskInv, DeskTyped, EmployedInv, Desk!JoiningTypeOK, Desk!OnboardingRequest
<1>2. ASSUME NEW p \in duty.people, Desk!CreateOnboarding(c, p)
      PROVE  \E op, todo : Fresh(op, todo) /\ Desk!Asks(c, op, todo)
  <2>1. PICK s : s = [do |-> "file", row |-> [st |-> "PENDING", who |-> p, link |-> Nobody]]
    OBVIOUS
  <2>2. s.do = "file" /\ s.row.who = p /\ s.row.link = Nobody /\ s.row.st = "PENDING"
    BY <2>1
  <2>3. Desk!Asks(c, "fileJoiner", <<s>>) /\ \A g \in Files : Desk!Live(g) => onb[g].who # p
    BY <1>2, <2>1 DEF Desk!CreateOnboarding
  <2>4. Found("fileJoiner", s)
    BY <2>2, <2>3 DEF Found, Belongs
  <2>5. QED
    BY <2>2, <2>3, <2>4, OneFresh
<1>3. ASSUME NEW p \in duty.people, Desk!GetMyStatus(c, p)
      PROVE  \E op, todo : Fresh(op, todo) /\ Desk!Asks(c, op, todo)
  <2>1. PICK s : s = [do |-> "file", row |-> Desk!Own(p)]
    OBVIOUS
  <2>2. s.do = "file" /\ s.row.link = p /\ p # Nobody /\ s.row.st = "ACCOUNT_CREATED"
    BY <1>1, <2>1 DEF Desk!Own
  <2>3. Desk!Asks(c, "myStatus", <<s>>) /\ Desk!Employed(p) /\ Desk!FileOf(p) = {}
    BY <1>3, <2>1 DEF Desk!GetMyStatus
  <2>4. Found("myStatus", s)
    BY <2>2, <2>3 DEF Found, Belongs
  <2>5. QED
    BY <2>2, <2>3, <2>4, OneFresh
<1>4. ASSUME NEW p \in duty.people, Desk!CompleteProfile(c, p)
      PROVE  \E op, todo : Fresh(op, todo) /\ Desk!Asks(c, op, todo)
  <2>1. PICK f \in Desk!FileOf(p) :
          Desk!Asks(c, "profile", <<[do |-> "fill", who |-> p, to |-> TRUE],
                                    Desk!Marking(f, "PROFILE_COMPLETE")>>)
    BY <1>4 DEF Desk!CompleteProfile
  <2>2. PICK s, t : /\ s = [do |-> "fill", who |-> p, to |-> TRUE]
                    /\ t = Desk!Marking(f, "PROFILE_COMPLETE")
    OBVIOUS
  <2>3. /\ s.do = "fill" /\ s.who = p /\ s.to = TRUE
        /\ t.do = "mark" /\ t.f = f /\ t.st = "PROFILE_COMPLETE"
        /\ onb[f].link = p /\ p # Nobody /\ p \in People /\ f \in Files
    BY <1>1, <2>2 DEF Desk!Marking, Desk!FileOf
  <2>4. s \in Statement /\ t \in Statement
    BY <2>2, <2>3 DEF Statement, JoiningStatement, Desk!Marking, Marks
  <2>5. Found("profile", s) /\ Found("profile", t)
    BY <2>3 DEF Found, Belongs
  <2>6. ASSUME NEW v, DOMAIN v = {1, 2}, v[1] = s, v[2] = t
        PROVE  Paired("profile", v)
    BY <2>3, <2>6 DEF Paired, Long
  <2>7. Fresh("profile", <<s, t>>)
    BY <2>4, <2>5, <2>6, TwoFresh
  <2>8. QED
    BY <2>1, <2>2, <2>7
<1>5. ASSUME NEW p \in duty.people, Desk!CreateEmployee(c, p)
      PROVE  \E op, todo : Fresh(op, todo) /\ Desk!Asks(c, op, todo)
  <2>1. PICK st \in {"ON_PROBATION", "ACTIVE"} :
          \/ Desk!Asks(c, "hire", <<Desk!Hiring(0, p, st)>>)
          \/ \E n \in duty.codes : Desk!Asks(c, "hire", <<[do |-> "enter", f |-> 0, who |-> p,
                                                           st |-> st, code |-> n]>>)
    BY <1>5 DEF Desk!CreateEmployee
  <2>2. ASSUME NEW s, s.do \in {"code", "enter"}, s.f = 0
        PROVE  Fresh("hire", <<s>>)
    <3>1. Found("hire", s)
      BY <2>2 DEF Found, Belongs
    <3>2. QED
      BY <2>2, <3>1, OneFresh
  <2>3. Fresh("hire", <<Desk!Hiring(0, p, st)>>)
    <3>1. Desk!Hiring(0, p, st).do = "code" /\ Desk!Hiring(0, p, st).f = 0
      BY DEF Desk!Hiring
    <3>2. QED
      BY <2>2, <3>1
  <2>4. \A n \in duty.codes :
          Fresh("hire", <<[do |-> "enter", f |-> 0, who |-> p, st |-> st, code |-> n]>>)
    BY <2>2
  <2>5. QED
    BY <2>1, <2>3, <2>4
<1>6. ASSUME NEW p \in duty.people, NEW st \in Desk!Status, NEW op \in {"status", "terminate"},
             st = "ON_PROBATION" => op = "status",
             Desk!Asks(c, op, <<[do |-> "status", who |-> p, st |-> st]>>)
      PROVE  \E o, todo : Fresh(o, todo) /\ Desk!Asks(c, o, todo)
  <2>1. PICK s : s = [do |-> "status", who |-> p, st |-> st]
    OBVIOUS
  <2>2. s.do = "status" /\ s.st = st
    BY <2>1
  <2>3. Found(op, s)
    BY <1>6, <2>2 DEF Found, Belongs
  <2>4. QED
    BY <1>6, <2>1, <2>2, <2>3, OneFresh
<1>7. ASSUME NEW p \in duty.people, Desk!UpdateEmpCode(c, p)
      PROVE  \E op, todo : Fresh(op, todo) /\ Desk!Asks(c, op, todo)
  <2>1. PICK n \in duty.codes :
          Desk!Asks(c, "recode", <<[do |-> "recode", who |-> p, code |-> n]>>)
    BY <1>7 DEF Desk!UpdateEmpCode
  <2>2. PICK s : s = [do |-> "recode", who |-> p, code |-> n]
    OBVIOUS
  <2>3. s.do = "recode"
    BY <2>2
  <2>4. Found("recode", s)
    BY <2>3 DEF Found, Belongs
  <2>5. QED
    BY <2>1, <2>2, <2>3, <2>4, OneFresh
<1>8. ASSUME NEW p \in duty.people, NEW f \in Files, Desk!UpdateOnboarding(c, f, p)
      PROVE  \E op, todo : Fresh(op, todo) /\ Desk!Asks(c, op, todo)
  <2>1. PICK s : s = [do |-> "readdress", f |-> f, who |-> p]
    OBVIOUS
  <2>2. s.do = "readdress" /\ s.f = f /\ s.who = p
    BY <2>1
  <2>3. /\ Desk!Asks(c, "correctJoiner", <<s>>) /\ Desk!Live(f) /\ onb[f].link = Nobody
        /\ \A g \in Files : Desk!Live(g) => onb[g].who # p
    BY <1>8, <2>1 DEF Desk!UpdateOnboarding, Desk!OpenAddress
  <2>4. Found("correctJoiner", s)
    BY <2>2, <2>3 DEF Found, Belongs
  <2>5. QED
    BY <2>2, <2>3, <2>4, OneFresh
<1>9. ASSUME NEW f \in Files, Desk!RemoveOnboarding(c, f)
      PROVE  \E op, todo : Fresh(op, todo) /\ Desk!Asks(c, op, todo)
  <2>1. PICK s : s = [do |-> "unfile", f |-> f]
    OBVIOUS
  <2>2. s.do = "unfile"
    BY <2>1
  <2>3. Found("removeJoiner", s)
    BY <2>2 DEF Found, Belongs
  <2>4. QED
    BY <1>9, <2>1, <2>2, <2>3, OneFresh DEF Desk!RemoveOnboarding
<1>10. ASSUME NEW f \in Files, Desk!RejectOnboarding(c, f) \/ Desk!HrFinalReject(c, f)
       PROVE  \E op, todo : Fresh(op, todo) /\ Desk!Asks(c, op, todo)
  <2>1. ASSUME NEW st, NEW op, <<op, st>> \in {<<"rejectJoiner", "REJECTED">>,
                                               <<"finalReject", "PROFILE_COMPLETE">>}
        PROVE  Fresh(op, <<Desk!Marking(f, st)>>)
    <3>1. PICK s : s = Desk!Marking(f, st)
      OBVIOUS
    <3>2. s.do = "mark" /\ s.st = st
      BY <3>1 DEF Desk!Marking
    <3>3. Found(op, s)
      BY <2>1, <3>2 DEF Found, Belongs
    <3>4. QED
      BY <2>1, <3>1, <3>2, <3>3, OneFresh
  <2>2. QED
    BY <1>10, <2>1 DEF Desk!RejectOnboarding, Desk!HrFinalReject
<1>11. ASSUME NEW f \in Files, Desk!ApproveOnboarding(c, f)
       PROVE  \E op, todo : Fresh(op, todo) /\ Desk!Asks(c, op, todo)
  <2>1. PICK s : s = [do |-> "lookup", f |-> f, who |-> onb[f].who]
    OBVIOUS
  <2>2. s.do = "lookup" /\ s.f = f /\ s.who = onb[f].who
    BY <2>1
  <2>3. Desk!Asks(c, "approveJoiner", <<s>>) /\ onb[f].st = "PENDING"
    BY <1>11, <2>1 DEF Desk!ApproveOnboarding
  <2>4. Found("approveJoiner", s)
    BY <2>2, <2>3 DEF Found, Belongs
  <2>5. QED
    BY <2>2, <2>3, <2>4, OneFresh
<1>12. ASSUME NEW f \in Files, Desk!HrFinalApprove(c, f)
       PROVE  \E op, todo : Fresh(op, todo) /\ Desk!Asks(c, op, todo)
  <2>1. PICK s, t : /\ s = Desk!Marking(f, "COMPLETED")
                    /\ t = [do |-> "status", who |-> onb[f].link, st |-> "ACTIVE"]
    OBVIOUS
  <2>2. /\ s.do = "mark" /\ s.f = f /\ s.st = "COMPLETED"
        /\ t.do = "status" /\ t.who = onb[f].link /\ t.st = "ACTIVE"
    BY <2>1 DEF Desk!Marking
  <2>3. /\ onb[f].st \in {"AWAITING_APPROVAL", "PROFILE_COMPLETE"}
        /\ Desk!Asks(c, "finalApprove", <<s>> \o IF onb[f].link = Nobody THEN <<>> ELSE <<t>>)
    BY <1>12, <2>1 DEF Desk!HrFinalApprove
  <2>4. s \in Statement /\ (onb[f].link # Nobody => t \in Statement)
    BY <1>1, <2>1 DEF Statement, JoiningStatement, Desk!Marking, Marks, Desk!Status
  <2>5. Found("finalApprove", s) /\ Found("finalApprove", t)
    BY <2>2, <2>3 DEF Found, Belongs
  <2>6. CASE onb[f].link = Nobody
    <3>1. <<s>> \o <<>> = <<s>> /\ Fresh("finalApprove", <<s>>)
      BY <2>2, <2>4, <2>5, <2>6, EmptyAside, OneFresh
    <3>2. QED
      BY <2>3, <2>6, <3>1
  <2>7. CASE onb[f].link # Nobody
    <3>1. ASSUME NEW v, DOMAIN v = {1, 2}, v[1] = s, v[2] = t
          PROVE  Paired("finalApprove", v)
      BY <2>2, <3>1 DEF Paired, Long
    <3>2. Fresh("finalApprove", <<s>> \o <<t>>)
      BY <2>4, <2>5, <2>7, <3>1, TwoFresh
    <3>3. QED
      BY <2>3, <2>7, <3>2
  <2>8. QED
    BY <2>6, <2>7
<1>13. ASSUME NEW f \in Files, Desk!Reinitiate(c, f)
       PROVE  \E op, todo : Fresh(op, todo) /\ Desk!Asks(c, op, todo)
  <2>1. PICK s, t : /\ s = Desk!Marking(f, "ACCOUNT_CREATED")
                    /\ t = [do |-> "fill", who |-> onb[f].link, to |-> FALSE]
    OBVIOUS
  <2>2. /\ s.do = "mark" /\ s.f = f /\ s.st = "ACCOUNT_CREATED"
        /\ t.do = "fill" /\ t.who = onb[f].link /\ t.to = FALSE
    BY <2>1 DEF Desk!Marking
  <2>3. /\ Desk!Live(f)
        /\ Desk!Asks(c, "reinitiate", <<s>> \o IF onb[f].link = Nobody THEN <<>> ELSE <<t>>)
    BY <1>13, <2>1 DEF Desk!Reinitiate
  <2>4. s \in Statement /\ (onb[f].link # Nobody => t \in Statement)
    BY <1>1, <2>1 DEF Statement, JoiningStatement, Desk!Marking, Marks
  <2>5. Found("reinitiate", s) /\ Found("reinitiate", t)
    BY <2>2, <2>3 DEF Found, Belongs
  <2>6. CASE onb[f].link = Nobody
    <3>1. <<s>> \o <<>> = <<s>> /\ Fresh("reinitiate", <<s>>)
      BY <2>2, <2>4, <2>5, EmptyAside, OneFresh
    <3>2. QED
      BY <2>3, <2>6, <3>1
  <2>7. CASE onb[f].link # Nobody
    <3>1. ASSUME NEW v, DOMAIN v = {1, 2}, v[1] = s, v[2] = t
          PROVE  Paired("reinitiate", v)
      BY <2>2, <2>3, <2>7, <3>1 DEF Paired, Long
    <3>2. Fresh("reinitiate", <<s>> \o <<t>>)
      BY <2>4, <2>5, <2>7, <3>1, TwoFresh
    <3>3. QED
      BY <2>3, <2>7, <3>2
  <2>8. QED
    BY <2>6, <2>7
<1>14. ASSUME NEW sheet \in duty.sheets, Desk!BulkCreate(c, sheet)
       PROVE  \E op, todo : Fresh(op, todo) /\ Desk!Asks(c, op, todo)
  <2>1. PICK s : s = [do |-> "sheet", left |-> sheet]
    OBVIOUS
  <2>2. s.do = "sheet"
    BY <2>1
  <2>3. Found("bulk", s)
    BY <2>2 DEF Found, Belongs
  <2>4. QED
    BY <1>14, <2>1, <2>2, <2>3, OneFresh DEF Desk!BulkCreate
<1>15. ASSUME NEW p \in duty.people, Desk!UpdateEmployee(c, p) \/ Desk!RemoveEmployee(c, p)
       PROVE  \E op, todo : Fresh(op, todo) /\ Desk!Asks(c, op, todo)
  <2>1. "TERMINATED" \in Desk!Status
    BY DEF Desk!Status
  <2>2. QED
    BY <1>6, <1>15, <2>1 DEF Desk!UpdateEmployee, Desk!RemoveEmployee
<1>16. QED
  BY <1>2, <1>3, <1>4, <1>5, <1>7, <1>8, <1>9, <1>10, <1>11, <1>12, <1>13, <1>14, <1>15

(* ... and of the papers. *)
LEMMA PapersFound ==
  ASSUME DeskInv, NEW c \in Calls, NEW p \in duty.people,
         \/ Desk!UploadDocument(c, p) \/ Desk!VerifyDocument(c, p) \/ Desk!MarkOriginal(c, p)
         \/ Desk!CollectOriginalsAtJoining(c, p) \/ Desk!DeleteDocument(c, p)
         \/ Desk!SubmitForReview(c, p) \/ Desk!CreateLetter(c, p) \/ Desk!UpdateLetter(c, p)
         \/ Desk!SubmitLetter(c, p) \/ Desk!ApproveLetter(c, p) \/ Desk!RejectLetter(c, p)
         \/ Desk!RemoveLetter(c, p)
  PROVE  \E op, todo : Fresh(op, todo) /\ Desk!Asks(c, op, todo)
<1>1. p \in People /\ Nobody \notin People /\ \A q : Desk!There(q) \subseteq Slots
  BY DeskDuty DEF DeskInv, DeskTyped, Desk!There
<1>2. ASSUME NEW s, NEW op, Found(op, s), Desk!Deals(c, op, <<s>>),
             s.do \notin {"fill", "unstore", "mark"}
      PROVE  \E o, todo : Fresh(o, todo) /\ Desk!Asks(c, o, todo)
  BY <1>2, OneFresh DEF Desk!Deals
<1>3. ASSUME NEW d \in Slots, NEW do \in {"replace", "drop"}, NEW op,
             do = "replace" => op = "upload" /\ ~paper[p][d].verified,
             do = "drop" => op = "deletePaper",
             Desk!Deals(c, op, (IF paper[p][d].file = 0 THEN <<>>
                                ELSE <<[do |-> "unstore", p |-> p, d |-> d]>>)
                               \o <<[do |-> do, p |-> p, d |-> d]>>)
      PROVE  \E o, todo : Fresh(o, todo) /\ Desk!Asks(c, o, todo)
  <2>1. PICK s, t : /\ s = [do |-> "unstore", p |-> p, d |-> d]
                    /\ t = [do |-> do, p |-> p, d |-> d]
    OBVIOUS
  <2>2. /\ s.do = "unstore" /\ s.p = p /\ s.d = d
        /\ t.do = do /\ t.p = p /\ t.d = d
    BY <2>1
  <2>3. s \in Statement /\ t \in Statement
    BY <1>1, <2>1 DEF Statement, PapersStatement
  <2>4. Desk!Asks(c, op, (IF paper[p][d].file = 0 THEN <<>> ELSE <<s>>) \o <<t>>)
    BY <1>3, <2>1 DEF Desk!Deals
  <2>5. Found(op, s) /\ Found(op, t)
    <3>1. Found(op, s)
      BY <1>3, <2>2 DEF Found, Belongs
    <3>2. Found(op, t)
      BY <1>3, <2>2 DEF Found, Belongs
    <3>3. QED
      BY <3>1, <3>2
  <2>6. CASE paper[p][d].file = 0
    <3>1. <<>> \o <<t>> = <<t>> /\ Fresh(op, <<t>>)
      BY <2>2, <2>3, <2>5, EmptyAside, OneFresh
    <3>2. QED
      BY <2>4, <2>6, <3>1
  <2>7. CASE paper[p][d].file # 0
    <3>1. ASSUME NEW v, DOMAIN v = {1, 2}, v[1] = s, v[2] = t
          PROVE  Paired(op, v)
      BY <1>3, <2>2, <3>1 DEF Paired, Long
    <3>2. Fresh(op, <<s>> \o <<t>>)
      BY <2>3, <2>5, <3>1, TwoFresh
    <3>3. QED
      BY <2>4, <2>7, <3>2
  <2>8. QED
    BY <2>6, <2>7
<1>4. ASSUME NEW scan, NEW op \in {"upload", "collect"}, Desk!There(p) = {},
             Desk!Deals(c, op, <<[do |-> "attach", p |-> p, scan |-> scan]>>)
      PROVE  \E o, todo : Fresh(o, todo) /\ Desk!Asks(c, o, todo)
  <2>1. PICK s : s = [do |-> "attach", p |-> p, scan |-> scan]
    OBVIOUS
  <2>2. s.do = "attach" /\ s.p = p
    BY <2>1
  <2>3. Found(op, s)
    BY <1>4, <2>2 DEF Found, Belongs
  <2>4. QED
    BY <1>2, <1>4, <2>1, <2>2, <2>3
<1>5. CASE Desk!UploadDocument(c, p)
  BY <1>1, <1>3, <1>4, <1>5 DEF Desk!UploadDocument, Desk!Replaceable
<1>6. CASE Desk!VerifyDocument(c, p)
  <2>1. PICK d \in Slots :
          Desk!Deals(c, "verify", <<[do |-> "verify", p |-> p, d |-> d, seen |-> paper[p][d].file]>>)
    BY <1>1, <1>6 DEF Desk!VerifyDocument
  <2>2. PICK s : s = [do |-> "verify", p |-> p, d |-> d, seen |-> paper[p][d].file]
    OBVIOUS
  <2>3. s.do = "verify" /\ s.p = p /\ s.d = d /\ s.seen = paper[p][d].file
    BY <2>2
  <2>4. Found("verify", s)
    BY <2>3 DEF Found, Belongs
  <2>5. QED
    BY <1>2, <2>1, <2>2, <2>3, <2>4
<1>7. ASSUME NEW d, NEW to, NEW op \in {"original", "collect"},
             Desk!Deals(c, op, <<[do |-> "original", p |-> p, d |-> d, to |-> to]>>)
      PROVE  \E o, todo : Fresh(o, todo) /\ Desk!Asks(c, o, todo)
  <2>1. PICK s : s = [do |-> "original", p |-> p, d |-> d, to |-> to]
    OBVIOUS
  <2>2. s.do = "original"
    BY <2>1
  <2>3. Found(op, s)
    BY <1>7, <2>2 DEF Found, Belongs
  <2>4. QED
    BY <1>2, <1>7, <2>1, <2>2, <2>3
<1>8. CASE Desk!MarkOriginal(c, p)
  BY <1>7, <1>8 DEF Desk!MarkOriginal
<1>9. CASE Desk!CollectOriginalsAtJoining(c, p)
  BY <1>4, <1>7, <1>9 DEF Desk!CollectOriginalsAtJoining
<1>10. CASE Desk!DeleteDocument(c, p)
  BY <1>1, <1>3, <1>10 DEF Desk!DeleteDocument
<1>11. CASE Desk!SubmitForReview(c, p)
  <2>1. PICK f \in Desk!FileOf(p) :
          Desk!HandsIn(p) /\ Desk!Deals(c, "handIn", <<Desk!Marking(f, "AWAITING_APPROVAL")>>)
    BY <1>11 DEF Desk!SubmitForReview
  <2>2. PICK s : s = Desk!Marking(f, "AWAITING_APPROVAL")
    OBVIOUS
  <2>3. /\ s.do = "mark" /\ s.f = f /\ s.st = "AWAITING_APPROVAL"
        /\ onb[f].link = p /\ p # Nobody /\ Desk!There(p) # {}
    BY <1>1, <2>1, <2>2 DEF Desk!Marking, Desk!FileOf, Desk!HandsIn
  <2>4. Found("handIn", s)
    BY <2>3 DEF Found, Belongs
  <2>5. Fresh("handIn", <<s>>)
    BY <2>3, <2>4, OneFresh
  <2>6. QED
    BY <2>1, <2>2, <2>5 DEF Desk!Deals
<1>12. ASSUME NEW do, NEW op, Desk!Deals(c, op, <<[do |-> do, p |-> p]>>),
              \/ do = "draft" /\ op = "letter"
              \/ do = "text" /\ op = "redraft" /\ letter[p].st \in {"DRAFT", "REJECTED"}
              \/ do = "pdf" /\ op = "approveLetter" /\ letter[p].st = "PENDING_APPROVAL"
       PROVE  \E o, todo : Fresh(o, todo) /\ Desk!Asks(c, o, todo)
  <2>1. PICK s : s = [do |-> do, p |-> p]
    OBVIOUS
  <2>2. s.do = do /\ s.p = p
    BY <2>1
  <2>3. Found(op, s)
    BY <1>12, <2>2 DEF Found, Belongs
  <2>4. QED
    BY <1>2, <1>12, <2>1, <2>2, <2>3
<1>13. CASE Desk!CreateLetter(c, p) \/ Desk!UpdateLetter(c, p) \/ Desk!ApproveLetter(c, p)
  BY <1>12, <1>13
     DEF Desk!CreateLetter, Desk!UpdateLetter, Desk!ApproveLetter, Desk!Editable, Desk!Approvable
<1>14. ASSUME NEW st, NEW op \in {"submitLetter", "rejectLetter", "removeLetter"},
              Desk!Deals(c, op, <<Desk!Letter(st, p)>>), st \notin {"APPROVED", "SENT"},
              IF st = "removed" THEN letter[p].st \notin {"none", "removed"}
              ELSE letter[p].st \in {"DRAFT", "REJECTED", "PENDING_APPROVAL"}
       PROVE  \E o, todo : Fresh(o, todo) /\ Desk!Asks(c, o, todo)
  <2>1. PICK s : s = Desk!Letter(st, p)
    OBVIOUS
  <2>2. s.do = "letter" /\ s.st = st /\ s.p = p
    BY <2>1 DEF Desk!Letter
  <2>3. Found(op, s)
    BY <1>14, <2>2 DEF Found, Belongs
  <2>4. QED
    BY <1>2, <1>14, <2>1, <2>2, <2>3
<1>15. CASE Desk!SubmitLetter(c, p) \/ Desk!RejectLetter(c, p) \/ Desk!RemoveLetter(c, p)
  BY <1>14, <1>15 DEF Desk!SubmitLetter, Desk!RejectLetter, Desk!RemoveLetter, Desk!Editable
<1>16. QED
  BY <1>5, <1>6, <1>8, <1>9, <1>10, <1>11, <1>13, <1>15

-----------------------------------------------------------------------------
(* Statements go on with the endpoint they are of, and who does not overlap *)
(* any other runs alone.                                                   *)

(* What becomes of the calls when c has todo to do. *)
LEMMA Doing ==
  ASSUME doing \in [Calls -> Call], NEW c \in Calls, NEW op, NEW todo, Desk!Start(c, op, todo)
  PROVE  /\ \A k \in Calls : k # c => doing'[k] = doing[k]
         /\ doing'[c].todo = todo
         /\ IF todo = <<>> THEN doing'[c] = Desk!Idle
            ELSE doing'[c].op = op /\ doing'[c] # Desk!Idle
<1> DEFINE v == IF todo = <<>> THEN Desk!Idle ELSE [op |-> op, todo |-> todo]
<1>1. doing' = [doing EXCEPT ![c] = v]
  BY DEF Desk!Start
<1>2. /\ v.todo = todo
      /\ IF todo = <<>> THEN v = Desk!Idle ELSE v.op = op /\ v # Desk!Idle
  BY DEF Desk!Idle
<1> HIDE DEF v
<1>3. doing'[c] = v /\ \A k \in Calls : k # c => doing'[k] = doing[k]
  BY <1>1
<1>4. QED
  BY <1>2, <1>3

LEMMA CallsBegin ==
  ASSUME DeskInv, CallsInv, duty' = duty, NEW c \in Calls, NEW op, NEW todo,
         Fresh(op, todo), Desk!Asks(c, op, todo)
  PROVE  CallsInv'
<1>1. /\ op \in duty.ops /\ c \in duty.calls /\ doing[c] = Desk!Idle
      /\ \A d \in Calls : doing[d].op \notin duty.alone
      /\ op \in duty.alone => \A d \in Calls : doing[d] = Desk!Idle
      /\ Desk!Start(c, op, todo)
  BY DEF Desk!Asks, Desk!Free, Desk!AllIdle
<1>2. /\ \A k \in Calls : k # c => doing'[k] = doing[k]
      /\ doing'[c].todo = todo
      /\ IF todo = <<>> THEN doing'[c] = Desk!Idle
         ELSE doing'[c].op = op /\ doing'[c] # Desk!Idle
  BY <1>1, Doing DEF DeskInv, DeskTyped
<1>3. ASSUME NEW k \in Calls, Busy(k)'
      PROVE  /\ doing'[k].todo # <<>> /\ doing'[k].op \in duty.ops
             /\ \A i \in DOMAIN doing'[k].todo : Belongs(doing'[k].op, doing'[k].todo[i])
  BY <1>1, <1>2, <1>3 DEF CallsInv, Busy, Fresh, Found
<1>4. ASSUME NEW k \in Calls, NEW d \in Calls, Busy(k)', Busy(d)',
             Desk!NotDuring(doing'[k].op), k # d
      PROVE  FALSE
  <2>1. doing'[k] # Desk!Idle /\ doing'[d] # Desk!Idle /\ doing'[k].op \in duty.ops
    BY <1>3, <1>4 DEF Busy
  <2>2. CASE Desk!Serial
    <3>1. k \in duty.calls /\ d \in duty.calls
      BY <1>1, <1>2, <2>1 DEF DeskInv, DeskTyped
    <3>2. QED
      BY <1>4, <2>2, <3>1, DeskAlone DEF DeskInv, DeskTyped
  <2>3. CASE ~Desk!Serial
    <3>1. doing'[k].op \in duty.alone
      BY <1>4, <2>1, <2>3 DEF Desk!NotDuring
    <3>2. QED
      BY <1>1, <1>2, <1>4, <2>1, <3>1
  <2>4. QED
    BY <2>2, <2>3
<1>5. \A x : Desk!NotDuring(x)' <=> Desk!NotDuring(x)
  BY DEF Desk!NotDuring, Desk!Serial
<1>6. QED
  BY <1>3, <1>4, <1>5 DEF CallsInv

(* A call that runs a statement: its list, the rest of it, and what it is   *)
(* left with.                                                              *)
LEMMA ItsList ==
  ASSUME DeskInv, NEW c \in Calls, NEW do, Desk!Runs(c, do)
  PROVE  \E t \in Seq(Statement), r \in Seq(Statement), s \in Statement :
           /\ t = doing[c].todo /\ r = Desk!Rest(c) /\ s = Desk!It(c)
           /\ s.do = do /\ 1 \in DOMAIN t /\ t[1] = s /\ Busy(c)
           /\ \A i \in DOMAIN t : t[i] \in Statement /\ i \in Nat /\ i >= 1
           /\ \A i \in DOMAIN r : i + 1 \in DOMAIN t /\ i \in Nat /\ i >= 1 /\ r[i] = t[i + 1]
           /\ \A i \in DOMAIN t : i # 1 => i - 1 \in DOMAIN r
           /\ \A i \in DOMAIN r : i > 1 => i - 1 \in DOMAIN r /\ r[i - 1] = t[i]
<1>1. PICK t, r, s : t = doing[c].todo /\ r = Desk!Rest(c) /\ s = Desk!It(c)
  OBVIOUS
<1>2. /\ t \in Seq(Statement) /\ t # <<>> /\ s \in Statement /\ s.do = do
      /\ t[1] = s /\ r = Tail(t) /\ r \in Seq(Statement)
  BY <1>1, Running DEF DeskInv, Desk!Rest
<1>3. /\ 1 \in DOMAIN t /\ Len(t) \in Nat /\ Len(r) = Len(t) - 1
      /\ \A i \in DOMAIN r : i + 1 \in DOMAIN t /\ i \in Nat /\ i >= 1 /\ r[i] = t[i + 1]
  BY <1>2, Sequences
<1>4. /\ \A i \in DOMAIN t : t[i] \in Statement /\ i \in Nat /\ i >= 1
      /\ \A i \in DOMAIN t : i # 1 => i - 1 \in DOMAIN r
  BY <1>2, <1>3
<1>5. \A i \in DOMAIN r : i > 1 => i - 1 \in DOMAIN r /\ r[i - 1] = t[i]
  <2>1. ASSUME NEW i \in DOMAIN r, i > 1
        PROVE  i - 1 \in DOMAIN r
    BY <1>2, <2>1
  <2>2. \A i \in DOMAIN r : i \in Nat
    BY <1>3
  <2>3. QED
    BY <1>3, <2>1, <2>2
<1>6. Busy(c)
  BY <1>1, <1>2 DEF Busy, Desk!Idle
<1>7. QED
  BY <1>1, <1>2, <1>3, <1>4, <1>5, <1>6

LEMMA LeftWith ==
  ASSUME DeskInv, NEW c \in Calls, NEW todo, Desk!Goes(c, todo)
  PROVE  /\ \A k \in Calls : k # c => doing'[k] = doing[k]
         /\ doing'[c].todo = todo
         /\ IF todo = <<>> THEN doing'[c] = Desk!Idle
            ELSE doing'[c].op = doing[c].op /\ doing'[c] # Desk!Idle
BY Doing DEF Desk!Goes, DeskInv, DeskTyped

LEMMA CallsGoOn ==
  ASSUME DeskInv, CallsInv, duty' = duty, NEW c \in Calls, Busy(c), NEW todo, Desk!Goes(c, todo),
         \A i \in DOMAIN todo : Belongs(doing[c].op, todo[i])
  PROVE  CallsInv'
<1>1. /\ \A k \in Calls : k # c => doing'[k] = doing[k]
      /\ doing'[c].todo = todo
      /\ IF todo = <<>> THEN doing'[c] = Desk!Idle
         ELSE doing'[c].op = doing[c].op /\ doing'[c] # Desk!Idle
  BY LeftWith
<1>2. ASSUME NEW k \in Calls, Busy(k)'
      PROVE  /\ doing'[k].todo # <<>> /\ doing'[k].op \in duty.ops
             /\ \A i \in DOMAIN doing'[k].todo : Belongs(doing'[k].op, doing'[k].todo[i])
             /\ Busy(k) /\ doing'[k].op = doing[k].op
  BY <1>1, <1>2 DEF CallsInv, Busy
<1>3. \A x : Desk!NotDuring(x)' <=> Desk!NotDuring(x)
  BY DEF Desk!NotDuring, Desk!Serial
<1>4. QED
  BY <1>2, <1>3 DEF CallsInv

(* ... with the rest of its statements, or with none. *)
LEMMA CallsRest ==
  ASSUME DeskInv, CallsInv, duty' = duty, NEW c \in Calls, NEW do, Desk!Runs(c, do),
         Desk!Done(c) \/ Desk!Fails(c)
  PROVE  CallsInv'
<1>1. PICK t \in Seq(Statement), r \in Seq(Statement), s \in Statement :
           /\ t = doing[c].todo /\ r = Desk!Rest(c) /\ Busy(c)
           /\ \A i \in DOMAIN r : i + 1 \in DOMAIN t /\ i \in Nat /\ i >= 1 /\ r[i] = t[i + 1]
  BY ItsList
<1>2. CASE Desk!Fails(c)
  <2>1. \A i \in DOMAIN <<>> : Belongs(doing[c].op, <<>>[i])
    OBVIOUS
  <2>2. QED
    BY <1>1, <1>2, <2>1, CallsGoOn DEF Desk!Fails
<1>3. CASE Desk!Done(c)
  <2>1. \A i \in DOMAIN r : Belongs(doing[c].op, r[i])
    BY <1>1 DEF CallsInv
  <2>2. QED
    BY <1>1, <1>3, <2>1, CallsGoOn DEF Desk!Done
<1>4. QED
  BY <1>2, <1>3

(* Who runs an endpoint that does not overlap any other runs alone.        *)
LEMMA RunsAlone ==
  ASSUME DeskInv, CallsInv, NEW c \in Calls, Busy(c), Desk!NotDuring(doing[c].op),
         NEW k \in Calls, k # c
  PROVE  doing[k] = Desk!Idle /\ doing[k].todo = <<>>
BY DEF CallsInv, Busy, Desk!Idle

(* A row of a sheet: login, employee and request, then the next row. *)
RowOf(p, n, v) ==
  /\ {1, 2, 3} \subseteq DOMAIN v
  /\ v[1].do = "login" /\ v[1].who = p
  /\ v[2].do = "employ" /\ v[2].who = p /\ v[2].code = n
  /\ v[3].do = "file" /\ v[3].row = Desk!Own(p)
  /\ \A i \in DOMAIN v : i \in {1, 2, 3} \/ (i = 4 /\ v[i].do = "row" /\ v[i].code = n + 1)

LEMMA RowList ==
  ASSUME NEW p \in People, NEW n \in Code, NEW b \in Seq(Statement),
         b = <<>> \/ \E r \in Statement : b = <<r>> /\ r.do = "row" /\ r.code = n + 1,
         NEW w, w = <<[do |-> "login", who |-> p], [do |-> "employ", who |-> p, code |-> n],
                      [do |-> "file", row |-> Desk!Own(p)]>> \o b
  PROVE  w \in Seq(Statement) /\ RowOf(p, n, w)
<1> DEFINE x == [do |-> "login", who |-> p]
           y == [do |-> "employ", who |-> p, code |-> n]
           z == [do |-> "file", row |-> Desk!Own(p)]
           a == <<x, y, z>>
<1>1. x \in Statement /\ y \in Statement
  BY DEF Statement, JoiningStatement
<1>2. z \in Statement
  BY DEF Statement, JoiningStatement, Filed, Desk!OnboardingRequest, Desk!Own
<1>3. /\ x.do = "login" /\ x.who = p /\ y.do = "employ" /\ y.who = p /\ y.code = n
      /\ z.do = "file" /\ z.row = Desk!Own(p)
  OBVIOUS
<1> HIDE DEF x, y, z
<1>4. a \in Seq(Statement) /\ Len(a) = 3 /\ a[1] = x /\ a[2] = y /\ a[3] = z
  BY <1>1, <1>2
<1> HIDE DEF a
<1>5. /\ a \o b \in Seq(Statement) /\ Len(a \o b) = 3 + Len(b)
      /\ \A i \in 1 .. 3 + Len(b) : (a \o b)[i] = IF i <= 3 THEN a[i] ELSE b[i - 3]
  <2>1. /\ a \o b \in Seq(Statement) /\ Len(a \o b) = Len(a) + Len(b)
        /\ \A i \in 1 .. Len(a) + Len(b) :
             (a \o b)[i] = IF i <= Len(a) THEN a[i] ELSE b[i - Len(a)]
    BY <1>4, ConcatProperties
  <2>2. QED
    BY <1>4, <2>1
<1>6. PICK v \in Seq(Statement) : v = a \o b
  BY <1>5
<1>7. PICK m \in {0, 1} : m = Len(b) /\ (m = 1 => b[1].do = "row" /\ b[1].code = n + 1)
  <2>1. Len(<<>>) = 0 /\ \A r : Len(<<r>>) = 1 /\ <<r>>[1] = r
    OBVIOUS
  <2>2. Len(b) = 0 \/ (Len(b) = 1 /\ b[1].do = "row" /\ b[1].code = n + 1)
    <3>1. CASE b = <<>>
      BY <2>1, <3>1
    <3>2. CASE \E r \in Statement : b = <<r>> /\ r.do = "row" /\ r.code = n + 1
      <4>1. PICK r \in Statement : b = <<r>> /\ r.do = "row" /\ r.code = n + 1
        BY <3>2
      <4>2. QED
        BY <2>1, <4>1
    <3>3. QED
      BY <3>1, <3>2
  <2>3. QED
    BY <2>2
<1>8. DOMAIN v = 1 .. 3 + m
  BY <1>5, <1>6, <1>7
<1>9. \A i \in DOMAIN v : v[i] = IF i <= 3 THEN a[i] ELSE b[i - 3]
  BY <1>5, <1>6, <1>7, <1>8
<1>10. {1, 2, 3} \subseteq DOMAIN v /\ v[1] = x /\ v[2] = y /\ v[3] = z
  <2>1. 1 \in DOMAIN v /\ 2 \in DOMAIN v /\ 3 \in DOMAIN v
    BY <1>8
  <2>2. v[1] = a[1] /\ v[2] = a[2] /\ v[3] = a[3]
    BY <1>9, <2>1
  <2>3. QED
    BY <1>4, <2>1, <2>2
<1>11. ASSUME NEW i \in DOMAIN v, i \notin {1, 2, 3}
       PROVE  i = 4 /\ v[i] = b[1] /\ m = 1
  <2>1. m = 1 /\ i = 4
    BY <1>8, <1>11
  <2>2. v[i] = b[i - 3] /\ i - 3 = 1
    BY <1>9, <2>1
  <2>3. QED
    BY <2>1, <2>2
<1>12. v = w
  BY <1>6 DEF a, x, y, z
<1>13. RowOf(p, n, v)
  BY <1>3, <1>7, <1>10, <1>11 DEF RowOf
<1>14. QED
  BY <1>12, <1>13

(* What the statements that look further ahead leave to do.               *)
Ahead(s, v) ==
  \/ /\ s.do = "lookup" /\ ~Desk!Employed(s.who)
     /\ \E x \in Statement :
          /\ x.do = "code" /\ x.f = s.f /\ x.who = s.who
          /\ \/ DOMAIN v = {1} /\ v[1] = x
             \/ DOMAIN v = {1, 2} /\ v[1].do = "unlogin" /\ v[2] = x
  \/ /\ s.do = "code" /\ DOMAIN v = {1}
     /\ v[1].do = "enter" /\ v[1].f = s.f /\ v[1].who = s.who
  \/ /\ s.do = "sheet" /\ DOMAIN v = {1}
     /\ v[1].do = "row" /\ v[1].code = Desk!NextCode
  \/ /\ s.do = "row" /\ DOMAIN v \subseteq {1}
     /\ 1 \in DOMAIN v => v[1].do = "row" /\ v[1].code = s.code
  \/ s.do = "row" /\ \E p \in People : login[p] = "none" /\ RowOf(p, s.code, v)
  \/ /\ s.do = "pdf" /\ DOMAIN v = {1, 2, 3} /\ letter[s.p].st # "removed"
     /\ v[1].do = "letter" /\ v[1].st = "APPROVED" /\ v[1].p = s.p
     /\ v[2].do = "mail" /\ v[2].p = s.p /\ v[2].text = letter[s.p].text
     /\ v[3].do = "letter" /\ v[3].st = "SENT" /\ v[3].p = s.p

LEMMA LooksAhead ==
  ASSUME DeskInv, NEW c \in Calls,
         \/ Desk!LookUp(c) \/ Desk!NextEmployeeCode(c) \/ Desk!ReadSheet(c) \/ Desk!SheetRow(c)
         \/ Desk!GenerateAppointmentLetterPDF(c)
  PROVE  /\ UNCHANGED <<login, joiner, onb>>
         /\ Desk!GenerateAppointmentLetterPDF(c) => UNCHANGED <<paper, letter>>
         /\ \E do \in {"lookup", "code", "sheet", "row", "pdf"} : Desk!Runs(c, do)
         /\ \/ Desk!Fails(c)
            \/ \E v \in Seq(Statement) : Desk!Goes(c, v) /\ Ahead(Desk!It(c), v)
<1>1. ASSUME NEW do, Desk!Runs(c, do)
      PROVE  Desk!It(c) \in Statement /\ Desk!It(c).do = do
  BY <1>1, Running DEF DeskInv
<1>2. CASE Desk!LookUp(c)
  <2>1. Desk!Runs(c, "lookup") /\ UNCHANGED <<login, joiner, onb>>
    BY <1>2 DEF Desk!LookUp, Desk!joining
  <2>2. PICK f \in Files, p \in People : f = Desk!It(c).f /\ p = Desk!It(c).who
    BY <1>1, <2>1, JoiningParts
  <2>3. PICK x, y : x = Desk!Hiring(f, p, "ON_PROBATION") /\ y = [do |-> "unlogin", who |-> p]
    OBVIOUS
  <2>4. /\ x \in Statement /\ x.do = "code" /\ x.f = f /\ x.who = p
        /\ y \in Statement /\ y.do = "unlogin"
    BY <2>3 DEF Statement, JoiningStatement, Desk!Hiring, Desk!Status
  <2>5. \/ Desk!Fails(c)
        \/ ~Desk!Employed(p) /\ (Desk!Goes(c, <<>> \o <<x>>) \/ Desk!Goes(c, <<y>> \o <<x>>))
    BY <1>2, <2>2, <2>3 DEF Desk!LookUp
  <2>6. CASE ~Desk!Employed(p) /\ Desk!Goes(c, <<>> \o <<x>>)
    <3>1. PICK v \in Seq(Statement) : v = <<x>>
      BY <2>4, Sequences
    <3>2. Desk!Goes(c, v) /\ DOMAIN v = {1} /\ v[1] = x
      BY <2>4, <2>6, <3>1, EmptyAside
    <3>3. Ahead(Desk!It(c), v)
      BY <1>1, <2>1, <2>2, <2>4, <2>6, <3>2 DEF Ahead
    <3>4. QED
      BY <2>1, <3>2, <3>3, <1>2 DEF Desk!LookUp, Desk!GenerateAppointmentLetterPDF, Desk!Runs
  <2>7. CASE ~Desk!Employed(p) /\ Desk!Goes(c, <<y>> \o <<x>>)
    <3> DEFINE a == <<y>>
               b == <<x>>
    <3>1. a \in Seq(Statement) /\ b \in Seq(Statement) /\ Len(a) = 1 /\ Len(b) = 1
          /\ a[1] = y /\ b[1] = x
      BY <2>4, Sequences
    <3> HIDE DEF a, b
    <3>2. /\ a \o b \in Seq(Statement) /\ Len(a \o b) = 1 + 1
          /\ \A i \in 1 .. 1 + 1 : (a \o b)[i] = IF i <= 1 THEN a[i] ELSE b[i - 1]
      BY <3>1, ConcatProperties
    <3>3. PICK v \in Seq(Statement) : v = a \o b
      BY <3>2
    <3>4. DOMAIN v = {1, 2} /\ v[1] = y /\ v[2] = x
      BY <3>1, <3>2, <3>3
    <3>5. Ahead(Desk!It(c), v)
      BY <1>1, <2>1, <2>2, <2>4, <2>7, <3>4 DEF Ahead
    <3>6. Desk!Goes(c, v)
      BY <2>7, <3>3 DEF a, b
    <3>7. QED
      BY <2>1, <3>5, <3>6, <1>2 DEF Desk!LookUp, Desk!GenerateAppointmentLetterPDF, Desk!Runs
  <2>8. QED
    BY <2>1, <2>5, <2>6, <2>7, <1>2 DEF Desk!GenerateAppointmentLetterPDF, Desk!Runs
<1>3. CASE Desk!NextEmployeeCode(c)
  <2>1. /\ Desk!Runs(c, "code") /\ UNCHANGED <<login, joiner, onb>> /\ Desk!NextCode <= MaxCode
    BY <1>3 DEF Desk!NextEmployeeCode, Desk!joining
  <2>2. PICK s \in Statement : s = Desk!It(c) /\ s.do = "code"
    BY <1>1, <2>1
  <2>3. s.f \in Files \cup {0} /\ s.who \in People /\ s.st \in Desk!Status /\ Desk!NextCode \in Code
    BY <2>1, <2>2, JoiningParts, NextCodeTyped
  <2>4. PICK x : x = [do |-> "enter", f |-> s.f, who |-> s.who, st |-> s.st, code |-> Desk!NextCode]
    OBVIOUS
  <2>5. x \in Statement /\ x.do = "enter" /\ x.f = s.f /\ x.who = s.who
    BY <2>3, <2>4 DEF Statement, JoiningStatement
  <2>6. PICK v \in Seq(Statement) : v = <<x>>
    BY <2>5, Sequences
  <2>7. Desk!Goes(c, v) /\ DOMAIN v = {1} /\ v[1] = x
    BY <1>3, <2>2, <2>4, <2>6 DEF Desk!NextEmployeeCode
  <2>8. Ahead(Desk!It(c), v)
    BY <2>2, <2>5, <2>7 DEF Ahead
  <2>9. QED
    BY <2>1, <2>7, <2>8, <1>3 DEF Desk!GenerateAppointmentLetterPDF, Desk!Runs
<1>4. CASE Desk!ReadSheet(c)
  <2>1. Desk!Runs(c, "sheet") /\ UNCHANGED <<login, joiner, onb>>
    BY <1>4 DEF Desk!ReadSheet, Desk!joining
  <2>2. PICK s \in Statement : s = Desk!It(c) /\ s.do = "sheet"
    BY <1>1, <2>1
  <2>3. s.left \in Seq(People) \ {<<>>} /\ Desk!NextCode \in Nat
    BY <2>2, JoiningParts, NextCodeTyped
  <2>4. PICK x : x = [do |-> "row", left |-> s.left, code |-> Desk!NextCode]
    OBVIOUS
  <2>5. x \in Statement /\ x.do = "row" /\ x.code = Desk!NextCode
    BY <2>3, <2>4 DEF Statement, JoiningStatement
  <2>6. PICK v \in Seq(Statement) : v = <<x>>
    BY <2>5, Sequences
  <2>7. Desk!Goes(c, v) /\ DOMAIN v = {1} /\ v[1] = x
    BY <1>4, <2>2, <2>4, <2>6 DEF Desk!ReadSheet
  <2>8. Ahead(Desk!It(c), v)
    BY <2>2, <2>5, <2>7 DEF Ahead
  <2>9. QED
    BY <2>1, <2>7, <2>8, <1>4 DEF Desk!GenerateAppointmentLetterPDF, Desk!Runs
<1>5. CASE Desk!SheetRow(c)
  <2>1. /\ Desk!Runs(c, "row") /\ UNCHANGED <<login, joiner, onb>> /\ Desk!It(c).code <= MaxCode
    BY <1>5 DEF Desk!SheetRow, Desk!joining
  <2>2. PICK s \in Statement : s = Desk!It(c) /\ s.do = "row"
    BY <1>1, <2>1
  <2>3. PICK left \in Seq(People) \ {<<>>}, n \in Nat : left = s.left /\ n = s.code
    BY <2>2, JoiningParts
  <2>4. PICK p \in People : p = Head(left)
    BY <2>3
  <2>5. n \in Code /\ n + 1 \in Nat
    <3>1. MaxCode \in Nat
      BY DeskDuty DEF DeskInv, DeskTyped
    <3>2. QED
      BY <2>1, <2>2, <2>3, <3>1 DEF Code
  <2> DEFINE r(code) == [do |-> "row", left |-> Tail(left), code |-> code]
             rows(code) == IF Len(left) = 1 THEN <<>> ELSE <<r(code)>>
  <2>6. \/ Desk!Goes(c, rows(n))
        \/ /\ login[p] = "none"
           /\ Desk!Goes(c, <<[do |-> "login", who |-> p], [do |-> "employ", who |-> p, code |-> n],
                             [do |-> "file", row |-> Desk!Own(p)]>> \o rows(n + 1))
    BY <1>5, <2>2, <2>3, <2>4 DEF Desk!SheetRow
  <2>7. ASSUME NEW m \in Nat
        PROVE  /\ rows(m) \in Seq(Statement)
               /\ rows(m) = <<>> \/ \E x \in Statement : rows(m) = <<x>> /\ x.do = "row" /\ x.code = m
    <3>1. CASE Len(left) = 1
      BY <3>1, Sequences
    <3>2. CASE Len(left) # 1
      <4>1. Tail(left) \in Seq(People) /\ Tail(left) # <<>>
        <5>1. /\ Len(left) \in Nat /\ Len(left) >= 1
              /\ Tail(left) \in Seq(People) /\ Len(Tail(left)) = Len(left) - 1
          BY <2>3
        <5>2. Len(Tail(left)) # 0 /\ Len(<<>>) = 0
          BY <3>2, <5>1
        <5>3. QED
          BY <5>1, <5>2, Zenon
      <4>2. r(m) \in Statement /\ r(m).do = "row" /\ r(m).code = m
        BY <4>1 DEF Statement, JoiningStatement
      <4> HIDE DEF r
      <4>3. rows(m) = <<r(m)>> /\ <<r(m)>> \in Seq(Statement)
        BY <3>2, <4>2, Sequences
      <4>4. QED
        BY <4>2, <4>3
    <3>3. QED
      BY <3>1, <3>2
  <2>8. PICK b, b1 : b = rows(n) /\ b1 = rows(n + 1)
    OBVIOUS
  <2>9. /\ b \in Seq(Statement) /\ b1 \in Seq(Statement)
        /\ b = <<>> \/ \E x \in Statement : b = <<x>> /\ x.do = "row" /\ x.code = n
        /\ b1 = <<>> \/ \E x \in Statement : b1 = <<x>> /\ x.do = "row" /\ x.code = n + 1
    BY <2>5, <2>7, <2>8
  <2>10. \/ Desk!Goes(c, b)
         \/ /\ login[p] = "none"
            /\ Desk!Goes(c, <<[do |-> "login", who |-> p], [do |-> "employ", who |-> p, code |-> n],
                              [do |-> "file", row |-> Desk!Own(p)]>> \o b1)
    BY <2>6, <2>8
  <2> HIDE DEF rows, r
  <2>11. CASE Desk!Goes(c, b)
    <3>1. DOMAIN b \subseteq {1} /\ (1 \in DOMAIN b => b[1].do = "row" /\ b[1].code = n)
      <4>1. CASE b = <<>>
        BY <4>1
      <4>2. CASE \E x \in Statement : b = <<x>> /\ x.do = "row" /\ x.code = n
        BY <4>2
      <4>3. QED
        BY <2>9, <4>1, <4>2
    <3>2. Ahead(Desk!It(c), b)
      BY <2>2, <2>3, <3>1 DEF Ahead
    <3>3. QED
      BY <2>1, <2>9, <2>11, <3>2, <1>5 DEF Desk!GenerateAppointmentLetterPDF, Desk!Runs
  <2>12. CASE /\ login[p] = "none"
              /\ Desk!Goes(c, <<[do |-> "login", who |-> p], [do |-> "employ", who |-> p, code |-> n],
                                [do |-> "file", row |-> Desk!Own(p)]>> \o b1)
    <3>1. PICK v : v = <<[do |-> "login", who |-> p], [do |-> "employ", who |-> p, code |-> n],
                         [do |-> "file", row |-> Desk!Own(p)]>> \o b1
      OBVIOUS
    <3>1a. v \in Seq(Statement) /\ RowOf(p, n, v)
      BY <2>5, <2>9, <3>1, RowList
    <3>2. Ahead(s, v) /\ Desk!Goes(c, v)
      BY <2>2, <2>3, <2>12, <3>1, <3>1a DEF Ahead
    <3>3. QED
      BY <2>1, <2>2, <3>1a, <3>2, <1>5 DEF Desk!GenerateAppointmentLetterPDF, Desk!Runs
  <2>13. QED
    BY <2>10, <2>11, <2>12
<1>6. CASE Desk!GenerateAppointmentLetterPDF(c)
  <2>1. Desk!Runs(c, "pdf") /\ UNCHANGED <<login, joiner, onb, paper, letter>>
    BY <1>6 DEF Desk!GenerateAppointmentLetterPDF, Desk!joining, Desk!papers
  <2>2. PICK p \in People, n \in Nat : p = Desk!It(c).p /\ n = letter[p].text
    <3>1. Desk!It(c).p \in People
      BY <1>1, <2>1, PapersParts
    <3>2. QED
      BY <3>1 DEF DeskInv, DeskTyped, Desk!PapersTypeOK, Desk!AppointmentLetter
  <2> DEFINE x == Desk!Letter("APPROVED", p)
             y == [do |-> "mail", p |-> p, text |-> n]
             z == Desk!Letter("SENT", p)
  <2>3. x \in Statement /\ y \in Statement /\ z \in Statement
    BY DEF Statement, PapersStatement, Desk!Letter, Desk!AppointmentLetterStatus
  <2>4. /\ x.do = "letter" /\ x.st = "APPROVED" /\ x.p = p
        /\ y.do = "mail" /\ y.p = p /\ y.text = n
        /\ z.do = "letter" /\ z.st = "SENT" /\ z.p = p
    BY DEF Desk!Letter
  <2>5. Desk!Fails(c) \/ (letter[p].st # "removed" /\ Desk!Goes(c, <<x, y, z>>))
    BY <1>6, <2>2 DEF Desk!GenerateAppointmentLetterPDF
  <2> HIDE DEF x, y, z
  <2>6. PICK v \in Seq(Statement) : v = <<x, y, z>> /\ DOMAIN v = {1, 2, 3}
    <3>1. <<x, y, z>> \in Seq(Statement) /\ DOMAIN <<x, y, z>> = {1, 2, 3}
      BY <2>3
    <3>2. QED
      BY <3>1
  <2>7. v[1] = x /\ v[2] = y /\ v[3] = z
    BY <2>6
  <2>8. letter[p].st # "removed" => Ahead(Desk!It(c), v)
    BY <1>1, <2>1, <2>2, <2>4, <2>6, <2>7 DEF Ahead
  <2>9. QED
    BY <2>1, <2>5, <2>6, <2>8
<1>7. QED
  BY <1>2, <1>3, <1>4, <1>5, <1>6

(* Every step of the desk: nothing, the process stops, an endpoint starts,  *)
(* or a call runs a statement.                                             *)
Looking(c) ==
  \/ Desk!LookUp(c) \/ Desk!NextEmployeeCode(c) \/ Desk!ReadSheet(c) \/ Desk!SheetRow(c)
  \/ Desk!GenerateAppointmentLetterPDF(c)
JoiningRuns(c) ==
  \/ Desk!FileRequest(c) \/ Desk!Readdress(c) \/ Desk!Unfile(c) \/ Desk!Mark(c)
  \/ Desk!DeleteLogin(c) \/ Desk!LinkEmployee(c) \/ Desk!FillProfile(c) \/ Desk!CreateLogin(c)
  \/ Desk!EmployRow(c) \/ Desk!WriteEmployeeStatus(c) \/ Desk!Recode(c)
PapersRuns(c) ==
  \/ Desk!Attach(c) \/ Desk!Replace(c) \/ Desk!Unstore(c) \/ Desk!Verify(c)
  \/ Desk!StoreOriginal(c) \/ Desk!Drop(c) \/ Desk!DraftLetter(c) \/ Desk!WriteText(c)
  \/ Desk!WriteLetterStatus(c) \/ Desk!MailLetter(c)

Begins(c) ==
  /\ UNCHANGED <<login, joiner, onb, paper, letter>>
  /\ \E op, todo : Fresh(op, todo) /\ Desk!Asks(c, op, todo)
Looks(c) == Looking(c) /\ UNCHANGED <<login, joiner, onb, paper, letter>>
Joins(c) == (JoiningRuns(c) \/ Desk!EnterEmployee(c)) /\ UNCHANGED <<paper, letter>>
Handles(c) == PapersRuns(c) /\ UNCHANGED <<login, joiner, onb>>

LEMMA DeskMoves ==
  ASSUME DeskInv, [StaffNext]_staff
  PROVE  \/ UNCHANGED <<duty, office>>
         \/ Crash
         \/ /\ UNCHANGED <<duty, crashed>>
            /\ \E c \in Calls : Begins(c) \/ Looks(c) \/ Joins(c) \/ Handles(c)
<1>1. CASE KeepJoining
  <2>1. Desk!JoiningNext /\ UNCHANGED <<duty, paper, letter, crashed>>
    BY <1>1 DEF KeepJoining
  <2>2. PICK c \in Calls :
          \/ \E p \in duty.people :
               \/ Desk!CreateOnboarding(c, p) \/ Desk!GetMyStatus(c, p)
               \/ Desk!CompleteProfile(c, p) \/ Desk!CreateEmployee(c, p)
               \/ Desk!UpdateEmployee(c, p) \/ Desk!RemoveEmployee(c, p)
               \/ Desk!UpdateEmpCode(c, p)
               \/ \E f \in Files : Desk!UpdateOnboarding(c, f, p)
          \/ \E f \in Files :
               \/ Desk!RemoveOnboarding(c, f) \/ Desk!RejectOnboarding(c, f)
               \/ Desk!ApproveOnboarding(c, f) \/ Desk!HrFinalApprove(c, f)
               \/ Desk!HrFinalReject(c, f) \/ Desk!Reinitiate(c, f)
          \/ \E sheet \in duty.sheets : Desk!BulkCreate(c, sheet)
          \/ JoiningRuns(c) \/ Desk!EnterEmployee(c)
          \/ Desk!LookUp(c) \/ Desk!NextEmployeeCode(c) \/ Desk!ReadSheet(c) \/ Desk!SheetRow(c)
    BY <2>1 DEF Desk!JoiningNext, JoiningRuns
  <2>3. CASE JoiningRuns(c) \/ Desk!EnterEmployee(c)
    BY <2>1, <2>3 DEF Joins
  <2>4. CASE \/ Desk!LookUp(c) \/ Desk!NextEmployeeCode(c) \/ Desk!ReadSheet(c)
             \/ Desk!SheetRow(c)
    <3>1. UNCHANGED <<login, joiner, onb>> /\ Looking(c)
      BY <2>4, LooksAhead DEF Looking
    <3>2. QED
      BY <2>1, <3>1 DEF Looks
  <2>5. CASE ~JoiningRuns(c) /\ ~Desk!EnterEmployee(c) /\ ~Desk!LookUp(c)
             /\ ~Desk!NextEmployeeCode(c) /\ ~Desk!ReadSheet(c) /\ ~Desk!SheetRow(c)
    <3>1. \E op, todo : Fresh(op, todo) /\ Desk!Asks(c, op, todo)
      BY <2>2, <2>5, JoiningFound
    <3>2. UNCHANGED <<login, joiner, onb>>
      BY <3>1 DEF Desk!Asks, Desk!joining
    <3>3. QED
      BY <2>1, <3>1, <3>2 DEF Begins
  <2>6. QED
    BY <2>3, <2>4, <2>5
<1>2. CASE KeepPapers
  <2>1. Desk!PapersNext /\ UNCHANGED <<duty, crashed>>
    BY <1>2 DEF KeepPapers
  <2>2. PICK c \in Calls :
          \/ \E p \in duty.people :
               \/ Desk!UploadDocument(c, p) \/ Desk!VerifyDocument(c, p)
               \/ Desk!MarkOriginal(c, p) \/ Desk!CollectOriginalsAtJoining(c, p)
               \/ Desk!DeleteDocument(c, p) \/ Desk!SubmitForReview(c, p)
               \/ Desk!CreateLetter(c, p) \/ Desk!UpdateLetter(c, p)
               \/ Desk!SubmitLetter(c, p) \/ Desk!ApproveLetter(c, p)
               \/ Desk!RejectLetter(c, p) \/ Desk!RemoveLetter(c, p)
          \/ PapersRuns(c) \/ Desk!GenerateAppointmentLetterPDF(c)
    BY <2>1 DEF Desk!PapersNext, PapersRuns
  <2>3. CASE PapersRuns(c)
    <3>1. UNCHANGED <<login, joiner, onb>>
      BY <2>3 DEF PapersRuns, Desk!Attach, Desk!Replace, Desk!Unstore, Desk!Verify,
           Desk!StoreOriginal, Desk!Drop, Desk!DraftLetter, Desk!WriteText,
           Desk!WriteLetterStatus, Desk!MailLetter, Desk!OnRow, Desk!OnLetter, Desk!joining
    <3>2. QED
      BY <2>1, <2>3, <3>1 DEF Handles
  <2>4. CASE Desk!GenerateAppointmentLetterPDF(c)
    BY <2>1, <2>4, LooksAhead DEF Looks, Looking
  <2>5. CASE ~PapersRuns(c) /\ ~Desk!GenerateAppointmentLetterPDF(c)
    <3>1. PICK p \in duty.people :
               \/ Desk!UploadDocument(c, p) \/ Desk!VerifyDocument(c, p)
               \/ Desk!MarkOriginal(c, p) \/ Desk!CollectOriginalsAtJoining(c, p)
               \/ Desk!DeleteDocument(c, p) \/ Desk!SubmitForReview(c, p)
               \/ Desk!CreateLetter(c, p) \/ Desk!UpdateLetter(c, p)
               \/ Desk!SubmitLetter(c, p) \/ Desk!ApproveLetter(c, p)
               \/ Desk!RejectLetter(c, p) \/ Desk!RemoveLetter(c, p)
      BY <2>2, <2>5
    <3>2. /\ \E op, todo : Fresh(op, todo) /\ Desk!Asks(c, op, todo)
          /\ UNCHANGED <<paper, letter>>
      BY <3>1, PapersFound, PapersAsks
    <3>3. UNCHANGED <<login, joiner, onb>>
      BY <3>2 DEF Desk!Asks, Desk!joining
    <3>4. QED
      BY <2>1, <3>2, <3>3 DEF Begins
  <2>6. QED
    BY <2>3, <2>4, <2>5
<1>3. CASE Crash
  BY <1>3
<1>4. CASE KeepLeave \/ KeepDay \/ KeepExit \/ UNCHANGED staff
  BY <1>4 DEF KeepLeave, KeepDay, KeepExit, staff
<1>5. QED
  BY <1>1, <1>2, <1>3, <1>4 DEF StaffNext

(* A statement that does not look further ahead leaves the rest or nothing. *)
LEMMA RunsOn ==
  ASSUME DeskInv, NEW c \in Calls, JoiningRuns(c) \/ PapersRuns(c)
  PROVE  \E do : Desk!Runs(c, do) /\ (Desk!Done(c) \/ Desk!Fails(c))
<1>1. CASE JoiningRuns(c)
  BY <1>1 DEF JoiningRuns, Desk!FileRequest, Desk!Readdress, Desk!Unfile, Desk!Mark,
       Desk!DeleteLogin, Desk!LinkEmployee, Desk!FillProfile, Desk!CreateLogin, Desk!EmployRow,
       Desk!WriteEmployeeStatus, Desk!Recode
<1>2. CASE PapersRuns(c)
  BY <1>2 DEF PapersRuns, Desk!Attach, Desk!Replace, Desk!Unstore, Desk!Verify,
       Desk!StoreOriginal, Desk!Drop, Desk!DraftLetter, Desk!WriteText,
       Desk!WriteLetterStatus, Desk!MailLetter, Desk!OnRow, Desk!OnLetter
<1>3. QED
  BY <1>1, <1>2

LEMMA Enters ==
  ASSUME DeskInv, NEW c \in Calls, Desk!EnterEmployee(c)
  PROVE  /\ Desk!Runs(c, "enter") /\ UNCHANGED onb
         /\ \E s \in Statement :
              /\ s = Desk!It(c) /\ s.do = "enter" /\ s.who \in People /\ s.st \in Desk!Status
              /\ \/ Desk!Fails(c) /\ UNCHANGED <<login, joiner>>
                 \/ /\ login[s.who] = "none" /\ login' = [login EXCEPT ![s.who] = "staff"]
                    /\ joiner' = [joiner EXCEPT ![s.who] = [code |-> s.code, st |-> s.st,
                                                            filled |-> FALSE]]
                    /\ \/ s.f = 0 /\ Desk!Fails(c)
                       \/ /\ s.f \in Files
                          /\ \E v \in Seq(Statement) :
                               /\ Desk!Goes(c, v) /\ DOMAIN v = {1}
                               /\ v[1].do = "link" /\ v[1].f = s.f /\ v[1].who = s.who
<1>1. Desk!Runs(c, "enter") /\ UNCHANGED onb
  BY DEF Desk!EnterEmployee
<1>2. PICK s \in Statement : s = Desk!It(c) /\ s.do = "enter"
  BY <1>1, Running DEF DeskInv
<1>3. s.f \in Files \cup {0} /\ s.who \in People /\ s.st \in Desk!Status
  BY <1>2, JoiningParts
<1>4. PICK x : x = [do |-> "link", f |-> s.f, who |-> s.who]
  OBVIOUS
<1>5. \/ Desk!Fails(c) /\ UNCHANGED <<login, joiner>>
      \/ /\ login[s.who] = "none" /\ login' = [login EXCEPT ![s.who] = "staff"]
         /\ joiner' = [joiner EXCEPT ![s.who] = [code |-> s.code, st |-> s.st, filled |-> FALSE]]
         /\ \/ s.f = 0 /\ Desk!Goes(c, <<>>)
            \/ s.f # 0 /\ Desk!Goes(c, <<x>>)
  BY <1>2, <1>4 DEF Desk!EnterEmployee, Desk!Hired
<1>6. ASSUME s.f \in Files, Desk!Goes(c, <<x>>)
      PROVE  \E v \in Seq(Statement) :
               /\ Desk!Goes(c, v) /\ DOMAIN v = {1}
               /\ v[1].do = "link" /\ v[1].f = s.f /\ v[1].who = s.who
  <2>1. x \in Statement /\ x.do = "link" /\ x.f = s.f /\ x.who = s.who
    BY <1>3, <1>4, <1>6 DEF Statement, JoiningStatement
  <2>2. PICK v \in Seq(Statement) : v = <<x>>
    BY <2>1, Sequences
  <2>3. DOMAIN v = {1} /\ v[1] = x
    BY <2>2
  <2>4. Desk!Goes(c, v)
    BY <1>6, <2>2
  <2>5. QED
    BY <2>1, <2>3, <2>4
<1>7. Desk!Goes(c, <<>>) <=> Desk!Fails(c)
  BY DEF Desk!Fails
<1>8. QED
  BY <1>1, <1>2, <1>3, <1>5, <1>6, <1>7

LEMMA CallsStep ==
  ASSUME DeskInv, CallsInv, [StaffNext]_staff
  PROVE  CallsInv'
<1>1. ASSUME NEW c \in Calls, duty' = duty, Looking(c)
      PROVE  CallsInv'
  <2>1. PICK do \in {"lookup", "code", "sheet", "row", "pdf"} : Desk!Runs(c, do)
    BY <1>1, LooksAhead DEF Looking
  <2>2. PICK t \in Seq(Statement), s \in Statement :
          /\ t = doing[c].todo /\ s = Desk!It(c) /\ s.do = do
          /\ 1 \in DOMAIN t /\ t[1] = s /\ Busy(c)
    BY <2>1, ItsList
  <2>3. Belongs(doing[c].op, s)
    BY <2>2 DEF CallsInv
  <2>4. CASE Desk!Fails(c)
    BY <1>1, <2>1, <2>4, CallsRest
  <2>5. ASSUME NEW v \in Seq(Statement), Desk!Goes(c, v), Ahead(s, v)
        PROVE  CallsInv'
    <3>1. PICK op : op = doing[c].op
      OBVIOUS
    <3>2. \A i \in DOMAIN v : Belongs(op, v[i])
      <4>1. CASE s.do = "lookup"
        <5>1. s.f \in Files /\ 0 \notin Files
          BY <4>1, JoiningParts, DeskDuty DEF DeskInv, DeskTyped
        <5>2. QED
          BY <2>3, <2>5, <3>1, <4>1, <5>1 DEF Ahead, Belongs
      <4>2. CASE s.do = "code"
        BY <2>3, <2>5, <3>1, <4>2 DEF Ahead, Belongs
      <4>3. CASE s.do = "sheet"
        BY <2>3, <2>5, <3>1, <4>3 DEF Ahead, Belongs
      <4>4. CASE s.do = "row"
        <5>1. op = "bulk"
          BY <2>3, <3>1, <4>4 DEF Belongs
        <5>2. CASE DOMAIN v \subseteq {1} /\ (1 \in DOMAIN v => v[1].do = "row")
          BY <5>1, <5>2 DEF Belongs
        <5>3. CASE \E p \in People : RowOf(p, s.code, v)
          <6>1. PICK p \in People : RowOf(p, s.code, v)
            BY <5>3
          <6>2. Nobody \notin People
            BY DeskDuty DEF DeskInv, DeskTyped
          <6>3. v[3].row.link # Nobody /\ v[3].row.st = "ACCOUNT_CREATED"
            BY <6>1, <6>2 DEF RowOf, Desk!Own
          <6>4. Belongs(op, v[1]) /\ Belongs(op, v[2]) /\ Belongs(op, v[3])
            <7>1. Belongs(op, v[1])
              BY <5>1, <6>1 DEF RowOf, Belongs
            <7>2. Belongs(op, v[2])
              BY <5>1, <6>1 DEF RowOf, Belongs
            <7>3. Belongs(op, v[3])
              BY <5>1, <6>1, <6>3 DEF RowOf, Belongs
            <7>4. QED
              BY <7>1, <7>2, <7>3
          <6>5. 4 \in DOMAIN v /\ v[4].do = "row" => Belongs(op, v[4])
            BY <5>1 DEF Belongs
          <6>6. QED
            BY <6>1, <6>4, <6>5 DEF RowOf
        <5>4. QED
          BY <2>5, <4>4, <5>2, <5>3 DEF Ahead
      <4>5. CASE s.do = "pdf"
        <5>1. op = "approveLetter"
          BY <2>3, <3>1, <4>5 DEF Belongs
        <5>2. /\ DOMAIN v = {1, 2, 3} /\ v[1].do = "letter" /\ v[1].st = "APPROVED"
              /\ v[2].do = "mail" /\ v[3].do = "letter" /\ v[3].st = "SENT"
          BY <2>5, <4>5 DEF Ahead
        <5>3. Belongs(op, v[1]) /\ Belongs(op, v[2]) /\ Belongs(op, v[3])
          BY <5>1, <5>2 DEF Belongs
        <5>4. QED
          BY <5>2, <5>3
      <4>6. QED
        BY <2>2, <4>1, <4>2, <4>3, <4>4, <4>5
    <3>3. QED
      BY <1>1, <2>2, <2>5, <3>1, <3>2, CallsGoOn
  <2>6. QED
    BY <1>1, <2>2, <2>4, <2>5, LooksAhead DEF Looking
<1>2. ASSUME NEW c \in Calls, duty' = duty, Desk!EnterEmployee(c)
      PROVE  CallsInv'
  <2>1. PICK s \in Statement :
          /\ s = Desk!It(c) /\ s.do = "enter" /\ Desk!Runs(c, "enter")
          /\ \/ Desk!Fails(c)
             \/ /\ s.f \in Files
                /\ \E v \in Seq(Statement) :
                     /\ Desk!Goes(c, v) /\ DOMAIN v = {1}
                     /\ v[1].do = "link" /\ v[1].f = s.f /\ v[1].who = s.who
    BY <1>2, Enters
  <2>2. CASE Desk!Fails(c)
    BY <1>2, <2>1, <2>2, CallsRest
  <2>3. ASSUME s.f \in Files, NEW v \in Seq(Statement), Desk!Goes(c, v),
               DOMAIN v = {1}, v[1].do = "link"
        PROVE  CallsInv'
    <3>1. PICK op, t : op = doing[c].op /\ t = doing[c].todo
      OBVIOUS
    <3>2. 1 \in DOMAIN t /\ t[1] = s /\ Busy(c)
      BY <2>1, <3>1, ItsList
    <3>3. Belongs(op, s) /\ s.f # 0
      BY <2>3, <3>1, <3>2, DeskDuty DEF CallsInv, DeskInv, DeskTyped
    <3>4. \A i \in DOMAIN v : Belongs(op, v[i])
      BY <2>1, <2>3, <3>3 DEF Belongs
    <3>5. QED
      BY <1>2, <2>3, <3>1, <3>2, <3>4, CallsGoOn
  <2>4. QED
    BY <2>1, <2>2, <2>3
<1>3. CASE UNCHANGED <<duty, office>>
  BY <1>3 DEF office, CallsInv, Busy, Desk!NotDuring, Desk!Serial
<1>4. CASE Crash
  <2>1. \A k \in Calls : doing'[k] = Desk!Idle
    BY <1>4 DEF Crash
  <2>2. QED
    BY <2>1 DEF CallsInv, Busy
<1>5. ASSUME NEW c \in Calls, duty' = duty, Begins(c)
      PROVE  CallsInv'
  BY <1>5, CallsBegin DEF Begins
<1>6. ASSUME NEW c \in Calls, duty' = duty, JoiningRuns(c) \/ PapersRuns(c)
      PROVE  CallsInv'
  BY <1>6, RunsOn, CallsRest
<1>7. QED
  BY <1>1, <1>2, <1>3, <1>4, <1>5, <1>6, DeskMoves DEF Looks, Joins, Handles

(* The list of c, what it runs and the rest; and the others, which wait.   *)
Now(c, t, r, s) ==
  /\ t = doing[c].todo /\ r = Desk!Rest(c) /\ s = Desk!It(c) /\ s \in Statement
  /\ 1 \in DOMAIN t /\ t[1] = s /\ Busy(c)
  /\ \A i \in DOMAIN t : t[i] \in Statement /\ i \in Nat /\ i >= 1
  /\ \A i \in DOMAIN r : i + 1 \in DOMAIN t /\ i \in Nat /\ i >= 1 /\ r[i] = t[i + 1]
  /\ \A i \in DOMAIN t : i # 1 => i - 1 \in DOMAIN r
  /\ \A i \in DOMAIN r : i > 1 => i - 1 \in DOMAIN r /\ r[i - 1] = t[i]
OthersWait(c) == \A k \in Calls : k # c => doing'[k] = doing[k]

LEMMA StatementRuns ==
  ASSUME DeskInv, NEW c \in Calls, JoiningRuns(c) \/ PapersRuns(c)
  PROVE  \E t, r, s : /\ Now(c, t, r, s) /\ OthersWait(c)
                      /\ Desk!Done(c) \/ Desk!Fails(c)
                      /\ Desk!Done(c) => doing'[c].todo = r
                      /\ Desk!Fails(c) => doing'[c].todo = <<>>
<1>1. PICK do : Desk!Runs(c, do) /\ (Desk!Done(c) \/ Desk!Fails(c))
  BY RunsOn
<1>2. PICK t, r, s : Now(c, t, r, s)
  BY <1>1, ItsList DEF Now
<1>3. Desk!Done(c) => OthersWait(c) /\ doing'[c].todo = r
  BY <1>2, LeftWith DEF Desk!Done, OthersWait, Now
<1>4. Desk!Fails(c) => OthersWait(c) /\ doing'[c].todo = <<>>
  BY LeftWith DEF Desk!Fails, OthersWait
<1>5. QED
  BY <1>1, <1>2, <1>3, <1>4

LEMMA LookRuns ==
  ASSUME DeskInv, NEW c \in Calls, Looks(c)
  PROVE  /\ OthersWait(c) /\ UNCHANGED <<login, joiner, onb, paper, letter>>
         /\ \E t, r, s : /\ Now(c, t, r, s) /\ s.do \in {"lookup", "code", "sheet", "row", "pdf"}
                         /\ doing'[c].todo = <<>> \/ Ahead(s, doing'[c].todo)
<1>1. Looking(c) /\ UNCHANGED <<login, joiner, onb, paper, letter>>
  BY DEF Looks
<1>2. PICK do \in {"lookup", "code", "sheet", "row", "pdf"} : Desk!Runs(c, do)
  BY <1>1, LooksAhead DEF Looking
<1>3. PICK t, r, s : Now(c, t, r, s) /\ s.do = do
  BY <1>2, ItsList DEF Now
<1>4. OthersWait(c) /\ (doing'[c].todo = <<>> \/ Ahead(s, doing'[c].todo))
  <2>1. CASE Desk!Fails(c)
    BY <2>1, LeftWith DEF Desk!Fails, OthersWait
  <2>2. ASSUME NEW v \in Seq(Statement), Desk!Goes(c, v), Ahead(Desk!It(c), v)
        PROVE  OthersWait(c) /\ Ahead(s, doing'[c].todo)
    <3>1. doing'[c].todo = v /\ OthersWait(c)
      BY <2>2, LeftWith DEF OthersWait
    <3>2. QED
      BY <1>3, <2>2, <3>1 DEF Now
  <2>3. QED
    BY <1>1, <2>1, <2>2, LooksAhead DEF Looking
<1>5. QED
  BY <1>1, <1>3, <1>4

LEMMA BeginRuns ==
  ASSUME DeskInv, NEW c \in Calls, Begins(c)
  PROVE  /\ OthersWait(c) /\ UNCHANGED <<login, joiner, onb, paper, letter>>
         /\ c \in duty.calls /\ doing[c] = Desk!Idle
         /\ \A d \in Calls : doing[d].op \notin duty.alone
         /\ \E op : /\ Fresh(op, doing'[c].todo) /\ op \in duty.ops
                    /\ op \in duty.alone => \A d \in Calls : doing[d] = Desk!Idle
<1>1. PICK op, todo : Fresh(op, todo) /\ Desk!Asks(c, op, todo)
  BY DEF Begins
<1>2. /\ op \in duty.ops /\ Desk!Start(c, op, todo) /\ c \in duty.calls /\ doing[c] = Desk!Idle
      /\ \A d \in Calls : doing[d].op \notin duty.alone
      /\ op \in duty.alone => \A d \in Calls : doing[d] = Desk!Idle
  BY <1>1 DEF Desk!Asks, Desk!Free, Desk!AllIdle
<1>3. OthersWait(c) /\ doing'[c].todo = todo
  BY <1>2, Doing DEF DeskInv, DeskTyped, OthersWait
<1>4. QED
  BY <1>1, <1>2, <1>3 DEF Begins

LEMMA EnterRuns ==
  ASSUME DeskInv, NEW c \in Calls, Desk!EnterEmployee(c)
  PROVE  /\ OthersWait(c) /\ UNCHANGED onb
         /\ \E t, r, s :
              /\ Now(c, t, r, s) /\ s.do = "enter" /\ s.who \in People /\ s.st \in Desk!Status
              /\ \/ UNCHANGED <<login, joiner>> /\ doing'[c].todo = <<>>
                 \/ /\ login[s.who] = "none" /\ login' = [login EXCEPT ![s.who] = "staff"]
                    /\ joiner' = [joiner EXCEPT ![s.who] = [code |-> s.code, st |-> s.st,
                                                            filled |-> FALSE]]
                    /\ \/ s.f = 0 /\ doing'[c].todo = <<>>
                       \/ /\ s.f \in Files /\ DOMAIN doing'[c].todo = {1}
                          /\ doing'[c].todo[1].do = "link" /\ doing'[c].todo[1].f = s.f
                          /\ doing'[c].todo[1].who = s.who
<1>1. Desk!Runs(c, "enter") /\ UNCHANGED onb
  BY Enters
<1>2. PICK t, r, s : Now(c, t, r, s)
  BY <1>1, ItsList DEF Now
<1>3. s = Desk!It(c)
  BY <1>2 DEF Now
<1>4. Desk!Fails(c) => OthersWait(c) /\ doing'[c].todo = <<>>
  BY LeftWith DEF Desk!Fails, OthersWait
<1>5. \A v : Desk!Goes(c, v) => OthersWait(c) /\ doing'[c].todo = v
  BY LeftWith DEF OthersWait
<1>6. PICK u : /\ u = Desk!It(c) /\ u.do = "enter" /\ u.who \in People /\ u.st \in Desk!Status
               /\ \/ Desk!Fails(c) /\ UNCHANGED <<login, joiner>>
                  \/ /\ login[u.who] = "none" /\ login' = [login EXCEPT ![u.who] = "staff"]
                     /\ joiner' = [joiner EXCEPT ![u.who] = [code |-> u.code, st |-> u.st,
                                                             filled |-> FALSE]]
                     /\ \/ u.f = 0 /\ Desk!Fails(c)
                        \/ /\ u.f \in Files
                           /\ \E v \in Seq(Statement) :
                                /\ Desk!Goes(c, v) /\ DOMAIN v = {1}
                                /\ v[1].do = "link" /\ v[1].f = u.f /\ v[1].who = u.who
  BY Enters
<1>7. u = s
  BY <1>3, <1>6
<1>8. CASE Desk!Fails(c) /\ UNCHANGED <<login, joiner>>
  BY <1>1, <1>2, <1>4, <1>6, <1>7, <1>8
<1>9. CASE /\ login[s.who] = "none" /\ login' = [login EXCEPT ![s.who] = "staff"]
           /\ joiner' = [joiner EXCEPT ![s.who] = [code |-> s.code, st |-> s.st,
                                                   filled |-> FALSE]]
  <2>1. CASE s.f = 0 /\ Desk!Fails(c)
    BY <1>1, <1>2, <1>4, <1>6, <1>7, <1>9, <2>1
  <2>2. ASSUME s.f \in Files, NEW v \in Seq(Statement), Desk!Goes(c, v), DOMAIN v = {1},
               v[1].do = "link", v[1].f = s.f, v[1].who = s.who
        PROVE  /\ OthersWait(c) /\ DOMAIN doing'[c].todo = {1} /\ doing'[c].todo[1].do = "link"
               /\ doing'[c].todo[1].f = s.f /\ doing'[c].todo[1].who = s.who
    BY <1>5, <2>2
  <2>3. CASE s.f \in Files /\ \E v \in Seq(Statement) :
                                /\ Desk!Goes(c, v) /\ DOMAIN v = {1}
                                /\ v[1].do = "link" /\ v[1].f = s.f /\ v[1].who = s.who
    <3>1. /\ OthersWait(c) /\ DOMAIN doing'[c].todo = {1} /\ doing'[c].todo[1].do = "link"
          /\ doing'[c].todo[1].f = s.f /\ doing'[c].todo[1].who = s.who
      BY <2>2, <2>3
    <3>2. s.do = "enter" /\ s.who \in People /\ s.st \in Desk!Status
      BY <1>6, <1>7
    <3>3. QED
      BY <1>1, <1>2, <1>9, <2>3, <3>1, <3>2
  <2>4. QED
    BY <1>6, <1>7, <1>8, <1>9, <2>1, <2>3
<1>10. QED
  BY <1>6, <1>7, <1>8, <1>9

(* What a statement writes: a document of a person, a letter, a request, a *)
(* login or an employee, and nothing else.                                 *)
OnlyRow(p, d) == \A q \in People, e \in Slots : q # p \/ e # d => paper'[q][e] = paper[q][e]
OnlyLetter(p) == \A q \in People : q # p => letter'[q] = letter[q]

RowWritten(s, was, doc) ==
  CASE s.do = "replace" -> /\ doc.st = "there" /\ doc.stored
                           /\ doc.verified = was.verified /\ doc.seen = was.seen
    [] s.do = "unstore" -> /\ doc.st = "there" /\ doc.file = was.file
                           /\ doc.verified = was.verified /\ doc.seen = was.seen
    [] s.do = "verify" -> /\ doc.st = "there" /\ doc.file = was.file /\ doc.stored = was.stored
                          /\ doc.seen = s.seen
    [] s.do = "original" -> /\ doc.st = "there" /\ doc.file = was.file
                            /\ doc.stored = was.stored
                            /\ doc.verified = was.verified /\ doc.seen = was.seen
    [] s.do = "drop" -> /\ doc.st = "deleted" /\ doc.file = was.file
                        /\ doc.verified = was.verified /\ doc.seen = was.seen
    [] OTHER -> FALSE

OnPaper == {"replace", "unstore", "verify", "original", "drop"}
OnLetters == {"draft", "text", "letter", "mail"}

PaperWrote(c, s) ==
  /\ UNCHANGED letter
  /\ \/ /\ s.do \in OnPaper /\ Desk!Fails(c) /\ UNCHANGED paper
        /\ paper[s.p][s.d].st # "there"
     \/ /\ s.do \in OnPaper /\ Desk!Done(c) /\ s.p \in People /\ s.d \in Slots
        /\ OnlyRow(s.p, s.d) /\ paper[s.p][s.d].st = "there"
        /\ RowWritten(s, paper[s.p][s.d], paper'[s.p][s.d])
     \/ /\ s.do = "attach" /\ Desk!Done(c) /\ s.p \in People
        /\ \E d \in Slots :
             /\ OnlyRow(s.p, d) /\ paper[s.p][d].st = "none" /\ paper'[s.p][d].st = "there"
             /\ ~paper'[s.p][d].verified
             /\ paper'[s.p][d].file # 0 => paper'[s.p][d].stored

LEMMA DocumentWrites ==
  ASSUME DeskInv, NEW c \in Calls, NEW s \in Statement, s = Desk!It(c), NEW do \in OnPaper,
         NEW doc, Desk!OnRow(c, do, doc),
         RowWritten(s, paper[s.p][s.d], doc)
  PROVE  PaperWrote(c, s)
<1>1. /\ Desk!Runs(c, do) /\ UNCHANGED letter
      /\ IF paper[s.p][s.d].st = "there"
         THEN Desk!Done(c) /\ paper' = [paper EXCEPT ![s.p][s.d] = doc]
         ELSE Desk!Fails(c) /\ UNCHANGED paper
  BY DEF Desk!OnRow
<1>2. s.do = do
  BY <1>1, Running DEF DeskInv
<1>3. s.p \in People /\ s.d \in Slots
  BY <1>2, PapersParts DEF OnPaper
<1>4. CASE paper[s.p][s.d].st = "there"
  <2>1. PICK p \in People, d \in Slots : p = s.p /\ d = s.d
    BY <1>3
  <2>2. paper \in [People -> [Slots -> Desk!Document]]
    BY DEF DeskInv, DeskTyped, Desk!PapersTypeOK
  <2>3. paper' = [paper EXCEPT ![p] = [paper[p] EXCEPT ![d] = doc]]
    BY <1>1, <1>4, <2>1
  <2>4. paper'[p][d] = doc /\ OnlyRow(p, d)
    BY <2>2, <2>3 DEF OnlyRow
  <2>5. QED
    BY <1>1, <1>2, <1>4, <2>1, <2>4 DEF PaperWrote
<1>5. CASE paper[s.p][s.d].st # "there"
  BY <1>1, <1>2, <1>5 DEF PaperWrote
<1>6. QED
  BY <1>4, <1>5

LEMMA PaperWrites ==
  ASSUME DeskInv, NEW c \in Calls, NEW s \in Statement, s = Desk!It(c),
         \/ Desk!Attach(c) \/ Desk!Replace(c) \/ Desk!Unstore(c) \/ Desk!Verify(c)
         \/ Desk!StoreOriginal(c) \/ Desk!Drop(c)
  PROVE  PaperWrote(c, s)
<1>1. \A p \in People, d \in Slots : paper[p][d] \in Desk!Document
  BY DEF DeskInv, DeskTyped, Desk!PapersTypeOK
<1>2. ASSUME NEW do, Desk!Runs(c, do)
      PROVE  s.do = do
  BY <1>2, Running DEF DeskInv
<1>3. ASSUME NEW do \in OnPaper, NEW doc, Desk!OnRow(c, do, doc),
             Desk!Runs(c, do) /\ (s.p \in People /\ s.d \in Slots
                /\ paper[s.p][s.d] \in Desk!Document /\ s.do = do
                /\ paper[s.p][s.d].st = "there"
                => RowWritten(s, paper[s.p][s.d], doc))
      PROVE  PaperWrote(c, s)
  <2>1. s.do = do /\ s.p \in People /\ s.d \in Slots
    <3>1. s.do = do
      BY <1>2, <1>3
    <3>2. QED
      BY <3>1, PapersParts DEF OnPaper
  <2>2. CASE paper[s.p][s.d].st = "there"
    BY <1>1, <1>3, <2>1, <2>2, DocumentWrites
  <2>3. CASE paper[s.p][s.d].st # "there"
    BY <1>3, <2>1, <2>3 DEF Desk!OnRow, PaperWrote
  <2>4. QED
    BY <2>2, <2>3
<1>4. CASE Desk!Attach(c)
  <2> DEFINE free(p) == {d \in Slots : paper[p][d].st = "none"}
             first(p) == CHOOSE d \in free(p) : \A e \in free(p) : d <= e
             n0(p) == IF s.scan THEN Desk!Newest(p) + 1 ELSE 0
             doc(p) == [Desk!NoDocument EXCEPT !.st = "there", !.original = ~s.scan,
                                               !.stored = s.scan, !.file = n0(p)]
  <2>1. /\ Desk!Runs(c, "attach") /\ Desk!Done(c) /\ free(s.p) # {} /\ UNCHANGED letter
        /\ paper' = [paper EXCEPT ![s.p][first(s.p)] = doc(s.p)]
    BY <1>4 DEF Desk!Attach
  <2>2. s.do = "attach" /\ s.p \in People /\ s.scan \in BOOLEAN
    <3>1. s.do = "attach"
      BY <1>2, <2>1
    <3>2. QED
      BY <3>1, PapersParts
  <2>3. PICK p \in People, d \in Slots : p = s.p /\ d = first(s.p) /\ paper[p][d].st = "none"
    <3>1. free(s.p) \in SUBSET Nat
      BY DeskDuty DEF DeskInv, DeskTyped
    <3> HIDE DEF free
    <3>2. \E x \in free(s.p) : \A y \in free(s.p) : x <= y
      BY <2>1, <3>1, SmallestOf
    <3>3. first(s.p) \in free(s.p)
      BY <3>2
    <3>4. QED
      BY <2>2, <3>3 DEF free
  <2> HIDE DEF first, free
  <2>4. doc(p).st = "there" /\ ~doc(p).verified /\ (doc(p).file # 0 => doc(p).stored)
    BY <2>2 DEF Desk!NoDocument
  <2> HIDE DEF doc
  <2>5. paper \in [People -> [Slots -> Desk!Document]]
    BY DEF DeskInv, DeskTyped, Desk!PapersTypeOK
  <2>6. paper' = [paper EXCEPT ![p] = [paper[p] EXCEPT ![d] = doc(p)]]
    BY <2>1, <2>3
  <2>7. paper'[p][d] = doc(p) /\ OnlyRow(p, d)
    BY <2>5, <2>6 DEF OnlyRow
  <2>8. QED
    BY <2>1, <2>2, <2>3, <2>4, <2>7 DEF PaperWrote
<1>5. CASE Desk!Replace(c)
  BY <1>3, <1>5 DEF Desk!Replace, RowWritten, OnPaper, Desk!Document
<1>6. CASE Desk!Unstore(c)
  BY <1>3, <1>6 DEF Desk!Unstore, RowWritten, OnPaper, Desk!Document
<1>7. CASE Desk!Verify(c)
  BY <1>3, <1>7 DEF Desk!Verify, RowWritten, OnPaper, Desk!Document
<1>8. CASE Desk!StoreOriginal(c)
  BY <1>3, <1>8 DEF Desk!StoreOriginal, RowWritten, OnPaper, Desk!Document
<1>9. CASE Desk!Drop(c)
  BY <1>3, <1>9 DEF Desk!Drop, RowWritten, OnPaper, Desk!Document
<1>10. QED
  BY <1>4, <1>5, <1>6, <1>7, <1>8, <1>9

NewLetter(s, was, new) ==
  CASE s.do = "draft" -> /\ was.st = "none" /\ new.st = "DRAFT"
                         /\ new.mails = was.mails /\ new.mailed = was.mailed
    [] s.do = "text" -> /\ new.st = "DRAFT" /\ new.mails = was.mails /\ new.mailed = was.mailed
    [] s.do = "letter" -> /\ new.st = s.st /\ new.text = was.text
                          /\ new.mails = was.mails /\ new.mailed = was.mailed
    [] s.do = "mail" -> /\ new.st = was.st /\ new.text = was.text /\ new.mailed = s.text
                        /\ new.mails = IF was.mails = 0 THEN 1 ELSE 2
    [] OTHER -> FALSE

LetterWrote(c, s) ==
  /\ UNCHANGED paper
  /\ \/ Desk!Fails(c) /\ UNCHANGED letter
     \/ /\ s.do \in OnLetters /\ Desk!Done(c) /\ s.p \in People
        /\ OnlyLetter(s.p) /\ NewLetter(s, letter[s.p], letter'[s.p])
        /\ s.do # "mail" => letter[s.p].st # "removed"

LEMMA LetterWrites ==
  ASSUME DeskInv, NEW c \in Calls, NEW s \in Statement, s = Desk!It(c),
         \/ Desk!DraftLetter(c) \/ Desk!WriteText(c) \/ Desk!WriteLetterStatus(c)
         \/ Desk!MailLetter(c)
  PROVE  LetterWrote(c, s) /\ s.do \in OnLetters
<1>1. letter \in [People -> Desk!AppointmentLetter]
  BY DEF DeskInv, DeskTyped, Desk!PapersTypeOK
<1>2. ASSUME NEW do \in OnLetters, Desk!Runs(c, do)
      PROVE  s.do = do /\ s.p \in People
  <2>1. s.do = do
    BY <1>2, Running DEF DeskInv
  <2>2. QED
    BY <2>1, PapersParts DEF OnLetters
<1>3. ASSUME NEW do \in OnLetters, s.do = do, NEW p \in People, s.p = p, Desk!Done(c), UNCHANGED paper,
             NEW new \in Desk!AppointmentLetter, letter' = [letter EXCEPT ![p] = new],
             NewLetter(s, letter[p], new), do # "mail" => letter[p].st # "removed"
      PROVE  LetterWrote(c, s)
  <2>1. letter'[p] = new /\ OnlyLetter(p)
    BY <1>1, <1>3 DEF OnlyLetter
  <2>2. QED
    BY <1>3, <2>1 DEF LetterWrote
<1>4. CASE Desk!DraftLetter(c)
  <2>1. Desk!Runs(c, "draft") /\ Desk!Done(c) /\ UNCHANGED paper
    BY <1>4 DEF Desk!DraftLetter
  <2>2. PICK p \in People : p = s.p /\ s.do = "draft"
    BY <1>2, <2>1 DEF OnLetters
  <2> DEFINE new == [letter[p] EXCEPT !.st = "DRAFT", !.text = 1]
  <2>3. letter[p].st = "none" /\ letter' = [letter EXCEPT ![p].st = "DRAFT", ![p].text = 1]
    BY <1>4, <2>2 DEF Desk!DraftLetter
  <2>4. letter' = [letter EXCEPT ![p] = new]
    BY <1>1, <2>3 DEF Desk!AppointmentLetter
  <2>5. new \in Desk!AppointmentLetter /\ NewLetter(s, letter[p], new)
    BY <1>1, <2>2, <2>3 DEF Desk!AppointmentLetter, Desk!AppointmentLetterStatus, NewLetter
  <2> HIDE DEF new
  <2>6. QED
    BY <1>3, <2>1, <2>2, <2>3, <2>4, <2>5 DEF OnLetters
<1>5. CASE Desk!WriteText(c)
  <2>1. Desk!Runs(c, "text") /\ UNCHANGED paper
    BY <1>5 DEF Desk!WriteText, Desk!OnLetter
  <2>2. PICK p \in People : p = s.p /\ s.do = "text"
    BY <1>2, <2>1 DEF OnLetters
  <2> DEFINE new == [letter[p] EXCEPT !.st = "DRAFT", !.text = @ + 1]
  <2>3. \/ letter[p].st # "removed" /\ Desk!Done(c) /\ letter' = [letter EXCEPT ![p] = new]
        \/ Desk!Fails(c) /\ UNCHANGED letter
    BY <1>5, <2>2 DEF Desk!WriteText, Desk!OnLetter
  <2>4. new \in Desk!AppointmentLetter
    <3>1. 0 \in Nat /\ 0 \in 0 .. 2 /\ "removed" \in Desk!AppointmentLetterStatus \cup {"removed"}
      OBVIOUS
    <3>2. QED
      BY <1>1, <3>1, LetterEdited
  <2>4a. NewLetter(s, letter[p], new)
    <3>1. /\ new.st = "DRAFT" /\ new.mails = letter[p].mails /\ new.mailed = letter[p].mailed
      BY <1>1 DEF Desk!AppointmentLetter
    <3>2. QED
      BY <2>2, <3>1 DEF NewLetter
  <2> HIDE DEF new
  <2>5. CASE Desk!Fails(c) /\ UNCHANGED letter
    BY <2>1, <2>2, <2>5 DEF LetterWrote, OnLetters
  <2>6. QED
    BY <1>3, <2>1, <2>2, <2>3, <2>4, <2>4a, <2>5 DEF OnLetters
<1>6. CASE Desk!WriteLetterStatus(c)
  <2>1. Desk!Runs(c, "letter") /\ UNCHANGED paper
    BY <1>6 DEF Desk!WriteLetterStatus, Desk!OnLetter
  <2>2. PICK p \in People : p = s.p /\ s.do = "letter"
    BY <1>2, <2>1 DEF OnLetters
  <2>3. PICK st \in Desk!AppointmentLetterStatus \cup {"removed"} : st = s.st
    BY <2>2, PapersParts
  <2> DEFINE new == [letter[p] EXCEPT !.st = st]
  <2>4. \/ letter[p].st # "removed" /\ Desk!Done(c) /\ letter' = [letter EXCEPT ![p] = new]
        \/ Desk!Fails(c) /\ UNCHANGED letter
    BY <1>6, <2>2, <2>3 DEF Desk!WriteLetterStatus, Desk!OnLetter
  <2>5. new \in Desk!AppointmentLetter /\ NewLetter(s, letter[p], new)
    BY <1>1, <2>2, <2>3 DEF Desk!AppointmentLetter, NewLetter
  <2> HIDE DEF new
  <2>6. CASE Desk!Fails(c) /\ UNCHANGED letter
    BY <2>1, <2>2, <2>6 DEF LetterWrote, OnLetters
  <2>7. QED
    BY <1>3, <2>1, <2>2, <2>4, <2>5, <2>6 DEF OnLetters
<1>7. CASE Desk!MailLetter(c)
  <2>1. Desk!Runs(c, "mail") /\ UNCHANGED paper
    BY <1>7 DEF Desk!MailLetter
  <2>2. PICK p \in People : p = s.p /\ s.do = "mail"
    BY <1>2, <2>1 DEF OnLetters
  <2>3. PICK n \in Nat : n = s.text
    BY <2>2, PapersParts
  <2> DEFINE new == [letter[p] EXCEPT !.mailed = n,
                                      !.mails = IF letter[p].mails = 0 THEN 1 ELSE 2]
  <2>4. \/ Desk!Done(c) /\ letter' = [letter EXCEPT ![p].mailed = n,
                                        ![p].mails = IF @ = 0 THEN 1 ELSE 2]
        \/ Desk!Fails(c) /\ UNCHANGED letter
    BY <1>7, <2>2, <2>3 DEF Desk!MailLetter
  <2>5. [letter EXCEPT ![p].mailed = n, ![p].mails = IF @ = 0 THEN 1 ELSE 2]
          = [letter EXCEPT ![p] = new]
    BY <1>1 DEF Desk!AppointmentLetter
  <2>6. new \in Desk!AppointmentLetter
    <3>1. /\ (IF letter[p].mails = 0 THEN 1 ELSE 2) \in 0 .. 2
          /\ "removed" \in Desk!AppointmentLetterStatus \cup {"removed"}
      OBVIOUS
    <3>2. QED
      BY <1>1, <3>1, LetterEdited
  <2>6a. NewLetter(s, letter[p], new)
    <3>1. /\ new.st = letter[p].st /\ new.text = letter[p].text /\ new.mailed = n
          /\ new.mails = IF letter[p].mails = 0 THEN 1 ELSE 2
      BY <1>1 DEF Desk!AppointmentLetter
    <3>2. QED
      BY <2>2, <2>3, <3>1 DEF NewLetter
  <2> HIDE DEF new
  <2>7. CASE Desk!Fails(c) /\ UNCHANGED letter
    BY <2>1, <2>2, <2>7 DEF LetterWrote, OnLetters
  <2>8. QED
    BY <1>3, <2>1, <2>2, <2>4, <2>5, <2>6, <2>6a, <2>7 DEF OnLetters
<1>8. QED
  BY <1>4, <1>5, <1>6, <1>7

LEMMA AheadKinds ==
  ASSUME NEW s, NEW v, v = <<>> \/ Ahead(s, v), NEW i \in DOMAIN v
  PROVE  /\ v[i].do \in {"unlogin", "code", "enter", "row", "login", "employ", "file",
                         "letter", "mail"}
         /\ v[i].do \in {"letter", "mail"} => s.do = "pdf"
<1>1. CASE s.do \in {"lookup", "code", "sheet"}
  BY <1>1 DEF Ahead
<1>2. CASE s.do = "row"
  BY <1>2 DEF Ahead, RowOf
<1>3. CASE s.do = "pdf"
  BY <1>3 DEF Ahead
<1>4. QED
  BY <1>1, <1>2, <1>3 DEF Ahead

LEMMA HandleRuns ==
  ASSUME DeskInv, NEW c \in Calls, Handles(c)
  PROVE  /\ OthersWait(c) /\ UNCHANGED <<login, joiner, onb>>
         /\ \E t, r, s : /\ Now(c, t, r, s)
                         /\ doing'[c].todo \in {r, <<>>}
                         /\ Desk!Fails(c) => doing'[c].todo = <<>>
                         /\ Desk!Done(c) => doing'[c].todo = r
                         /\ PaperWrote(c, s) \/ (LetterWrote(c, s) /\ s.do \in OnLetters)
<1>1. PapersRuns(c) /\ UNCHANGED <<login, joiner, onb>>
  BY DEF Handles
<1>2. PICK t, r, s : /\ Now(c, t, r, s) /\ OthersWait(c)
                     /\ Desk!Done(c) \/ Desk!Fails(c)
                     /\ Desk!Done(c) => doing'[c].todo = r
                     /\ Desk!Fails(c) => doing'[c].todo = <<>>
  BY <1>1, StatementRuns
<1>3. s \in Statement /\ s = Desk!It(c)
  BY <1>2 DEF Now
<1>4. PaperWrote(c, s) \/ (LetterWrote(c, s) /\ s.do \in OnLetters)
  BY <1>1, <1>3, PaperWrites, LetterWrites DEF PapersRuns
<1>5. QED
  BY <1>1, <1>2, <1>4

-----------------------------------------------------------------------------
(* What the statements of the joining write.                               *)
OnlyFile(f) == \A g \in Files : g # f => onb'[g] = onb[g]
OnlyPerson(p) == \A q \in People : q # p => login'[q] = login[q] /\ joiner'[q] = joiner[q]

OnFiles == {"file", "readdress", "unfile", "mark", "link"}
OnPeople == {"unlogin", "login", "employ", "fill", "status", "recode"}

RequestWritten(s, f, was, new) ==
  CASE s.do = "file" -> /\ was.st = "none" /\ new = s.row
                        /\ s.row.link # Nobody => Desk!FileOf(s.row.link) = {}
    [] s.do = "readdress" -> /\ f = s.f /\ Desk!Live(f)
                             /\ new.st = was.st /\ new.link = was.link /\ new.who = s.who
    [] s.do = "unfile" -> /\ f = s.f /\ new.st = "removed"
                          /\ new.link = was.link /\ new.who = was.who
    [] s.do = "mark" -> /\ f = s.f /\ Desk!Live(f) /\ new.st = s.st
                        /\ new.link = was.link /\ new.who = was.who
    [] s.do = "link" -> /\ f = s.f /\ Desk!Live(f) /\ Desk!FileOf(s.who) \subseteq {f}
                        /\ new.st = "ACCOUNT_CREATED" /\ new.link = s.who /\ new.who = was.who
    [] OTHER -> FALSE

FileWrote(c, s) ==
  /\ UNCHANGED <<login, joiner>> /\ s.do \in OnFiles
  /\ \/ /\ Desk!Fails(c) /\ UNCHANGED onb
        /\ s.do = "file" => s.row.link # Nobody /\ Desk!FileOf(s.row.link) # {}
        /\ s.do = "link" => ~Desk!Live(s.f) \/ ~(Desk!FileOf(s.who) \subseteq {s.f})
     \/ Desk!Done(c) /\ \E f \in Files : OnlyFile(f) /\ RequestWritten(s, f, onb[f], onb'[f])

PersonWritten(s, p) ==
  CASE s.do = "unlogin" -> /\ login[p] \in {"bare", "student"} /\ login'[p] = "none"
                           /\ joiner'[p] = joiner[p]
    [] s.do = "login" -> /\ login[p] = "none" /\ login'[p] = "bare" /\ joiner'[p] = joiner[p]
    [] s.do = "employ" -> /\ login[p] = "bare" /\ login'[p] = "staff" /\ s.code \notin Desk!Codes
                          /\ joiner'[p].st = "ACTIVE" /\ joiner'[p].code = s.code
    [] s.do = "fill" -> /\ login'[p] = login[p] /\ joiner'[p].st = joiner[p].st
                        /\ joiner'[p].code = joiner[p].code /\ joiner'[p].filled = s.to
    [] s.do = "status" -> /\ login'[p] = login[p] /\ joiner'[p].st = s.st
                          /\ joiner'[p].code = joiner[p].code
                          /\ joiner'[p].filled = joiner[p].filled
    [] s.do = "recode" -> /\ login'[p] = login[p] /\ joiner'[p].st = joiner[p].st
                          /\ joiner'[p].code = s.code /\ joiner'[p].filled = joiner[p].filled
    [] OTHER -> FALSE

PersonWrote(c, s) ==
  /\ UNCHANGED onb /\ s.do \in OnPeople
  /\ \/ /\ Desk!Fails(c) /\ UNCHANGED <<login, joiner>> /\ s.do \notin {"fill", "status"}
        /\ s.do = "login" => login[s.who] # "none"
        /\ s.do = "employ" => login[s.who] # "bare" \/ s.code \in Desk!Codes
     \/ /\ Desk!Done(c) /\ s.who \in People /\ OnlyPerson(s.who) /\ PersonWritten(s, s.who)

LEMMA FileWrites ==
  ASSUME DeskInv, NEW c \in Calls, NEW s \in Statement, s = Desk!It(c),
         \/ Desk!FileRequest(c) \/ Desk!Readdress(c) \/ Desk!Unfile(c) \/ Desk!Mark(c)
         \/ Desk!LinkEmployee(c)
  PROVE  FileWrote(c, s)
<1>1. onb \in [Files -> Desk!OnboardingRequest]
  BY DEF DeskInv, DeskTyped, Desk!JoiningTypeOK
<1>2. ASSUME NEW do, Desk!Runs(c, do)
      PROVE  s.do = do
  BY <1>2, Running DEF DeskInv
<1>3. ASSUME NEW f \in Files, NEW row, onb' = [onb EXCEPT ![f] = row]
      PROVE  onb'[f] = row /\ OnlyFile(f)
  BY <1>1, <1>3 DEF OnlyFile
<1>4. CASE Desk!FileRequest(c)
  <2> DEFINE free == {f \in Files : onb[f].st = "none"}
             f0 == CHOOSE f \in free : \A g \in free : f <= g
  <2>1. /\ Desk!Runs(c, "file") /\ UNCHANGED <<login, joiner>>
        /\ \/ /\ Desk!Fails(c) /\ UNCHANGED onb
              /\ s.row.link # Nobody /\ Desk!FileOf(s.row.link) # {}
           \/ /\ s.row.link # Nobody => Desk!FileOf(s.row.link) = {}
              /\ free # {} /\ onb' = [onb EXCEPT ![f0] = s.row] /\ Desk!Done(c)
    BY <1>4 DEF Desk!FileRequest
  <2>2. s.do = "file"
    BY <1>2, <2>1
  <2>3. free # {} => f0 \in Files /\ onb[f0].st = "none"
    <3>1. free \in SUBSET Nat
      BY DeskDuty DEF DeskInv, DeskTyped
    <3>2. free # {} => \E x \in free : \A y \in free : x <= y
      BY <3>1, SmallestOf
    <3>3. free # {} => f0 \in free
      BY <3>2
    <3>4. QED
      BY <3>3
  <2> HIDE DEF free, f0
  <2>4. CASE Desk!Fails(c) /\ UNCHANGED onb /\ s.row.link # Nobody /\ Desk!FileOf(s.row.link) # {}
    BY <2>1, <2>2, <2>4 DEF FileWrote, OnFiles
  <2>5. CASE /\ s.row.link # Nobody => Desk!FileOf(s.row.link) = {}
             /\ free # {} /\ onb' = [onb EXCEPT ![f0] = s.row] /\ Desk!Done(c)
    <3>1. PICK f \in Files : f = f0 /\ onb[f].st = "none"
      BY <2>3, <2>5
    <3>2. onb'[f] = s.row /\ OnlyFile(f)
      BY <1>3, <2>5, <3>1
    <3>3. RequestWritten(s, f, onb[f], onb'[f])
      BY <2>2, <2>5, <3>1, <3>2 DEF RequestWritten
    <3>4. QED
      BY <2>1, <2>2, <2>5, <3>2, <3>3 DEF FileWrote, OnFiles
  <2>6. QED
    BY <2>1, <2>4, <2>5
<1>5. CASE Desk!Readdress(c)
  <2>1. /\ Desk!Runs(c, "readdress") /\ UNCHANGED <<login, joiner>>
        /\ \/ Desk!Live(s.f) /\ Desk!Done(c) /\ onb' = [onb EXCEPT ![s.f].who = s.who]
           \/ Desk!Fails(c) /\ UNCHANGED onb
    BY <1>5 DEF Desk!Readdress
  <2>2. s.do = "readdress" /\ s.f \in Files
    <3>1. s.do = "readdress"
      BY <1>2, <2>1
    <3>2. QED
      BY <3>1, JoiningParts
  <2>3. PICK f \in Files : f = s.f
    BY <2>2
  <2> DEFINE row == [onb[f] EXCEPT !.who = s.who]
  <2>4. /\ row.st = onb[f].st /\ row.link = onb[f].link /\ row.who = s.who
        /\ [onb EXCEPT ![f].who = s.who] = [onb EXCEPT ![f] = row]
    BY <1>1 DEF Desk!OnboardingRequest
  <2> HIDE DEF row
  <2>5. CASE Desk!Live(s.f) /\ Desk!Done(c) /\ onb' = [onb EXCEPT ![s.f].who = s.who]
    <3>1. onb'[f] = row /\ OnlyFile(f)
      BY <1>3, <2>3, <2>4, <2>5
    <3>2. RequestWritten(s, f, onb[f], onb'[f])
      BY <2>2, <2>3, <2>4, <2>5, <3>1 DEF RequestWritten
    <3>3. QED
      BY <2>1, <2>2, <2>5, <3>1, <3>2 DEF FileWrote, OnFiles
  <2>6. CASE Desk!Fails(c) /\ UNCHANGED onb
    BY <2>1, <2>2, <2>6 DEF FileWrote, OnFiles
  <2>7. QED
    BY <2>1, <2>5, <2>6
<1>6. CASE Desk!Unfile(c)
  <2>1. /\ Desk!Runs(c, "unfile") /\ Desk!Done(c) /\ UNCHANGED <<login, joiner>>
        /\ onb' = [onb EXCEPT ![s.f].st = "removed"]
    BY <1>6 DEF Desk!Unfile
  <2>2. s.do = "unfile" /\ s.f \in Files
    <3>1. s.do = "unfile"
      BY <1>2, <2>1
    <3>2. QED
      BY <3>1, JoiningParts
  <2>3. PICK f \in Files : f = s.f
    BY <2>2
  <2> DEFINE row == [onb[f] EXCEPT !.st = "removed"]
  <2>4. /\ row.st = "removed" /\ row.link = onb[f].link /\ row.who = onb[f].who
        /\ [onb EXCEPT ![f].st = "removed"] = [onb EXCEPT ![f] = row]
    BY <1>1 DEF Desk!OnboardingRequest
  <2> HIDE DEF row
  <2>5. onb'[f] = row /\ OnlyFile(f)
    BY <1>3, <2>1, <2>3, <2>4
  <2>6. RequestWritten(s, f, onb[f], onb'[f])
    BY <2>2, <2>3, <2>4, <2>5 DEF RequestWritten
  <2>7. QED
    BY <2>1, <2>2, <2>5, <2>6 DEF FileWrote, OnFiles
<1>7. CASE Desk!Mark(c)
  <2>1. /\ Desk!Runs(c, "mark") /\ UNCHANGED <<login, joiner>>
        /\ \/ Desk!Live(s.f) /\ Desk!Done(c) /\ onb' = [onb EXCEPT ![s.f].st = s.st]
           \/ Desk!Fails(c) /\ UNCHANGED onb
    BY <1>7 DEF Desk!Mark
  <2>2. s.do = "mark" /\ s.f \in Files
    <3>1. s.do = "mark"
      BY <1>2, <2>1
    <3>2. QED
      BY <3>1, JoiningParts
  <2>3. PICK f \in Files : f = s.f
    BY <2>2
  <2> DEFINE row == [onb[f] EXCEPT !.st = s.st]
  <2>4. /\ row.st = s.st /\ row.link = onb[f].link /\ row.who = onb[f].who
        /\ [onb EXCEPT ![f].st = s.st] = [onb EXCEPT ![f] = row]
    BY <1>1 DEF Desk!OnboardingRequest
  <2> HIDE DEF row
  <2>5. CASE Desk!Live(s.f) /\ Desk!Done(c) /\ onb' = [onb EXCEPT ![s.f].st = s.st]
    <3>1. onb'[f] = row /\ OnlyFile(f)
      BY <1>3, <2>3, <2>4, <2>5
    <3>2. RequestWritten(s, f, onb[f], onb'[f])
      BY <2>2, <2>3, <2>4, <2>5, <3>1 DEF RequestWritten
    <3>3. QED
      BY <2>1, <2>2, <2>5, <3>1, <3>2 DEF FileWrote, OnFiles
  <2>6. CASE Desk!Fails(c) /\ UNCHANGED onb
    BY <2>1, <2>2, <2>6 DEF FileWrote, OnFiles
  <2>7. QED
    BY <2>1, <2>5, <2>6
<1>8. CASE Desk!LinkEmployee(c)
  <2>1. /\ Desk!Runs(c, "link") /\ UNCHANGED <<login, joiner>>
        /\ \/ /\ Desk!Live(s.f) /\ Desk!FileOf(s.who) \subseteq {s.f} /\ Desk!Done(c)
              /\ onb' = [onb EXCEPT ![s.f] = Desk!Linked(@, s.who)]
           \/ /\ Desk!Fails(c) /\ UNCHANGED onb
              /\ ~Desk!Live(s.f) \/ ~(Desk!FileOf(s.who) \subseteq {s.f})
    BY <1>8 DEF Desk!LinkEmployee
  <2>2. s.do = "link" /\ s.f \in Files
    <3>1. s.do = "link"
      BY <1>2, <2>1
    <3>2. QED
      BY <3>1, JoiningParts
  <2>3. PICK f \in Files : f = s.f
    BY <2>2
  <2> DEFINE row == Desk!Linked(onb[f], s.who)
  <2>4. row.st = "ACCOUNT_CREATED" /\ row.link = s.who /\ row.who = onb[f].who
    BY <1>1 DEF Desk!OnboardingRequest, Desk!Linked
  <2>5. [onb EXCEPT ![f] = Desk!Linked(@, s.who)] = [onb EXCEPT ![f] = row]
    OBVIOUS
  <2> HIDE DEF row
  <2>6. CASE /\ Desk!Live(s.f) /\ Desk!FileOf(s.who) \subseteq {s.f} /\ Desk!Done(c)
             /\ onb' = [onb EXCEPT ![s.f] = Desk!Linked(@, s.who)]
    <3>1. onb'[f] = row /\ OnlyFile(f)
      BY <1>3, <2>3, <2>5, <2>6
    <3>2. RequestWritten(s, f, onb[f], onb'[f])
      BY <2>2, <2>3, <2>4, <2>6, <3>1 DEF RequestWritten
    <3>3. QED
      BY <2>1, <2>2, <2>6, <3>1, <3>2 DEF FileWrote, OnFiles
  <2>7. CASE /\ Desk!Fails(c) /\ UNCHANGED onb
             /\ ~Desk!Live(s.f) \/ ~(Desk!FileOf(s.who) \subseteq {s.f})
    BY <2>1, <2>2, <2>7 DEF FileWrote, OnFiles
  <2>8. QED
    BY <2>1, <2>6, <2>7
<1>9. QED
  BY <1>4, <1>5, <1>6, <1>7, <1>8

LEMMA PersonWrites ==
  ASSUME DeskInv, NEW c \in Calls, NEW s \in Statement, s = Desk!It(c),
         \/ Desk!FillProfile(c) \/ Desk!WriteEmployeeStatus(c) \/ Desk!Recode(c)
         \/ Desk!DeleteLogin(c) \/ Desk!CreateLogin(c) \/ Desk!EmployRow(c)
  PROVE  PersonWrote(c, s)
<1>1. login \in [People -> Desk!User] /\ joiner \in [People -> Desk!Employee]
  BY DEF DeskInv, DeskTyped, Desk!JoiningTypeOK
<1>2. ASSUME NEW do \in OnPeople, Desk!Runs(c, do)
      PROVE  s.do = do /\ s.who \in People
  <2>1. s.do = do
    BY <1>2, Running DEF DeskInv
  <2>2. QED
    BY <2>1, JoiningParts DEF OnPeople
<1>3. ASSUME NEW p \in People, NEW e, joiner' = [joiner EXCEPT ![p] = e],
             UNCHANGED login
      PROVE  joiner'[p] = e /\ OnlyPerson(p)
  BY <1>1, <1>3 DEF OnlyPerson
<1>4. ASSUME NEW p \in People, NEW l, login' = [login EXCEPT ![p] = l], UNCHANGED joiner
      PROVE  login'[p] = l /\ OnlyPerson(p)
  BY <1>1, <1>4 DEF OnlyPerson
<1>5. CASE Desk!FillProfile(c)
  <2>1. /\ Desk!Runs(c, "fill") /\ Desk!Done(c) /\ UNCHANGED login /\ UNCHANGED onb
        /\ joiner' = [joiner EXCEPT ![s.who].filled = s.to]
    BY <1>5 DEF Desk!FillProfile
  <2>2. PICK p \in People : p = s.who /\ s.do = "fill"
    BY <1>2, <2>1 DEF OnPeople
  <2> DEFINE e == [joiner[p] EXCEPT !.filled = s.to]
  <2>3. /\ e.st = joiner[p].st /\ e.code = joiner[p].code /\ e.filled = s.to
        /\ [joiner EXCEPT ![p].filled = s.to] = [joiner EXCEPT ![p] = e]
    BY <1>1 DEF Desk!Employee
  <2> HIDE DEF e
  <2>4. joiner'[p] = e /\ OnlyPerson(p)
    BY <1>3, <2>1, <2>2, <2>3
  <2>5. QED
    BY <2>1, <2>2, <2>3, <2>4 DEF PersonWrote, PersonWritten, OnPeople
<1>6. CASE Desk!WriteEmployeeStatus(c)
  <2>1. /\ Desk!Runs(c, "status") /\ Desk!Done(c) /\ UNCHANGED login /\ UNCHANGED onb
        /\ joiner' = [joiner EXCEPT ![s.who].st = s.st]
    BY <1>6 DEF Desk!WriteEmployeeStatus
  <2>2. PICK p \in People : p = s.who /\ s.do = "status"
    BY <1>2, <2>1 DEF OnPeople
  <2> DEFINE e == [joiner[p] EXCEPT !.st = s.st]
  <2>3. /\ e.st = s.st /\ e.code = joiner[p].code /\ e.filled = joiner[p].filled
        /\ [joiner EXCEPT ![p].st = s.st] = [joiner EXCEPT ![p] = e]
    BY <1>1 DEF Desk!Employee
  <2> HIDE DEF e
  <2>4. joiner'[p] = e /\ OnlyPerson(p)
    BY <1>3, <2>1, <2>2, <2>3
  <2>5. QED
    BY <2>1, <2>2, <2>3, <2>4 DEF PersonWrote, PersonWritten, OnPeople
<1>7. CASE Desk!Recode(c)
  <2>1. /\ Desk!Runs(c, "recode") /\ UNCHANGED login /\ UNCHANGED onb
        /\ \/ Desk!Fails(c) /\ UNCHANGED joiner
           \/ Desk!Done(c) /\ joiner' = [joiner EXCEPT ![s.who].code = s.code]
    BY <1>7 DEF Desk!Recode
  <2>2. PICK p \in People : p = s.who /\ s.do = "recode"
    BY <1>2, <2>1 DEF OnPeople
  <2> DEFINE e == [joiner[p] EXCEPT !.code = s.code]
  <2>3. /\ e.st = joiner[p].st /\ e.code = s.code /\ e.filled = joiner[p].filled
        /\ [joiner EXCEPT ![p].code = s.code] = [joiner EXCEPT ![p] = e]
    BY <1>1 DEF Desk!Employee
  <2> HIDE DEF e
  <2>4. CASE Desk!Fails(c) /\ UNCHANGED joiner
    BY <2>1, <2>2, <2>4 DEF PersonWrote, OnPeople
  <2>5. CASE Desk!Done(c) /\ joiner' = [joiner EXCEPT ![s.who].code = s.code]
    <3>1. joiner'[p] = e /\ OnlyPerson(p)
      BY <1>3, <2>1, <2>2, <2>3, <2>5
    <3>2. QED
      BY <2>1, <2>2, <2>3, <2>5, <3>1 DEF PersonWrote, PersonWritten, OnPeople
  <2>6. QED
    BY <2>1, <2>4, <2>5
<1>8. CASE Desk!DeleteLogin(c)
  <2>1. /\ Desk!Runs(c, "unlogin") /\ UNCHANGED <<joiner, onb>>
        /\ \/ /\ login[s.who] \in {"bare", "student"} /\ Desk!Done(c)
              /\ login' = [login EXCEPT ![s.who] = "none"]
           \/ Desk!Fails(c) /\ UNCHANGED login
    BY <1>8 DEF Desk!DeleteLogin
  <2>2. PICK p \in People : p = s.who /\ s.do = "unlogin"
    BY <1>2, <2>1 DEF OnPeople
  <2>3. CASE Desk!Fails(c) /\ UNCHANGED login
    BY <2>1, <2>2, <2>3 DEF PersonWrote, OnPeople
  <2>4. CASE /\ login[s.who] \in {"bare", "student"} /\ Desk!Done(c)
             /\ login' = [login EXCEPT ![s.who] = "none"]
    <3>1. login'[p] = "none" /\ OnlyPerson(p)
      BY <1>4, <2>1, <2>2, <2>4
    <3>2. QED
      BY <2>1, <2>2, <2>4, <3>1 DEF PersonWrote, PersonWritten, OnPeople
  <2>5. QED
    BY <2>1, <2>3, <2>4
<1>9. CASE Desk!CreateLogin(c)
  <2>1. /\ Desk!Runs(c, "login") /\ UNCHANGED <<joiner, onb>>
        /\ \/ /\ login[s.who] = "none" /\ Desk!Done(c)
              /\ login' = [login EXCEPT ![s.who] = "bare"]
           \/ login[s.who] # "none" /\ Desk!Fails(c) /\ UNCHANGED login
    BY <1>9 DEF Desk!CreateLogin
  <2>2. PICK p \in People : p = s.who /\ s.do = "login"
    BY <1>2, <2>1 DEF OnPeople
  <2>3. CASE login[s.who] # "none" /\ Desk!Fails(c) /\ UNCHANGED login
    BY <2>1, <2>2, <2>3 DEF PersonWrote, OnPeople
  <2>4. CASE /\ login[s.who] = "none" /\ Desk!Done(c)
             /\ login' = [login EXCEPT ![s.who] = "bare"]
    <3>1. login'[p] = "bare" /\ OnlyPerson(p)
      BY <1>4, <2>1, <2>2, <2>4
    <3>2. QED
      BY <2>1, <2>2, <2>4, <3>1 DEF PersonWrote, PersonWritten, OnPeople
  <2>5. QED
    BY <2>1, <2>3, <2>4
<1>10. CASE Desk!EmployRow(c)
  <2>1. /\ Desk!Runs(c, "employ") /\ UNCHANGED onb
        /\ \/ /\ login[s.who] = "bare" /\ s.code \notin Desk!Codes /\ Desk!Done(c)
              /\ login' = [login EXCEPT ![s.who] = "staff"]
              /\ joiner' = [joiner EXCEPT ![s.who] =
                              [code |-> s.code, st |-> "ACTIVE", filled |-> FALSE]]
           \/ /\ login[s.who] # "bare" \/ s.code \in Desk!Codes
              /\ Desk!Fails(c) /\ UNCHANGED <<login, joiner>>
    BY <1>10 DEF Desk!EmployRow, Desk!Hired
  <2>2. PICK p \in People : p = s.who /\ s.do = "employ"
    BY <1>2, <2>1 DEF OnPeople
  <2>3. CASE /\ login[s.who] # "bare" \/ s.code \in Desk!Codes
             /\ Desk!Fails(c) /\ UNCHANGED <<login, joiner>>
    BY <2>1, <2>2, <2>3 DEF PersonWrote, OnPeople
  <2>4. CASE /\ login[s.who] = "bare" /\ s.code \notin Desk!Codes /\ Desk!Done(c)
             /\ login' = [login EXCEPT ![s.who] = "staff"]
             /\ joiner' = [joiner EXCEPT ![s.who] =
                             [code |-> s.code, st |-> "ACTIVE", filled |-> FALSE]]
    <3>1. PICK e : e = [code |-> s.code, st |-> "ACTIVE", filled |-> FALSE]
      OBVIOUS
    <3>2. joiner' = [joiner EXCEPT ![p] = e] /\ login' = [login EXCEPT ![p] = "staff"]
      BY <2>2, <2>4, <3>1
    <3>3. /\ joiner'[p] = e /\ login'[p] = "staff" /\ OnlyPerson(p)
      BY <1>1, <3>2 DEF OnlyPerson
    <3>4. joiner'[p].st = "ACTIVE" /\ joiner'[p].code = s.code
      BY <3>1, <3>3
    <3>5. QED
      BY <2>1, <2>2, <2>4, <3>3, <3>4 DEF PersonWrote, PersonWritten, OnPeople
  <2>5. QED
    BY <2>1, <2>3, <2>4
<1>11. QED
  BY <1>5, <1>6, <1>7, <1>8, <1>9, <1>10

LEMMA JoinRuns ==
  ASSUME DeskInv, NEW c \in Calls, JoiningRuns(c)
  PROVE  \E t, r, s : /\ Now(c, t, r, s) /\ OthersWait(c)
                      /\ FileWrote(c, s) \/ PersonWrote(c, s)
                      /\ doing'[c].todo \in {r, <<>>}
                      /\ Desk!Fails(c) => doing'[c].todo = <<>>
                      /\ Desk!Done(c) => doing'[c].todo = r
<1>1. PICK t, r, s : /\ Now(c, t, r, s) /\ OthersWait(c)
                     /\ Desk!Done(c) \/ Desk!Fails(c)
                     /\ Desk!Done(c) => doing'[c].todo = r
                     /\ Desk!Fails(c) => doing'[c].todo = <<>>
  BY StatementRuns
<1>2. s \in Statement /\ s = Desk!It(c)
  BY <1>1 DEF Now
<1>3. FileWrote(c, s) \/ PersonWrote(c, s)
  BY <1>2, FileWrites, PersonWrites DEF JoiningRuns
<1>4. QED
  BY <1>1, <1>3

=============================================================================
