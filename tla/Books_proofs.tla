--------------------------- MODULE Books_proofs ---------------------------
(***************************************************************************)
(* Proofs about the books of finance admin and HR (module Accounts, as     *)
(* MCFinance composes it): one call at a time, generating the monthly      *)
(* expenses and processing the payroll do all they say, and what is        *)
(* approved or answered stands.                                            *)
(***************************************************************************)
EXTENDS MCFinance, FiniteSetTheorems, SequenceTheorems, TLAPS

-----------------------------------------------------------------------------
(* The inductive invariant: what a call in flight still has to do, and     *)
(* what it may rely on since nothing else runs.                            *)

It(c) == Books!It(c)
Lone(c, dos) == asked[c].todo = <<It(c)>> /\ It(c).do \in dos

Registering(c) ==
  /\ Lone(c, {"number", "file", "snapshot", "rewrite", "erase", "log", "templates"})
  /\ It(c).do = "snapshot" => It(c).then \in {"rewrite", "erase"}
  /\ It(c).do = "templates" => It(c).at \in Books!Dates

(* A generation has looked at the templates it has no statement for.       *)
Stamping ==
  {[do |-> do, row |-> Books!Looking(t, d).row] :
     do \in {"look", "stamp"}, t \in Templates, d \in Books!Dates}
Covered(todo, d) ==
  \A t \in Books!Active : Books!Stamped(t, d) \/ \E i \in DOMAIN todo : todo[i].row.of = t
Generating(c) ==
  LET todo == asked[c].todo
  IN  /\ todo \in Seq(Stamping) /\ todo # <<>>
      /\ \A i \in DOMAIN todo :
           /\ todo[i].row.at = todo[1].row.at
           /\ i > 1 => todo[i].do = "look"
      /\ Covered(todo, todo[1].row.at)

(* A processing has read, or holds ready, or has written each slip; none   *)
(* is written before it begins.                                            *)
Due(p) ==
  IF earner[p].active THEN [salary |-> earner[p].salary, days |-> earner[p].days] ELSE NoSlip
Unread == {[who |-> p, salary |-> earner[p].salary] : p \in {q \in Staffers : earner[q].active}}
Ready ==
  {[who |-> p, salary |-> earner[p].salary, days |-> earner[p].days] :
     p \in {q \in Staffers : earner[q].active}}
Whole(s) ==
  /\ s.unread \subseteq Unread /\ s.ready \subseteq Ready
  /\ ~crashed =>
       \A p \in Staffers :
         \/ slip[p] = Due(p)
         \/ \E w \in s.unread : w.who = p
         \/ \E w \in s.ready : w.who = p
Unpaid == ~crashed => \A p \in Staffers : slip[p] = NoSlip
Paying(c) ==
  \/ /\ asked[c].todo = <<[do |-> "open"], [do |-> "employees"]>>
     /\ payroll = "none" /\ Unpaid
  \/ asked[c].todo = <<[do |-> "employees"]>> /\ payroll = "DRAFT" /\ Unpaid
  \/ Lone(c, {"slips"}) /\ payroll = "DRAFT" /\ Whole(It(c))
  \/ Lone(c, {"approve"}) /\ payroll = "PENDING_REVIEW"
  \/ Lone(c, {"tell"}) /\ payroll = "APPROVED"

Answering(c) ==
  \/ Lone(c, {"answer"}) /\ It(c).q \in Permits /\ permit[It(c).q].st = "PENDING"
  \/ Lone(c, {"notify"})

InFlight(c) ==
  /\ c \in chosen.calls
  /\ Registering(c) \/ Generating(c) \/ Paying(c) \/ Answering(c)
Rested == ~crashed => payroll # "DRAFT" /\ (payroll = "none" => \A p \in Staffers : slip[p] = NoSlip)

Tables ==
  /\ asked = [c \in Clerks |-> asked[c]] /\ expense = [x \in Expenses |-> expense[x]]
  /\ slip = [p \in Staffers |-> slip[p]] /\ permit = [q \in Permits |-> permit[q]]

BooksInv ==
  /\ chosen \in BookUses /\ Tables
  /\ Books!Serial =>
       /\ \A c \in Clerks : asked[c] = Books!Idle \/ InFlight(c)
       /\ Rested \/ \E c \in Clerks : asked[c] # Books!Idle /\ Paying(c)

-----------------------------------------------------------------------------
(* Who runs, and what.                                                     *)

LEMMA Sole ==
  ASSUME BooksInv, Books!Serial, NEW c \in Clerks, c \in chosen.calls
  PROVE  \A d \in Clerks : asked[d] # Books!Idle => d = c
<1>1. IsFiniteSet(chosen.calls)
  <2>1. chosen.calls \in SUBSET Clerks
    BY BooksShape DEF BooksInv, Books!UsesShape
  <2>2. QED
    BY <2>1, BooksFinite, FS_Subset
<1>2. PICK x : chosen.calls = {x}
  BY <1>1, FS_Singleton DEF Books!Serial, Books!Cardinality, Cardinality
<1>3. QED
  BY <1>2 DEF BooksInv, InFlight

LEMMA NothingRuns ==
  ASSUME BooksInv, Books!Serial, NEW c \in Clerks, c \in chosen.calls, asked[c] = Books!Idle
  PROVE  (\A d \in Clerks : asked[d] = Books!Idle) /\ Rested
<1>1. \A d \in Clerks : asked[d] = Books!Idle
  BY Sole
<1>2. QED
  BY <1>1 DEF BooksInv

LEMMA OneRuns ==
  ASSUME BooksInv, Books!Serial, NEW c \in Clerks, asked[c].todo # <<>>
  PROVE  /\ c \in chosen.calls /\ InFlight(c) /\ asked[c] # Books!Idle
         /\ \A d \in Clerks : d # c => asked[d] = Books!Idle
         /\ Rested \/ Paying(c)
<1>1. asked[c] # Books!Idle
  BY DEF Books!Idle
<1>2. InFlight(c) /\ c \in chosen.calls
  BY <1>1 DEF BooksInv, InFlight
<1>3. \A d \in Clerks : d # c => asked[d] = Books!Idle
  BY <1>2, Sole
<1>4. QED
  BY <1>1, <1>2, <1>3 DEF BooksInv

(* The first statement of a call tells its kind.                           *)
LEMMA KindOf ==
  ASSUME NEW c \in Clerks, InFlight(c)
  PROVE  /\ It(c).do \in {"number", "file", "snapshot", "rewrite", "erase", "log", "templates"} =>
              Registering(c)
         /\ It(c).do \in {"look", "stamp"} => Generating(c)
         /\ It(c).do \in {"open", "employees", "slips", "approve", "tell"} => Paying(c)
         /\ It(c).do \in {"answer", "notify"} => Answering(c)
<1>1. Registering(c) =>
        It(c).do \in {"number", "file", "snapshot", "rewrite", "erase", "log", "templates"}
  BY DEF Registering, Lone
<1>2. Generating(c) => It(c).do \in {"look", "stamp"}
  <2>1. SUFFICES ASSUME Generating(c) PROVE It(c).do \in {"look", "stamp"}
    OBVIOUS
  <2>2. Head(asked[c].todo) \in Stamping
    BY <2>1, HeadTailProperties DEF Generating
  <2>3. QED
    BY <2>2 DEF Stamping, It, Books!It
<1>3. Paying(c) => It(c).do \in {"open", "employees", "slips", "approve", "tell"}
  BY DEF Paying, Lone, It, Books!It
<1>4. Answering(c) => It(c).do \in {"answer", "notify"}
  BY DEF Answering, Lone
<1>5. QED
  BY <1>1, <1>2, <1>3, <1>4 DEF InFlight

LEMMA Singles ==
  ASSUME NEW s
  PROVE  /\ <<s>> # <<>> /\ Head(<<s>>) = s /\ Tail(<<s>>) = <<>>
OBVIOUS

(* What a step leaves behind: its own call, and nothing of another.        *)
Stands ==
  /\ Books!MonthStamped /\ Books!WholePayroll
  /\ payroll = "APPROVED" => payroll' = payroll /\ slip' = slip
  /\ \A q \in Permits : permit[q].st \in {"APPROVED", "REJECTED"} => permit'[q] = permit[q]

LEMMA Goes ==
  ASSUME BooksInv, Books!Serial, NEW c \in Clerks, c \in chosen.calls,
         \A d \in Clerks : d # c => asked[d] = Books!Idle,
         NEW v, asked' = [asked EXCEPT ![c] = v], chosen' = chosen, Tables',
         v = Books!Idle \/ InFlight(c)',
         Rested' \/ (v # Books!Idle /\ Paying(c)')
  PROVE  BooksInv'
<1>1. asked'[c] = v /\ \A d \in Clerks : d # c => asked'[d] = Books!Idle
  BY DEF BooksInv, Tables
<1>2. \A d \in Clerks : asked'[d] = Books!Idle \/ InFlight(d)'
  BY <1>1
<1>3. QED
  BY <1>1, <1>2 DEF BooksInv, Books!Idle

LEMMA Rests ==
  ASSUME BooksInv, Books!Serial, \A d \in Clerks : asked[d] = Books!Idle, Rested,
         asked' = asked, chosen' = chosen, crashed' = crashed, payroll' = payroll, slip' = slip,
         Tables',
         \A q \in Permits : permit[q].st \in {"APPROVED", "REJECTED"} => permit'[q] = permit[q]
  PROVE  BooksInv' /\ Stands
<1>1. Rested'
  BY DEF Rested
<1>2. BooksInv'
  BY <1>1 DEF BooksInv, Books!Idle
<1>3. Books!MonthStamped
  BY DEF Books!MonthStamped, Books!Idle
<1>4. QED
  BY <1>2, <1>3 DEF Stands, Books!WholePayroll

(* Where payroll, slips and permits stay, only a generation has more to    *)
(* keep.                                                                   *)
LEMMA OtherStands ==
  ASSUME NEW c \in Clerks, \A d \in Clerks : d # c => asked[d] = Books!Idle,
         asked[c] = Books!Idle \/ It(c).do \notin {"look", "stamp"},
         payroll' = payroll, slip' = slip,
         \A q \in Permits : permit[q].st \in {"APPROVED", "REJECTED"} => permit'[q] = permit[q]
  PROVE  Stands
<1>1. Books!MonthStamped
  BY DEF Books!MonthStamped, Books!Idle, It
<1>2. QED
  BY <1>1 DEF Stands, Books!WholePayroll

-----------------------------------------------------------------------------
(* The tables keep their rows' places, whatever runs.                      *)

LEMMA TablesKept ==
  ASSUME Tables, NEW c \in Clerks, Books!Steps(c)
  PROVE  Tables'
<1> USE DEF Tables, Books!Asks, Books!Once, Books!Start, Books!Goes, Books!Done, Books!Fails,
        Books!books, Books!register, Books!lists, Books!money, Books!wages, Books!hours
<1>1. CASE \/ Books!CreateExpense(c) \/ Books!NumberVoucher(c) \/ Books!Snapshot(c)
           \/ \E x \in Expenses : Books!UpdateExpense(c, x) \/ Books!RemoveExpense(c, x)
  BY <1>1 DEF Books!CreateExpense, Books!NumberVoucher, Books!Snapshot, Books!UpdateExpense,
       Books!RemoveExpense
<1>2. CASE \/ Books!FileExpense(c) \/ Books!Rewrite(c) \/ Books!EraseExpense(c)
           \/ Books!WriteLog(c)
  BY <1>2 DEF Books!FileExpense, Books!Rewrite, Books!EraseExpense, Books!WriteLog, Books!Enter
<1>3. CASE \/ \E x \in Expenses : Books!UpdateStatus(c, x)
           \/ \E v \in Vendors : \/ Books!CreateVendor(c, v) \/ Books!UpdateVendor(c, v)
                                 \/ Books!RemoveVendor(c, v)
  BY <1>3 DEF Books!UpdateStatus, Books!CreateVendor, Books!UpdateVendor, Books!RemoveVendor
<1>4. CASE \/ \E f \in Funds : \/ Books!CreateFund(c, f) \/ Books!UpdateFund(c, f)
                               \/ Books!RemoveFund(c, f)
           \/ \E g \in Grants : \/ Books!CreateBudget(c, g) \/ Books!UpdateBudget(c, g)
                                \/ Books!RemoveBudget(c, g)
  BY <1>4 DEF Books!CreateFund, Books!UpdateFund, Books!RemoveFund, Books!CreateBudget,
       Books!UpdateBudget, Books!RemoveBudget
<1>5. CASE \/ \E t \in chosen.templates : \/ Books!CreateRecurring(c, t)
                                          \/ Books!UpdateRecurring(c, t)
           \/ \E d \in Books!Dates : Books!GenerateRecurring(c, d)
  BY <1>5 DEF Books!CreateRecurring, Books!UpdateRecurring, Books!GenerateRecurring
<1>6. CASE Books!ReadTemplates(c) \/ Books!LookForStamp(c) \/ Books!Stamp(c)
  BY <1>6 DEF Books!ReadTemplates, Books!LookForStamp, Books!Stamp, Books!Enter
<1>7. CASE \/ Books!ProcessPayroll(c) \/ Books!OpenPayroll(c) \/ Books!ReadEmployees(c)
           \/ Books!ReadAttendance(c)
  BY <1>7 DEF Books!ProcessPayroll, Books!OpenPayroll, Books!ReadEmployees, Books!ReadAttendance
<1>8. CASE \/ Books!WritePayslip(c) \/ Books!FinishPayroll(c) \/ Books!ApprovePayroll(c)
           \/ Books!WriteApproval(c) \/ Books!TellEmployee(c)
  BY <1>8 DEF Books!WritePayslip, Books!FinishPayroll, Books!ApprovePayroll,
       Books!WriteApproval, Books!TellEmployee
<1>9. CASE \/ \E q \in Permits : \/ Books!ApplyPermit(c, q)
                                 \/ \E st \in {"APPROVED", "REJECTED"} : Books!AnswerPermit(c, q, st)
           \/ Books!WriteAnswer(c) \/ Books!NotifyAnswer(c)
  BY <1>9 DEF Books!ApplyPermit, Books!AnswerPermit, Books!WriteAnswer, Books!NotifyAnswer
<1>10. QED
  BY <1>1, <1>2, <1>3, <1>4, <1>5, <1>6, <1>7, <1>8, <1>9 DEF Books!Steps

-----------------------------------------------------------------------------
(* The operations of one statement, and the beginnings of the others.      *)

LEMMA AtOnce ==
  ASSUME BooksInv, Books!Serial, NEW c \in Clerks, NEW op, Books!Once(c, op),
         chosen' = chosen, crashed' = crashed, payroll' = payroll, slip' = slip, Tables',
         \A q \in Permits : permit[q].st \in {"APPROVED", "REJECTED"} => permit'[q] = permit[q]
  PROVE  BooksInv' /\ Stands
<1>1. asked[c] = Books!Idle /\ c \in chosen.calls /\ asked' = asked
  BY DEF Books!Once, Books!Free
<1>2. (\A d \in Clerks : asked[d] = Books!Idle) /\ Rested
  BY <1>1, NothingRuns
<1>3. QED
  BY <1>1, <1>2, Rests

LEMMA OnceStands ==
  ASSUME BooksInv, Books!Serial, NEW c \in Clerks, chosen' = chosen, crashed' = crashed, Tables',
         \/ \E x \in Expenses : Books!UpdateStatus(c, x)
         \/ \E v \in Vendors : \/ Books!CreateVendor(c, v) \/ Books!UpdateVendor(c, v)
                               \/ Books!RemoveVendor(c, v)
         \/ \E f \in Funds : \/ Books!CreateFund(c, f) \/ Books!UpdateFund(c, f)
                             \/ Books!RemoveFund(c, f)
         \/ \E g \in Grants : \/ Books!CreateBudget(c, g) \/ Books!UpdateBudget(c, g)
                              \/ Books!RemoveBudget(c, g)
         \/ \E t \in chosen.templates : \/ Books!CreateRecurring(c, t)
                                        \/ Books!UpdateRecurring(c, t)
         \/ \E q \in Permits : Books!ApplyPermit(c, q)
  PROVE  BooksInv' /\ Stands
<1> USE DEF Books!money, Books!wages, Books!hours
<1>1. CASE \/ \E x \in Expenses : Books!UpdateStatus(c, x)
           \/ \E v \in Vendors : \/ Books!CreateVendor(c, v) \/ Books!UpdateVendor(c, v)
                                 \/ Books!RemoveVendor(c, v)
  <2>1. \E op : Books!Once(c, op)
    BY <1>1 DEF Books!UpdateStatus, Books!CreateVendor, Books!UpdateVendor, Books!RemoveVendor
  <2>2. payroll' = payroll /\ slip' = slip /\ permit' = permit
    BY <1>1 DEF Books!UpdateStatus, Books!CreateVendor, Books!UpdateVendor, Books!RemoveVendor
  <2>3. QED
    BY <2>1, <2>2, AtOnce
<1>2. CASE \/ \E f \in Funds : \/ Books!CreateFund(c, f) \/ Books!UpdateFund(c, f)
                               \/ Books!RemoveFund(c, f)
           \/ \E g \in Grants : \/ Books!CreateBudget(c, g) \/ Books!UpdateBudget(c, g)
                                \/ Books!RemoveBudget(c, g)
  <2>1. \E op : Books!Once(c, op)
    BY <1>2 DEF Books!CreateFund, Books!UpdateFund, Books!RemoveFund, Books!CreateBudget,
         Books!UpdateBudget, Books!RemoveBudget
  <2>2. payroll' = payroll /\ slip' = slip /\ permit' = permit
    BY <1>2 DEF Books!CreateFund, Books!UpdateFund, Books!RemoveFund, Books!CreateBudget,
         Books!UpdateBudget, Books!RemoveBudget
  <2>3. QED
    BY <2>1, <2>2, AtOnce
<1>3. CASE \E t \in chosen.templates : Books!CreateRecurring(c, t) \/ Books!UpdateRecurring(c, t)
  <2>1. \E op : Books!Once(c, op)
    BY <1>3 DEF Books!CreateRecurring, Books!UpdateRecurring
  <2>2. payroll' = payroll /\ slip' = slip /\ permit' = permit
    BY <1>3 DEF Books!CreateRecurring, Books!UpdateRecurring
  <2>3. QED
    BY <2>1, <2>2, AtOnce
<1>4. ASSUME NEW q \in Permits, Books!ApplyPermit(c, q)
      PROVE  BooksInv' /\ Stands
  <2>1. Books!Once(c, "permit") /\ payroll' = payroll /\ slip' = slip
    BY <1>4 DEF Books!ApplyPermit
  <2>2. \A r \in Permits : permit[r].st \in {"APPROVED", "REJECTED"} => permit'[r] = permit[r]
    BY <1>4 DEF Books!ApplyPermit, BooksInv, Tables
  <2>3. QED
    BY <2>1, <2>2, AtOnce
<1>5. QED
  BY <1>1, <1>2, <1>3, <1>4

(* What a call that begins has asked for.                                  *)
LEMMA Begun ==
  ASSUME BooksInv, Books!Serial, NEW c \in Clerks, NEW op, NEW todo, Books!Asks(c, op, todo),
         todo # <<>>
  PROVE  /\ c \in chosen.calls /\ asked[c] = Books!Idle /\ asked'[c].todo = todo
         /\ asked' = [asked EXCEPT ![c] = [op |-> op, todo |-> todo]]
         /\ payroll' = payroll /\ slip' = slip /\ permit' = permit
         /\ (\A d \in Clerks : asked[d] = Books!Idle) /\ Rested
<1>1. asked[c] = Books!Idle /\ c \in chosen.calls
      /\ asked' = [asked EXCEPT ![c] = [op |-> op, todo |-> todo]]
  BY DEF Books!Asks, Books!Free, Books!Start
<1>2. payroll' = payroll /\ slip' = slip /\ permit' = permit
  BY DEF Books!Asks, Books!books, Books!wages, Books!hours
<1>3. asked'[c].todo = todo
  BY <1>1 DEF BooksInv, Tables
<1>4. QED
  BY <1>1, <1>2, <1>3, NothingRuns

LEMMA Begins ==
  ASSUME BooksInv, Books!Serial, NEW c \in Clerks, NEW op, NEW todo, Books!Asks(c, op, todo),
         chosen' = chosen, crashed' = crashed, Tables', todo # <<>>, InFlight(c)'
  PROVE  BooksInv' /\ Stands
<1>1. /\ c \in chosen.calls /\ asked' = [asked EXCEPT ![c] = [op |-> op, todo |-> todo]]
      /\ payroll' = payroll /\ slip' = slip /\ permit' = permit
      /\ (\A d \in Clerks : asked[d] = Books!Idle) /\ Rested
  BY Begun
<1>2. Rested'
  BY <1>1 DEF Rested
<1>3. BooksInv'
  BY <1>1, <1>2, Goes
<1>4. Stands
  BY <1>1, OtherStands
<1>5. QED
  BY <1>3, <1>4

(* Asking about the register.                                              *)
LEMMA Registers ==
  ASSUME BooksInv, Books!Serial, NEW c \in Clerks, NEW op, NEW s, Books!Asks(c, op, <<s>>),
         chosen' = chosen, crashed' = crashed, Tables',
         s.do \in {"number", "file", "snapshot", "templates"},
         s.do = "snapshot" => s.then \in {"rewrite", "erase"},
         s.do = "templates" => s.at \in Books!Dates
  PROVE  BooksInv' /\ Stands
<1>1. c \in chosen.calls /\ asked'[c].todo = <<s>>
  BY Begun, Singles
<1>2. InFlight(c)'
  BY <1>1, Singles DEF InFlight, Registering, Lone, It, Books!It, Books!Dates
<1>3. QED
  BY <1>2, Begins, Singles

LEMMA Joined ==
  ASSUME NEW a, NEW b
  PROVE  <<a>> \o <<b>> = <<a, b>> /\ <<>> \o <<a>> = <<a>>
<1> DEFINE S == {a, b}
<1>1. <<a>> \in Seq(S) /\ <<b>> \in Seq(S) /\ <<a, b>> \in Seq(S)
  OBVIOUS
<1>2. <<>> \o <<a>> = <<a>>
  BY <1>1, ConcatEmptySeq
<1>3. <<a>> \o <<b>> = <<a, b>>
  <2> DEFINE both == <<a>> \o <<b>>
  <2>1. both \in Seq(S) /\ Len(both) = 2 /\ both[1] = a /\ both[2] = b
    BY <1>1, ConcatProperties
  <2> HIDE DEF both
  <2>2. Len(<<a, b>>) = 2 /\ \A i \in 1 .. 2 : both[i] = <<a, b>>[i]
    BY <2>1
  <2>3. both = <<a, b>>
    BY <1>1, <2>1, <2>2, SeqEqual
  <2>4. QED
    BY <2>3 DEF both
<1>4. QED
  BY <1>2, <1>3

LEMMA AskStands ==
  ASSUME BooksInv, Books!Serial, NEW c \in Clerks, chosen' = chosen, crashed' = crashed, Tables',
         \/ Books!CreateExpense(c) \/ Books!ProcessPayroll(c) \/ Books!ApprovePayroll(c)
         \/ \E x \in Expenses : Books!UpdateExpense(c, x) \/ Books!RemoveExpense(c, x)
         \/ \E d \in Books!Dates : Books!GenerateRecurring(c, d)
         \/ \E q \in Permits, st \in {"APPROVED", "REJECTED"} : Books!AnswerPermit(c, q, st)
  PROVE  BooksInv' /\ Stands
<1>1. CASE Books!CreateExpense(c)
  <2>1. PICK s : Books!Asks(c, "expense", <<s>>) /\ s.do \in {"number", "file"}
    BY <1>1 DEF Books!CreateExpense
  <2>2. QED
    BY <2>1, Registers
<1>2. ASSUME NEW x \in Expenses, Books!UpdateExpense(c, x) \/ Books!RemoveExpense(c, x)
      PROVE  BooksInv' /\ Stands
  <2>1. CASE Books!UpdateExpense(c, x)
    <3>1. PICK s : Books!Asks(c, "edit", <<s>>) /\ s.do = "snapshot" /\ s.then = "rewrite"
      BY <2>1 DEF Books!UpdateExpense
    <3>2. QED
      BY <3>1, Registers
  <2>2. CASE Books!RemoveExpense(c, x)
    <3>1. PICK s : Books!Asks(c, "remove", <<s>>) /\ s.do = "snapshot" /\ s.then = "erase"
      BY <2>2 DEF Books!RemoveExpense
    <3>2. QED
      BY <3>1, Registers
  <2>3. QED
    BY <1>2, <2>1, <2>2
<1>3. ASSUME NEW d \in Books!Dates, Books!GenerateRecurring(c, d)
      PROVE  BooksInv' /\ Stands
  <2>1. PICK s : Books!Asks(c, "generate", <<s>>) /\ s.do = "templates" /\ s.at = d
    BY <1>3 DEF Books!GenerateRecurring
  <2>2. QED
    BY <2>1, Registers
<1>4. CASE Books!ProcessPayroll(c) /\ payroll = "none"
  <2> DEFINE todo == <<[do |-> "open"], [do |-> "employees"]>>
  <2>1. Books!Asks(c, "process", todo) /\ todo # <<>>
    BY <1>4, Joined DEF Books!ProcessPayroll
  <2>2. /\ c \in chosen.calls /\ asked'[c].todo = todo /\ Rested
        /\ payroll' = "none" /\ slip' = slip
    BY <1>4, <2>1, Begun
  <2>3. InFlight(c)'
    BY <1>4, <2>2 DEF InFlight, Paying, Unpaid, Rested
  <2>4. QED
    BY <2>1, <2>3, Begins
<1>5. CASE Books!ProcessPayroll(c) /\ payroll = "DRAFT"
  <2> DEFINE todo == <<[do |-> "employees"]>>
  <2>1. Books!Asks(c, "process", todo) /\ todo # <<>>
    BY <1>5, Joined DEF Books!ProcessPayroll
  <2>2. /\ c \in chosen.calls /\ asked'[c].todo = todo /\ Rested
        /\ payroll' = "DRAFT" /\ slip' = slip
    BY <1>5, <2>1, Begun
  <2>3. InFlight(c)'
    BY <1>5, <2>2 DEF InFlight, Paying, Unpaid, Rested
  <2>4. QED
    BY <2>1, <2>3, Begins
<1>6. CASE Books!ApprovePayroll(c)
  <2>1. PICK s : Books!Asks(c, "approve", <<s>>) /\ s.do = "approve" /\ payroll = "PENDING_REVIEW"
    BY <1>6 DEF Books!ApprovePayroll
  <2>2. c \in chosen.calls /\ asked'[c].todo = <<s>> /\ payroll' = "PENDING_REVIEW"
    BY <2>1, Begun, Singles
  <2>3. InFlight(c)'
    BY <2>1, <2>2, Singles DEF InFlight, Paying, Lone, It, Books!It
  <2>4. QED
    BY <2>1, <2>3, Begins, Singles
<1>7. ASSUME NEW q \in Permits, NEW st \in {"APPROVED", "REJECTED"}, Books!AnswerPermit(c, q, st)
      PROVE  BooksInv' /\ Stands
  <2>1. PICK s : Books!Asks(c, "answer", <<s>>) /\ s.do = "answer" /\ s.q = q
                 /\ permit[q].st = "PENDING"
    BY <1>7 DEF Books!AnswerPermit, Books!Answerable
  <2>2. c \in chosen.calls /\ asked'[c].todo = <<s>> /\ permit' = permit
    BY <2>1, Begun, Singles
  <2>3. InFlight(c)'
    BY <2>1, <2>2, Singles DEF InFlight, Answering, Lone, It, Books!It
  <2>4. QED
    BY <2>1, <2>3, Begins, Singles
<1>8. Books!ProcessPayroll(c) => payroll \in {"none", "DRAFT"}
  BY DEF Books!ProcessPayroll, Books!Processable
<1>9. QED
  BY <1>1, <1>2, <1>3, <1>4, <1>5, <1>6, <1>7, <1>8

-----------------------------------------------------------------------------
(* The statements of the register, and the answers.                        *)

LEMMA LastDone ==
  ASSUME NEW c \in Clerks, NEW dos, Lone(c, dos)
  PROVE  /\ asked[c].todo # <<>> /\ Books!Rest(c) = <<>>
         /\ Books!Done(c) => asked' = [asked EXCEPT ![c] = Books!Idle]
<1>1. asked[c].todo # <<>> /\ Books!Rest(c) = <<>>
  BY Singles DEF Lone, Books!Rest
<1>2. QED
  BY <1>1 DEF Books!Done, Books!Goes, Books!Start

LEMMA GoesOn ==
  ASSUME NEW c \in Clerks, NEW s, Books!Goes(c, <<s>>)
  PROVE  asked' = [asked EXCEPT ![c] = [op |-> asked[c].op, todo |-> <<s>>]]
BY Singles DEF Books!Goes, Books!Start

LEMMA FailsNow ==
  ASSUME NEW c \in Clerks, Books!Fails(c)
  PROVE  asked' = [asked EXCEPT ![c] = Books!Idle]
BY DEF Books!Fails, Books!Goes, Books!Start

(* A step of a call that is about neither payroll nor templates.           *)
LEMMA Aside ==
  ASSUME BooksInv, Books!Serial, NEW c \in Clerks, asked[c].todo # <<>>,
         It(c).do \notin {"look", "stamp"}, Registering(c) \/ Answering(c),
         chosen' = chosen, crashed' = crashed, payroll' = payroll, slip' = slip, Tables',
         \A q \in Permits : permit[q].st \in {"APPROVED", "REJECTED"} => permit'[q] = permit[q],
         NEW v, asked' = [asked EXCEPT ![c] = v], v = Books!Idle \/ InFlight(c)'
  PROVE  BooksInv' /\ Stands
<1>1. /\ c \in chosen.calls /\ asked[c] # Books!Idle
      /\ \A d \in Clerks : d # c => asked[d] = Books!Idle
      /\ Rested \/ Paying(c)
  BY OneRuns
<1>2. ~Paying(c) \/ payroll \notin {"none", "DRAFT"}
  <2>1. It(c).do \notin {"open", "employees", "slips"}
    BY DEF Registering, Answering, Lone
  <2>2. QED
    BY <2>1, Singles DEF Paying, Lone, It, Books!It
<1>3. Rested'
  BY <1>1, <1>2 DEF Rested
<1>4. BooksInv'
  BY <1>1, <1>3, Goes
<1>5. Stands
  BY <1>1, OtherStands
<1>6. QED
  BY <1>4, <1>5

(* The next statement of a call about the register is the last.            *)
LEMMA RegisterGoes ==
  ASSUME BooksInv, Books!Serial, NEW c \in Clerks, asked[c].todo # <<>>, Registering(c),
         chosen' = chosen, crashed' = crashed, payroll' = payroll, slip' = slip,
         permit' = permit, Tables',
         \/ Books!Done(c) \/ Books!Fails(c)
         \/ \E s : Books!Goes(c, <<s>>) /\ s.do \in {"file", "rewrite", "erase", "log"}
  PROVE  BooksInv' /\ Stands
<1>1. It(c).do \notin {"look", "stamp"} /\ c \in chosen.calls
  BY OneRuns DEF Registering, Lone
<1>2. CASE Books!Done(c) \/ Books!Fails(c)
  <2>1. asked' = [asked EXCEPT ![c] = Books!Idle]
    BY <1>2, LastDone, FailsNow DEF Registering
  <2>2. QED
    BY <1>1, <2>1, Aside
<1>3. ASSUME NEW s, Books!Goes(c, <<s>>), s.do \in {"file", "rewrite", "erase", "log"}
      PROVE  BooksInv' /\ Stands
  <2> DEFINE v == [op |-> asked[c].op, todo |-> <<s>>]
  <2>1. asked' = [asked EXCEPT ![c] = v]
    BY <1>3, GoesOn
  <2>2. asked'[c].todo = <<s>>
    BY <2>1 DEF BooksInv, Tables
  <2>3. InFlight(c)'
    BY <1>1, <1>3, <2>2, Singles DEF InFlight, Registering, Lone, It, Books!It
  <2>4. QED
    BY <1>1, <2>1, <2>3, Aside
<1>4. QED
  BY <1>2, <1>3

LEMMA RegisterStands ==
  ASSUME BooksInv, Books!Serial, NEW c \in Clerks, chosen' = chosen, crashed' = crashed, Tables',
         \/ Books!NumberVoucher(c) \/ Books!FileExpense(c) \/ Books!Snapshot(c)
         \/ Books!Rewrite(c) \/ Books!EraseExpense(c) \/ Books!WriteLog(c)
  PROVE  BooksInv' /\ Stands
<1>1. /\ asked[c].todo # <<>>
      /\ It(c).do \in {"number", "file", "snapshot", "rewrite", "erase", "log"}
  BY DEF Books!NumberVoucher, Books!FileExpense, Books!Snapshot, Books!Rewrite,
         Books!EraseExpense, Books!WriteLog, Books!Runs, It, Books!It
<1>2. Registering(c)
  BY <1>1, OneRuns, KindOf
<1>3. payroll' = payroll /\ slip' = slip /\ permit' = permit
  BY DEF Books!NumberVoucher, Books!FileExpense, Books!Snapshot, Books!Rewrite,
         Books!EraseExpense, Books!WriteLog, Books!books, Books!wages, Books!hours
<1>4. CASE Books!NumberVoucher(c)
  <2>1. \E s : Books!Goes(c, <<s>>) /\ s.do = "file"
    BY <1>4 DEF Books!NumberVoucher
  <2>2. QED
    BY <1>1, <1>2, <1>3, <2>1, RegisterGoes
<1>5. CASE Books!FileExpense(c) \/ Books!WriteLog(c)
  <2>1. Books!Done(c) \/ Books!Fails(c)
    BY <1>5 DEF Books!FileExpense, Books!WriteLog
  <2>2. QED
    BY <1>1, <1>2, <1>3, <2>1, RegisterGoes
<1>6. CASE Books!Snapshot(c)
  <2>1. It(c).then \in {"rewrite", "erase"}
    BY <1>2, <1>6 DEF Registering, Books!Snapshot, Books!Runs, It, Books!It
  <2>2. \E s : Books!Goes(c, <<s>>) /\ s.do = It(c).then
    BY <1>6 DEF Books!Snapshot, It
  <2>3. QED
    BY <1>1, <1>2, <1>3, <2>1, <2>2, RegisterGoes
<1>7. CASE Books!Rewrite(c) \/ Books!EraseExpense(c)
  <2>1. \A x, action, old, new : Books!Logging(x, action, old, new).do = "log"
    BY DEF Books!Logging
  <2>2. \/ Books!Fails(c)
        \/ \E x, action, old, new : Books!Goes(c, <<Books!Logging(x, action, old, new)>>)
    BY <1>7 DEF Books!Rewrite, Books!EraseExpense
  <2>3. QED
    BY <1>1, <1>2, <1>3, <2>1, <2>2, RegisterGoes
<1>8. QED
  BY <1>4, <1>5, <1>6, <1>7

LEMMA AnswerStands ==
  ASSUME BooksInv, Books!Serial, NEW c \in Clerks, chosen' = chosen, crashed' = crashed, Tables',
         Books!WriteAnswer(c) \/ Books!NotifyAnswer(c)
  PROVE  BooksInv' /\ Stands
<1>1. asked[c].todo # <<>> /\ It(c).do \in {"answer", "notify"}
  BY DEF Books!WriteAnswer, Books!NotifyAnswer, Books!Runs, It, Books!It
<1>2. Answering(c) /\ c \in chosen.calls
  BY <1>1, OneRuns, KindOf
<1>3. payroll' = payroll /\ slip' = slip
  BY DEF Books!WriteAnswer, Books!NotifyAnswer, Books!wages
<1>4. CASE Books!WriteAnswer(c)
  <2>1. It(c).do = "answer"
    BY <1>4 DEF Books!WriteAnswer, Books!Runs, It, Books!It
  <2>2. permit[It(c).q].st = "PENDING"
    BY <1>2, <2>1 DEF Answering, Lone
  <2>3. \A q \in Permits : permit[q].st \in {"APPROVED", "REJECTED"} => permit'[q] = permit[q]
    BY <1>4, <2>2 DEF Books!WriteAnswer, BooksInv, Tables, It
  <2>4. PICK s : Books!Goes(c, <<s>>) /\ s.do = "notify"
    BY <1>4 DEF Books!WriteAnswer
  <2>5. asked' = [asked EXCEPT ![c] = [op |-> asked[c].op, todo |-> <<s>>]]
    BY <2>4, GoesOn
  <2>6. asked'[c].todo = <<s>>
    BY <2>5 DEF BooksInv, Tables
  <2>7. InFlight(c)'
    BY <1>2, <2>4, <2>6, Singles DEF InFlight, Answering, Lone, It, Books!It
  <2>8. QED
    BY <1>1, <1>2, <1>3, <2>3, <2>5, <2>7, Aside
<1>5. CASE Books!NotifyAnswer(c)
  <2>1. asked' = [asked EXCEPT ![c] = Books!Idle] /\ permit' = permit
    BY <1>2, <1>5, LastDone DEF Answering, Books!NotifyAnswer
  <2>2. QED
    BY <1>1, <1>2, <1>3, <2>1, Aside
<1>6. QED
  BY <1>4, <1>5

-----------------------------------------------------------------------------
(* A generation: every active template has an expense of the month or a    *)
(* statement still to come, and at the end there are none to come.         *)

LEMMA StampParts ==
  ASSUME NEW s \in Stamping
  PROVE  /\ s.do \in {"look", "stamp"} /\ s.row.st = "there"
         /\ s.row.of \in Templates /\ s.row.at \in Books!Dates
         /\ [do |-> "look", row |-> s.row] \in Stamping
         /\ [do |-> "stamp", row |-> s.row] \in Stamping
<1>1. PICK do \in {"look", "stamp"}, t \in Templates, d \in Books!Dates :
        s = [do |-> do, row |-> Books!Looking(t, d).row]
  BY DEF Stamping
<1>2. s.do = do /\ s.row = Books!Looking(t, d).row
  BY <1>1
<1>3. Books!Looking(t, d).row.st = "there" /\ Books!Looking(t, d).row.of = t
      /\ Books!Looking(t, d).row.at = d
  BY DEF Books!Looking, Books!NewExpense
<1>4. \A to \in {"look", "stamp"} : [do |-> to, row |-> s.row] \in Stamping
  BY <1>2 DEF Stamping
<1>5. QED
  BY <1>2, <1>3, <1>4

(* An order of a finite set names each of its elements.                    *)
LEMMA Orders ==
  ASSUME NEW S, IsFiniteSet(S), NEW order \in Books!SetToSeqs(S)
  PROVE  /\ Cardinality(S) \in Nat /\ order \in [1 .. Cardinality(S) -> S]
         /\ \A s \in S : \E i \in DOMAIN order : order[i] = s
<1> DEFINE n == Cardinality(S)
<1>1. n \in Nat
  BY FS_CardinalityType
<1>2. order \in [1 .. n -> S] /\ \A i, j \in 1 .. n : i # j => order[i] # order[j]
  BY DEF Books!SetToSeqs, Books!Cardinality, Cardinality
<1>3. order \in Injection(1 .. n, S)
  BY <1>2 DEF Injection, IsInjective
<1>4. Cardinality(1 .. n) = n
  BY <1>1, FS_Interval
<1>5. order \in Surjection(1 .. n, S)
  BY <1>3, <1>4, FS_Injection
<1>6. QED
  BY <1>1, <1>2, <1>5 DEF Surjection

(* When a generation ends with every template stamped, goes on or is       *)
(* refused, nothing it promised is missing.                                *)
LEMMA Monthly ==
  ASSUME NEW c \in Clerks, \A b \in Clerks : b # c => asked[b] = Books!Idle,
         NEW d, d = It(c).row.at,
         \/ asked'[c] # Books!Idle
         \/ It(c).do = "stamp" /\ Books!Refused(c)
         \/ template' = template /\ Covered(<<>>, d)'
  PROVE  Books!MonthStamped
<1>1. SUFFICES ASSUME asked'[c] = Books!Idle, ~crashed',
                      It(c).do = "look" \/ (It(c).do = "stamp" /\ ~Books!Refused(c)),
                      NEW t \in Books!Active
               PROVE  \E x \in Expenses :
                        /\ expense'[x].st = "there" /\ expense'[x].of = t
                        /\ expense'[x].at = It(c).row.at
  BY DEF Books!MonthStamped, Books!Idle, It
<1>2. asked[c].todo # <<>> => ~(It(c).do = "stamp" /\ Books!Refused(c))
  BY <1>1
<1>3. t \in Books!Active' /\ Covered(<<>>, d)'
  BY <1>1 DEF Books!Active
<1>4. QED
  BY <1>3 DEF Covered, Books!Stamped, Books!There

(* A step of a generation.                                                 *)
LEMMA GenerationStep ==
  ASSUME BooksInv, Books!Serial, NEW c \in Clerks, Generating(c),
         chosen' = chosen, crashed' = crashed, payroll' = payroll, slip' = slip,
         permit' = permit, Tables',
         NEW v, asked' = [asked EXCEPT ![c] = v], v = Books!Idle \/ Generating(c)',
         Books!MonthStamped
  PROVE  BooksInv' /\ Stands
<1>1. asked[c].todo # <<>> /\ It(c) = asked[c].todo[1] /\ It(c) \in Stamping
  BY HeadTailProperties DEF Generating, It, Books!It
<1>2. It(c).do \in {"look", "stamp"}
  BY <1>1, StampParts
<1>3. /\ c \in chosen.calls /\ \A b \in Clerks : b # c => asked[b] = Books!Idle
      /\ Rested \/ Paying(c)
  BY <1>1, OneRuns
<1>4. ~Paying(c)
  BY <1>2, Singles DEF Paying, Lone, It, Books!It
<1>5. Rested'
  BY <1>3, <1>4 DEF Rested
<1>6. v = Books!Idle \/ InFlight(c)'
  BY <1>3 DEF InFlight
<1>7. BooksInv'
  BY <1>3, <1>5, <1>6, Goes
<1>8. QED
  BY <1>3, <1>7 DEF Stands, Books!WholePayroll

(* The statement that was first is done.                                   *)
LEMMA Shorter ==
  ASSUME BooksInv, Books!Serial, NEW c \in Clerks, Generating(c),
         chosen' = chosen, crashed' = crashed, payroll' = payroll, slip' = slip,
         permit' = permit, template' = template, Tables', Books!Done(c),
         NEW d, d = It(c).row.at, NEW rest, rest = Tail(asked[c].todo), Covered(rest, d)'
  PROVE  BooksInv' /\ Stands
<1> DEFINE todo == asked[c].todo
           v == IF rest = <<>> THEN Books!Idle ELSE [op |-> asked[c].op, todo |-> rest]
<1>1. /\ todo \in Seq(Stamping) /\ todo # <<>> /\ It(c) = todo[1] /\ Len(todo) \in Nat
      /\ rest \in Seq(Stamping) /\ Len(rest) = Len(todo) - 1
      /\ \A i \in 1 .. Len(rest) : rest[i] = todo[i + 1]
  BY HeadTailProperties DEF Generating, It, Books!It
<1>2. asked' = [asked EXCEPT ![c] = v]
  BY DEF Books!Done, Books!Goes, Books!Start, Books!Rest
<1>3. asked'[c] = v
  BY <1>2 DEF BooksInv, Tables
<1>4. ASSUME rest # <<>> PROVE Generating(c)'
  <2>1. asked'[c].todo = rest
    BY <1>3, <1>4
  <2>2. Stamping' = Stamping
    BY DEF Stamping, Books!Looking
  <2>3. Len(rest) >= 1 /\ DOMAIN rest = 1 .. Len(rest) /\ Len(rest) \in Nat
    BY <1>1, <1>4, EmptySeq, LenProperties
  <2>4. \A i \in DOMAIN rest : i + 1 \in DOMAIN todo /\ i + 1 > 1 /\ rest[i] = todo[i + 1]
    BY <1>1, <2>3
  <2>5. \A i \in DOMAIN rest : rest[i].row.at = d /\ rest[i].do = "look"
    BY <1>1, <2>4 DEF Generating
  <2>6. 1 \in DOMAIN rest
    BY <2>3
  <2>7. QED
    BY <1>1, <1>4, <2>1, <2>2, <2>5, <2>6 DEF Generating, Covered
<1>5. v = Books!Idle \/ Generating(c)'
  BY <1>4
<1>6. Books!MonthStamped
  <2>1. \A b \in Clerks : b # c => asked[b] = Books!Idle
    BY <1>1, OneRuns
  <2>2. asked'[c] # Books!Idle \/ Covered(<<>>, d)'
    <3>1. rest # <<>> => asked'[c].todo # <<>>
      BY <1>3
    <3>2. rest # <<>> => asked'[c] # Books!Idle
      BY <3>1 DEF Books!Idle
    <3>3. rest = <<>> => Covered(<<>>, d)'
      OBVIOUS
    <3>4. QED
      BY <3>2, <3>3
  <2>3. QED
    BY <2>1, <2>2, Monthly
<1>7. QED
  BY <1>2, <1>5, <1>6, GenerationStep


LEMMA CoveredStays ==
  ASSUME NEW todo, NEW d, template' = template, expense' = expense, Covered(todo, d)
  PROVE  Covered(todo, d)'
BY DEF Covered, Books!Active, Books!Stamped, Books!There

(* The month's templates are read in some order.                           *)
LEMMA ReadTemplatesStands ==
  ASSUME BooksInv, Books!Serial, NEW c \in Clerks, chosen' = chosen, crashed' = crashed, Tables',
         Books!ReadTemplates(c)
  PROVE  BooksInv' /\ Stands
<1>1. asked[c].todo # <<>> /\ It(c).do = "templates"
  BY DEF Books!ReadTemplates, Books!Runs, It, Books!It
<1>2. Registering(c) /\ c \in chosen.calls
  BY <1>1, OneRuns, KindOf
<1>3. PICK d \in Books!Dates : d = It(c).at
  BY <1>1, <1>2 DEF Registering
<1>4. /\ payroll' = payroll /\ slip' = slip /\ permit' = permit
      /\ template' = template /\ expense' = expense
  BY DEF Books!ReadTemplates, Books!books, Books!wages, Books!hours, Books!lists, Books!register
<1>5. IsFiniteSet(Books!Active)
  BY BooksFinite, FS_Subset DEF Books!Active
<1>6. PICK order \in Books!SetToSeqs(Books!Active) :
        Books!Goes(c, [i \in DOMAIN order |-> Books!Looking(order[i], d)])
  BY <1>3 DEF Books!ReadTemplates, It
<1>7. PICK todo : todo = [i \in DOMAIN order |-> Books!Looking(order[i], d)]
  OBVIOUS
<1> DEFINE n == Cardinality(Books!Active)
           v == IF todo = <<>> THEN Books!Idle ELSE [op |-> asked[c].op, todo |-> todo]
<1>8. /\ n \in Nat /\ order \in [1 .. n -> Books!Active]
      /\ \A t \in Books!Active : \E i \in DOMAIN order : order[i] = t
  BY <1>5, Orders
<1>9. asked' = [asked EXCEPT ![c] = v]
  BY <1>6, <1>7 DEF Books!Goes, Books!Start
<1>10. ASSUME todo # <<>> PROVE Generating(c)'
  <2>1. asked'[c].todo = todo
    BY <1>9, <1>10 DEF BooksInv, Tables
  <2>2. DOMAIN todo = 1 .. n /\ \A i \in 1 .. n : order[i] \in Templates
    BY <1>7, <1>8 DEF Books!Active
  <2>3. \A t : /\ Books!Looking(t, d).row.of = t /\ Books!Looking(t, d).row.at = d
               /\ Books!Looking(t, d).do = "look"
               /\ Books!Looking(t, d) = [do |-> "look", row |-> Books!Looking(t, d).row]
    BY DEF Books!Looking, Books!NewExpense
  <2>4. \A i \in 1 .. n : todo[i] \in Stamping /\ todo[i].row.of = order[i]
                          /\ todo[i].row.at = d /\ todo[i].do = "look"
    BY <1>7, <2>2, <2>3 DEF Stamping
  <2>5. todo \in Seq(Stamping)
    <3>1. todo \in [1 .. n -> Stamping]
      BY <1>7, <2>2, <2>4
    <3>2. QED
      BY <1>8, <3>1, SeqDef
  <2>6. 1 \in 1 .. n
    <3>1. Len(todo) = n
      BY <1>8, <2>2, <2>5, LenProperties
    <3>2. n # 0
      BY <1>10, <2>5, <3>1, EmptySeq
    <3>3. QED
      BY <1>8, <3>2
  <2>7. Covered(todo, d)
    BY <1>8, <2>2, <2>4 DEF Covered
  <2>8. Stamping' = Stamping
    BY <1>4 DEF Stamping, Books!Looking
  <2>9. Covered(todo, d)'
    BY <1>4, <2>7, CoveredStays
  <2>10. todo[1].row.at = d
    BY <2>4, <2>6
  <2>11. QED
    BY <1>10, <2>1, <2>2, <2>4, <2>5, <2>8, <2>9, <2>10 DEF Generating
<1>11. v = Books!Idle \/ InFlight(c)'
  BY <1>2, <1>10 DEF InFlight
<1>12. QED
  BY <1>1, <1>2, <1>4, <1>9, <1>11, Aside

(* A template is looked up, and stamped when it has none of the month.     *)
LEMMA LookStands ==
  ASSUME BooksInv, Books!Serial, NEW c \in Clerks, chosen' = chosen, crashed' = crashed, Tables',
         Books!LookForStamp(c)
  PROVE  BooksInv' /\ Stands
<1>1. asked[c].todo # <<>> /\ It(c).do = "look"
  BY DEF Books!LookForStamp, Books!Runs, It, Books!It
<1>2. Generating(c)
  BY <1>1, OneRuns, KindOf
<1>3. /\ payroll' = payroll /\ slip' = slip /\ permit' = permit
      /\ template' = template /\ expense' = expense
  BY DEF Books!LookForStamp, Books!books, Books!wages, Books!hours, Books!lists, Books!register
<1>4. PICK todo, rest, s, d : /\ todo = asked[c].todo /\ rest = Tail(todo)
                              /\ s = todo[1] /\ d = s.row.at
  OBVIOUS
<1>5. /\ todo \in Seq(Stamping) /\ It(c) = s /\ Len(todo) \in Nat /\ Len(todo) >= 1
      /\ DOMAIN todo = 1 .. Len(todo)
      /\ rest \in Seq(Stamping) /\ Len(rest) = Len(todo) - 1 /\ DOMAIN rest = 1 .. Len(rest)
      /\ \A i \in 1 .. Len(rest) : rest[i] = todo[i + 1]
  BY <1>2, <1>4, HeadTailProperties, LenProperties DEF Generating, It, Books!It
<1>6. s \in Stamping
  BY <1>4, <1>5
<1>7. /\ \A i \in 1 .. Len(todo) : todo[i].row.at = d /\ (i > 1 => todo[i].do = "look")
      /\ Covered(todo, d)
  BY <1>2, <1>4, <1>5 DEF Generating
<1>8. CASE Books!Stamped(s.row.of, d)
  <2>1. Books!Done(c)
    BY <1>4, <1>5, <1>8 DEF Books!LookForStamp, It
  <2>2. Covered(rest, d)
    <3>1. SUFFICES ASSUME NEW t \in Books!Active, ~Books!Stamped(t, d)
                   PROVE  \E i \in DOMAIN rest : rest[i].row.of = t
      BY DEF Covered
    <3>2. PICK i \in 1 .. Len(todo) : todo[i].row.of = t
      BY <1>5, <1>7, <3>1 DEF Covered
    <3>3. i # 1
      BY <1>4, <1>8, <3>1, <3>2
    <3>4. i - 1 \in 1 .. Len(rest) /\ rest[i - 1] = todo[i]
      BY <1>5, <3>3
    <3>5. QED
      BY <1>5, <3>2, <3>4
  <2>3. Covered(rest, d)'
    BY <1>3, <2>2, CoveredStays
  <2>4. d = It(c).row.at
    BY <1>4, <1>5
  <2>5. QED
    BY <1>2, <1>3, <1>4, <2>1, <2>3, <2>4, Shorter
<1>9. CASE ~Books!Stamped(s.row.of, d)
  <2>1. PICK s2 : s2 = [do |-> "stamp", row |-> s.row]
    OBVIOUS
  <2>2. PICK todo2 : todo2 = <<s2>> \o rest
    OBVIOUS
  <2>3. PICK v : v = [op |-> asked[c].op, todo |-> todo2]
    OBVIOUS
  <2>4. Books!Goes(c, todo2)
    BY <1>4, <1>5, <1>9, <2>1, <2>2 DEF Books!LookForStamp, Books!Rest, It
  <2>5. s2 \in Stamping
    BY <1>6, <2>1, StampParts
  <2>6. /\ todo2 \in Seq(Stamping) /\ Len(todo2) = Len(todo) /\ todo2[1] = s2
        /\ \A i \in 2 .. Len(todo) : todo2[i] = todo[i]
    <3>1. PICK one : one = <<s2>>
      OBVIOUS
    <3>2. one \in Seq(Stamping) /\ Len(one) = 1 /\ one[1] = s2
      BY <2>5, <3>1
    <3>3. rest \in Seq(Stamping) /\ Len(rest) \in Nat /\ 1 + Len(rest) = Len(todo)
      BY <1>5
    <3>4. /\ one \o rest \in Seq(Stamping) /\ Len(one \o rest) = Len(one) + Len(rest)
          /\ \A i \in 1 .. Len(one) + Len(rest) :
               (one \o rest)[i] = IF i <= Len(one) THEN one[i] ELSE rest[i - Len(one)]
      BY <3>2, <3>3, ConcatProperties
    <3>5. \A i \in 2 .. Len(todo) : rest[i - 1] = todo[i]
      BY <1>5
    <3>6. todo2 = one \o rest
      BY <2>2, <3>1
    <3>7. todo2 \in Seq(Stamping) /\ Len(todo2) = Len(todo)
      BY <3>2, <3>3, <3>4, <3>6
    <3>8. \A i \in 1 .. Len(todo) : todo2[i] = IF i <= 1 THEN one[i] ELSE rest[i - 1]
      BY <3>2, <3>3, <3>4, <3>6
    <3>9. todo2[1] = s2
      BY <1>5, <3>2, <3>8
    <3>10. \A i \in 2 .. Len(todo) : todo2[i] = todo[i]
      BY <1>5, <3>5, <3>8
    <3>11. QED
      BY <3>7, <3>9, <3>10
  <2>7. todo2 # <<>> /\ DOMAIN todo2 = 1 .. Len(todo)
    BY <1>5, <2>6, LenProperties, EmptySeq
  <2>8. asked' = [asked EXCEPT ![c] = v]
    BY <2>3, <2>4, <2>7 DEF Books!Goes, Books!Start
  <2>9. asked'[c].todo = todo2 /\ v # Books!Idle
    BY <2>3, <2>7, <2>8 DEF BooksInv, Tables, Books!Idle
  <2>10. \A i \in 1 .. Len(todo) : /\ todo2[i].row = todo[i].row
                                   /\ i > 1 => todo2[i].do = "look"
    <3>1. todo2[1].row = todo[1].row
      BY <1>4, <2>1, <2>6
    <3>2. \A i \in 1 .. Len(todo) : i > 1 => todo2[i] = todo[i]
      BY <1>5, <2>6
    <3>3. QED
      BY <1>5, <1>7, <3>1, <3>2
  <2>11. Covered(todo2, d)
    BY <1>5, <1>7, <2>7, <2>10 DEF Covered
  <2>12. Covered(todo2, d)'
    BY <1>3, <2>11, CoveredStays
  <2>13. Stamping' = Stamping
    BY <1>3 DEF Stamping, Books!Looking
  <2>14. todo2[1].row.at = d /\ \A i \in 1 .. Len(todo) : todo2[i].row.at = d
    <3>1. \A i \in 1 .. Len(todo) : todo2[i].row.at = d
      BY <1>7, <2>10
    <3>2. 1 \in 1 .. Len(todo)
      BY <1>5
    <3>3. QED
      BY <3>1, <3>2
  <2>15. Generating(c)'
    BY <2>6, <2>7, <2>9, <2>10, <2>12, <2>13, <2>14 DEF Generating
  <2>16. d = It(c).row.at
    BY <1>4, <1>5
  <2>17. Books!MonthStamped
    <3>1. \A b \in Clerks : b # c => asked[b] = Books!Idle
      BY <1>1, OneRuns
    <3>2. asked'[c] # Books!Idle
      BY <2>8, <2>9 DEF BooksInv, Tables
    <3>3. QED
      BY <2>16, <3>1, <3>2, Monthly
  <2>18. QED
    BY <1>2, <1>3, <2>8, <2>15, <2>17, GenerationStep
<1>10. QED
  BY <1>8, <1>9

(* A template is stamped, or the generation is refused and ends.           *)
LEMMA StampStands ==
  ASSUME BooksInv, Books!Serial, NEW c \in Clerks, chosen' = chosen, crashed' = crashed, Tables',
         Books!Stamp(c)
  PROVE  BooksInv' /\ Stands
<1>1. asked[c].todo # <<>> /\ It(c).do = "stamp"
  BY DEF Books!Stamp, Books!Runs, It, Books!It
<1>2. Generating(c)
  BY <1>1, OneRuns, KindOf
<1>3. payroll' = payroll /\ slip' = slip /\ permit' = permit /\ template' = template
  BY DEF Books!Stamp, Books!wages, Books!hours, Books!lists
<1>4. PICK rest, d, row : /\ rest = Tail(asked[c].todo) /\ row = asked[c].todo[1].row
                          /\ d = row.at
  OBVIOUS
<1> DEFINE todo == asked[c].todo
<1>5. /\ todo \in Seq(Stamping) /\ It(c) = todo[1] /\ Len(todo) \in Nat /\ Len(todo) >= 1
      /\ DOMAIN todo = 1 .. Len(todo)
      /\ rest \in Seq(Stamping) /\ Len(rest) = Len(todo) - 1 /\ DOMAIN rest = 1 .. Len(rest)
      /\ \A i \in 1 .. Len(rest) : rest[i] = todo[i + 1]
  BY <1>2, <1>4, HeadTailProperties, LenProperties DEF Generating, It, Books!It
<1>6. /\ \A i \in 1 .. Len(todo) : todo[i].row.at = d
      /\ Covered(todo, d)
  BY <1>2, <1>4, <1>5 DEF Generating
<1>7. CASE ~Books!Refused(c) /\ Books!Enter(It(c).row) /\ Books!Done(c)
  <2>1. It(c).row = row /\ row.st = "there"
    <3>1. todo[1] \in Stamping
      BY <1>5
    <3>2. QED
      BY <1>4, <1>5, <3>1, StampParts
  <2>2. PICK x : x = CHOOSE y \in Books!Unborn : TRUE
    OBVIOUS
  <2>3. x \in Expenses /\ expense[x].st = "none"
    <3>1. Books!Unborn # {}
      BY <1>7 DEF Books!Refused
    <3>2. x \in Books!Unborn
      BY <2>2, <3>1
    <3>3. chosen.expenses \subseteq Expenses
      BY BooksShape DEF BooksInv, Books!UsesShape
    <3>4. QED
      BY <3>2, <3>3 DEF Books!Unborn
  <2>4. expense' = [expense EXCEPT ![x] = row]
    BY <1>7, <2>1, <2>2 DEF Books!Enter
  <2>5. expense'[x] = row /\ \A y \in Expenses : y # x => expense'[y] = expense[y]
    BY <2>3, <2>4 DEF BooksInv, Tables
  <2>6. \A t \in Books!Active : Books!Stamped(t, d) => Books!Stamped(t, d)'
    BY <2>3, <2>5 DEF Books!Stamped, Books!There
  <2>7. \A t \in Books!Active : t = row.of => Books!Stamped(t, d)'
    BY <1>4, <2>1, <2>3, <2>5 DEF Books!Stamped, Books!There
  <2>8. \A t \in Books!Active : Books!Stamped(t, d)' \/ \E i \in DOMAIN rest : rest[i].row.of = t
    <3>1. SUFFICES ASSUME NEW t \in Books!Active, ~Books!Stamped(t, d), t # row.of
                   PROVE  \E i \in DOMAIN rest : rest[i].row.of = t
      BY <2>6, <2>7
    <3>2. PICK i \in 1 .. Len(todo) : todo[i].row.of = t
      BY <1>5, <1>6, <3>1 DEF Covered
    <3>3. i # 1
      BY <1>4, <3>1, <3>2
    <3>4. i - 1 \in 1 .. Len(rest) /\ rest[i - 1] = todo[i]
      BY <1>5, <3>3
    <3>5. QED
      BY <1>5, <3>2, <3>4
  <2>9. Books!Active' = Books!Active
    BY <1>3 DEF Books!Active
  <2>10. Covered(rest, d)'
    BY <2>8, <2>9 DEF Covered
  <2>11. d = It(c).row.at
    BY <1>4, <1>5
  <2>12. QED
    BY <1>2, <1>3, <1>4, <1>7, <2>10, <2>11, Shorter
<1>8. CASE Books!Refused(c) /\ Books!Fails(c)
  <2>1. PICK v : v = Books!Idle
    OBVIOUS
  <2>2. asked' = [asked EXCEPT ![c] = v]
    BY <1>8, <2>1, FailsNow
  <2>3. d = It(c).row.at
    BY <1>4, <1>5
  <2>4. Books!MonthStamped
    <3>1. \A b \in Clerks : b # c => asked[b] = Books!Idle
      BY <1>1, OneRuns
    <3>2. QED
      BY <1>1, <1>8, <2>3, <3>1, Monthly
  <2>5. QED
    BY <1>2, <1>3, <2>1, <2>2, <2>4, GenerationStep
<1>9. QED
  BY <1>7, <1>8 DEF Books!Stamp, It

-----------------------------------------------------------------------------
(* Processing a payroll and approving it.                                  *)

LEMMA PayStep ==
  ASSUME BooksInv, Books!Serial, NEW c \in Clerks, asked[c].todo # <<>>, Paying(c),
         It(c).do \notin {"look", "stamp"},
         chosen' = chosen, crashed' = crashed, permit' = permit, Tables',
         NEW v, asked' = [asked EXCEPT ![c] = v],
         v = Books!Idle \/ Paying(c)', v = Books!Idle => Rested',
         Books!WholePayroll, payroll = "APPROVED" => payroll' = payroll /\ slip' = slip
  PROVE  BooksInv' /\ Stands
<1>1. /\ c \in chosen.calls /\ asked[c] # Books!Idle
      /\ \A d \in Clerks : d # c => asked[d] = Books!Idle
  BY OneRuns
<1>2. v = Books!Idle \/ InFlight(c)'
  BY <1>1 DEF InFlight
<1>3. Rested' \/ (v # Books!Idle /\ Paying(c)')
  OBVIOUS
<1>4. BooksInv'
  BY <1>1, <1>2, <1>3, Goes
<1>5. Books!MonthStamped
  BY <1>1 DEF Books!MonthStamped, Books!Idle, It
<1>6. QED
  BY <1>4, <1>5 DEF Stands

(* Which statement of a processing or an approval runs.                    *)
LEMMA PayingParts ==
  ASSUME NEW c \in Clerks, Paying(c)
  PROVE  /\ It(c).do = "open" =>
              /\ asked[c].todo = <<[do |-> "open"], [do |-> "employees"]>>
              /\ payroll = "none" /\ Unpaid
         /\ It(c).do = "employees" =>
              /\ asked[c].todo = <<[do |-> "employees"]>> /\ payroll = "DRAFT" /\ Unpaid
         /\ It(c).do = "slips" => Lone(c, {"slips"}) /\ payroll = "DRAFT" /\ Whole(It(c))
         /\ It(c).do = "approve" => Lone(c, {"approve"}) /\ payroll = "PENDING_REVIEW"
         /\ It(c).do = "tell" => Lone(c, {"tell"}) /\ payroll = "APPROVED"
<1>1. asked[c].todo = <<[do |-> "open"], [do |-> "employees"]>> => It(c).do = "open"
  BY DEF It, Books!It
<1>2. asked[c].todo = <<[do |-> "employees"]>> => It(c).do = "employees"
  BY DEF It, Books!It
<1>3. \A dos : Lone(c, dos) => It(c).do \in dos
  BY DEF Lone
<1>4. QED
  BY <1>1, <1>2, <1>3 DEF Paying

LEMMA OpenStands ==
  ASSUME BooksInv, Books!Serial, NEW c \in Clerks, chosen' = chosen, crashed' = crashed, Tables',
         Books!OpenPayroll(c)
  PROVE  BooksInv' /\ Stands
<1>1. asked[c].todo # <<>> /\ It(c).do = "open"
  BY DEF Books!OpenPayroll, Books!Runs, It, Books!It
<1>2. Paying(c)
  BY <1>1, OneRuns, KindOf
<1>3. asked[c].todo = <<[do |-> "open"], [do |-> "employees"]>> /\ payroll = "none" /\ Unpaid
  BY <1>1, <1>2, PayingParts
<1>4. Books!Rest(c) = <<[do |-> "employees"]>>
  BY <1>3 DEF Books!Rest
<1>5. payroll' = "DRAFT" /\ slip' = slip /\ permit' = permit
      /\ Books!Goes(c, <<[do |-> "employees"]>>)
  BY <1>3, <1>4 DEF Books!OpenPayroll, Books!hours, Books!Done
<1>6. PICK v : v = [op |-> asked[c].op, todo |-> <<[do |-> "employees"]>>]
  OBVIOUS
<1>7. asked' = [asked EXCEPT ![c] = v]
  BY <1>5, <1>6, GoesOn
<1>8. asked'[c].todo = <<[do |-> "employees"]>> /\ v # Books!Idle
  BY <1>6, <1>7, Singles DEF BooksInv, Tables, Books!Idle
<1>9. Paying(c)'
  BY <1>3, <1>5, <1>8 DEF Paying, Unpaid
<1>10. QED
  BY <1>1, <1>2, <1>3, <1>5, <1>7, <1>8, <1>9, PayStep DEF Books!WholePayroll

LEMMA EmployeesStands ==
  ASSUME BooksInv, Books!Serial, NEW c \in Clerks, chosen' = chosen, crashed' = crashed, Tables',
         Books!ReadEmployees(c)
  PROVE  BooksInv' /\ Stands
<1>1. asked[c].todo # <<>> /\ It(c).do = "employees"
  BY DEF Books!ReadEmployees, Books!Runs, It, Books!It
<1>2. Paying(c)
  BY <1>1, OneRuns, KindOf
<1>3. payroll = "DRAFT" /\ Unpaid
  BY <1>1, <1>2, PayingParts
<1>4. payroll' = payroll /\ slip' = slip /\ permit' = permit /\ earner' = earner
  BY DEF Books!ReadEmployees, Books!books, Books!wages, Books!hours
<1>5. PICK s : s = Books!Slips(Unread, {})
  OBVIOUS
<1>6. Books!Goes(c, <<s>>)
  BY <1>5 DEF Books!ReadEmployees, Unread
<1>7. PICK v : v = [op |-> asked[c].op, todo |-> <<s>>]
  OBVIOUS
<1>8. asked' = [asked EXCEPT ![c] = v]
  BY <1>6, <1>7, GoesOn
<1>9. asked'[c].todo = <<s>> /\ v # Books!Idle
  BY <1>7, <1>8, Singles DEF BooksInv, Tables, Books!Idle
<1>10. Whole(s)'
  <2>1. s.unread = Unread /\ s.ready = {}
    BY <1>5 DEF Books!Slips
  <2>2. ASSUME NEW p \in Staffers, earner[p].active PROVE \E w \in s.unread : w.who = p
    <3>1. [who |-> p, salary |-> earner[p].salary] \in Unread
      BY <2>2 DEF Unread
    <3>2. [who |-> p, salary |-> earner[p].salary].who = p
      OBVIOUS
    <3>3. QED
      BY <2>1, <3>1, <3>2
  <2>3. \A p \in Staffers : ~crashed /\ ~earner[p].active => slip[p] = Due(p)
    BY <1>3 DEF Unpaid, Due
  <2>4. Unread' = Unread /\ \A p \in Staffers : Due(p)' = Due(p)
    BY <1>4 DEF Unread, Due
  <2>5. QED
    BY <1>4, <2>1, <2>2, <2>3, <2>4 DEF Whole
<1>11. Paying(c)'
  <2>1. It(c)' = s /\ s.do = "slips"
    BY <1>5, <1>9, Singles DEF It, Books!It, Books!Slips
  <2>2. Lone(c, {"slips"})' /\ Whole(It(c))'
    BY <1>9, <1>10, <2>1 DEF Lone
  <2>3. QED
    BY <1>3, <1>4, <2>2 DEF Paying
<1>12. QED
  BY <1>1, <1>2, <1>3, <1>4, <1>8, <1>9, <1>11, PayStep DEF Books!WholePayroll

(* A slip is read for, written, or the payroll is finished.                *)
LEMMA SlipsGo ==
  ASSUME BooksInv, Books!Serial, NEW c \in Clerks, asked[c].todo # <<>>, Paying(c),
         It(c).do = "slips",
         chosen' = chosen, crashed' = crashed, permit' = permit, payroll' = payroll, Tables',
         NEW s, s.do = "slips", Books!Goes(c, <<s>>), Whole(s)'
  PROVE  BooksInv' /\ Stands
<1>1. payroll = "DRAFT"
  BY PayingParts
<1>2. PICK v : v = [op |-> asked[c].op, todo |-> <<s>>]
  OBVIOUS
<1>3. asked' = [asked EXCEPT ![c] = v]
  BY <1>2, GoesOn
<1>4. asked'[c].todo = <<s>> /\ v # Books!Idle
  BY <1>2, <1>3, Singles DEF BooksInv, Tables, Books!Idle
<1>5. It(c)' = s
  BY <1>4, Singles DEF It, Books!It
<1>6. Lone(c, {"slips"})' /\ Whole(It(c))'
  BY <1>4, <1>5 DEF Lone
<1>7. Paying(c)'
  BY <1>1, <1>6 DEF Paying
<1>8. QED
  BY <1>1, <1>3, <1>4, <1>7, PayStep DEF Books!WholePayroll

LEMMA SlipsStand ==
  ASSUME BooksInv, Books!Serial, NEW c \in Clerks, chosen' = chosen, crashed' = crashed, Tables',
         Books!ReadAttendance(c) \/ Books!WritePayslip(c) \/ Books!FinishPayroll(c)
  PROVE  BooksInv' /\ Stands
<1>1. asked[c].todo # <<>> /\ It(c).do = "slips"
  BY DEF Books!ReadAttendance, Books!WritePayslip, Books!FinishPayroll, Books!Runs, It, Books!It
<1>2. Paying(c)
  BY <1>1, OneRuns, KindOf
<1>3. PICK old : old = It(c)
  OBVIOUS
<1>4. Lone(c, {"slips"}) /\ payroll = "DRAFT" /\ Whole(old)
  BY <1>1, <1>2, <1>3, PayingParts
<1>5. permit' = permit /\ earner' = earner
  BY DEF Books!ReadAttendance, Books!WritePayslip, Books!FinishPayroll, Books!books,
         Books!wages, Books!hours
<1>6. Unread' = Unread /\ Ready' = Ready /\ \A p \in Staffers : Due(p)' = Due(p)
  BY <1>5 DEF Unread, Ready, Due
<1>7. \A w \in Unread : w.who \in Staffers /\ earner[w.who].active
                        /\ w.salary = earner[w.who].salary
  BY DEF Unread
<1>8. \A w \in Ready : /\ w.who \in Staffers
                       /\ [salary |-> w.salary, days |-> w.days] = Due(w.who)
  BY DEF Ready, Due
<1>9. CASE Books!ReadAttendance(c)
  <2>1. PICK w \in old.unread :
          Books!Goes(c, <<Books!Slips(old.unread \ {w},
                                      old.ready \cup {[who |-> w.who, salary |-> w.salary,
                                                       days |-> earner[w.who].days]})>>)
    BY <1>3, <1>9 DEF Books!ReadAttendance, It
  <2>2. PICK r : r = [who |-> w.who, salary |-> w.salary, days |-> earner[w.who].days]
    OBVIOUS
  <2>3. PICK s : s = Books!Slips(old.unread \ {w}, old.ready \cup {r})
    OBVIOUS
  <2>4. s.do = "slips" /\ s.unread = old.unread \ {w} /\ s.ready = old.ready \cup {r}
    BY <2>3 DEF Books!Slips
  <2>5. payroll' = payroll /\ slip' = slip
    BY <1>9 DEF Books!ReadAttendance, Books!books, Books!wages
  <2>6. w \in Unread
    BY <1>4 DEF Whole
  <2>7. r \in Ready /\ r.who = w.who
    BY <1>7, <2>2, <2>6 DEF Ready
  <2>8. \A p \in Staffers : ~crashed =>
          slip[p] = Due(p) \/ (\E u \in s.unread : u.who = p) \/ (\E u \in s.ready : u.who = p)
    BY <1>4, <2>4, <2>7 DEF Whole
  <2>9. Whole(s)'
    <3>1. s.unread \subseteq Unread /\ s.ready \subseteq Ready
      BY <1>4, <2>4, <2>7 DEF Whole
    <3>2. QED
      BY <1>6, <2>5, <2>8, <3>1 DEF Whole
  <2>10. QED
    BY <1>1, <1>2, <1>5, <2>1, <2>2, <2>3, <2>4, <2>5, <2>9, SlipsGo
<1>10. CASE Books!WritePayslip(c)
  <2>1. PICK w \in old.ready :
          /\ slip' = [slip EXCEPT ![w.who] = [salary |-> w.salary, days |-> w.days]]
          /\ Books!Goes(c, <<Books!Slips(old.unread, old.ready \ {w})>>)
    BY <1>3, <1>10 DEF Books!WritePayslip, It
  <2>2. PICK s : s = Books!Slips(old.unread, old.ready \ {w})
    OBVIOUS
  <2>3. s.do = "slips" /\ s.unread = old.unread /\ s.ready = old.ready \ {w}
    BY <2>2 DEF Books!Slips
  <2>4. payroll' = payroll
    BY <1>10 DEF Books!WritePayslip
  <2>5. w \in Ready
    BY <1>4 DEF Whole
  <2>6. w.who \in Staffers /\ [salary |-> w.salary, days |-> w.days] = Due(w.who)
    BY <1>8, <2>5
  <2>7. slip'[w.who] = Due(w.who) /\ \A p \in Staffers : p # w.who => slip'[p] = slip[p]
    BY <2>1, <2>6 DEF BooksInv, Tables
  <2>8. \A p \in Staffers : ~crashed =>
          slip'[p] = Due(p) \/ (\E u \in s.unread : u.who = p) \/ (\E u \in s.ready : u.who = p)
    BY <1>4, <2>3, <2>7 DEF Whole
  <2>9. Whole(s)'
    <3>1. s.unread \subseteq Unread /\ s.ready \subseteq Ready
      BY <1>4, <2>3 DEF Whole
    <3>2. QED
      BY <1>6, <2>8, <3>1 DEF Whole
  <2>10. QED
    BY <1>1, <1>2, <1>5, <2>1, <2>2, <2>3, <2>4, <2>9, SlipsGo
<1>11. CASE Books!FinishPayroll(c)
  <2>1. /\ old.unread = {} /\ old.ready = {} /\ payroll' = "PENDING_REVIEW" /\ slip' = slip
        /\ Books!Done(c)
    BY <1>3, <1>11 DEF Books!FinishPayroll, It
  <2>2. PICK v : v = Books!Idle
    OBVIOUS
  <2>3. asked' = [asked EXCEPT ![c] = v]
    BY <1>4, <2>1, <2>2, LastDone
  <2>4. ~crashed => \A p \in Staffers : slip[p] = Due(p)
    BY <1>4, <2>1 DEF Whole
  <2>5. Books!WholePayroll
    BY <2>4 DEF Books!WholePayroll, Due
  <2>6. Rested'
    BY <2>1 DEF Rested
  <2>7. QED
    BY <1>1, <1>2, <1>4, <1>5, <2>2, <2>3, <2>5, <2>6, PayStep
<1>12. QED
  BY <1>9, <1>10, <1>11

LEMMA ApprovalStands ==
  ASSUME BooksInv, Books!Serial, NEW c \in Clerks, chosen' = chosen, crashed' = crashed, Tables',
         Books!WriteApproval(c) \/ Books!TellEmployee(c)
  PROVE  BooksInv' /\ Stands
<1>1. asked[c].todo # <<>> /\ It(c).do \in {"approve", "tell"}
  BY DEF Books!WriteApproval, Books!TellEmployee, Books!Runs, It, Books!It
<1>2. Paying(c)
  BY <1>1, OneRuns, KindOf
<1>3. permit' = permit /\ slip' = slip
  BY DEF Books!WriteApproval, Books!TellEmployee, Books!hours
<1>4. payroll \in {"PENDING_REVIEW", "APPROVED"} /\ payroll' = "APPROVED"
      /\ Lone(c, {"approve", "tell"})
  <2>1. CASE Books!WriteApproval(c)
    <3>1. It(c).do = "approve"
      BY <2>1 DEF Books!WriteApproval, Books!Runs, It, Books!It
    <3>2. QED
      BY <1>2, <2>1, <3>1, PayingParts DEF Books!WriteApproval, Lone
  <2>2. CASE Books!TellEmployee(c)
    <3>1. It(c).do = "tell"
      BY <2>2 DEF Books!TellEmployee, Books!Runs, It, Books!It
    <3>2. QED
      BY <1>2, <2>2, <3>1, PayingParts DEF Books!TellEmployee, Lone
  <2>3. QED
    BY <2>1, <2>2
<1>5. (payroll = "APPROVED" => payroll' = payroll) /\ Rested' /\ Books!WholePayroll
  BY <1>4 DEF Rested, Books!WholePayroll
<1>6. ASSUME NEW s, s.do = "tell", Books!Goes(c, <<s>>) PROVE BooksInv' /\ Stands
  <2>1. PICK v : v = [op |-> asked[c].op, todo |-> <<s>>]
    OBVIOUS
  <2>2. asked' = [asked EXCEPT ![c] = v]
    BY <1>6, <2>1, GoesOn
  <2>3. asked'[c].todo = <<s>>
    BY <2>1, <2>2 DEF BooksInv, Tables
  <2>4. It(c)' = s
    BY <2>3, Singles DEF It, Books!It
  <2>5. Lone(c, {"tell"})'
    BY <1>6, <2>3, <2>4 DEF Lone
  <2>6. Paying(c)'
    BY <1>4, <2>5 DEF Paying
  <2>7. QED
    BY <1>1, <1>2, <1>3, <1>5, <2>2, <2>6, PayStep
<1>7. ASSUME Books!Done(c) PROVE BooksInv' /\ Stands
  <2>1. PICK v : v = Books!Idle
    OBVIOUS
  <2>2. asked' = [asked EXCEPT ![c] = v]
    BY <1>4, <1>7, <2>1, LastDone
  <2>3. QED
    BY <1>1, <1>2, <1>3, <1>5, <2>1, <2>2, PayStep
<1>8. Books!Done(c) \/ \E s : s.do = "tell" /\ Books!Goes(c, <<s>>)
  <2>1. CASE Books!WriteApproval(c)
    BY <2>1 DEF Books!WriteApproval
  <2>2. CASE Books!TellEmployee(c)
    BY <2>2 DEF Books!TellEmployee
  <2>3. QED
    BY <2>1, <2>2
<1>9. QED
  BY <1>6, <1>7, <1>8

-----------------------------------------------------------------------------
(* Every step, and the theorem.                                            *)

LEMMA StepStands ==
  ASSUME BooksInv, Books!Serial, NEW c \in Clerks, chosen' = chosen, crashed' = crashed, Tables',
         Books!Steps(c)
  PROVE  BooksInv' /\ Stands
<1>1. CASE \/ \E x \in Expenses : Books!UpdateStatus(c, x)
           \/ \E v \in Vendors : \/ Books!CreateVendor(c, v) \/ Books!UpdateVendor(c, v)
                                 \/ Books!RemoveVendor(c, v)
           \/ \E f \in Funds : \/ Books!CreateFund(c, f) \/ Books!UpdateFund(c, f)
                               \/ Books!RemoveFund(c, f)
           \/ \E g \in Grants : \/ Books!CreateBudget(c, g) \/ Books!UpdateBudget(c, g)
                                \/ Books!RemoveBudget(c, g)
           \/ \E t \in chosen.templates : \/ Books!CreateRecurring(c, t)
                                          \/ Books!UpdateRecurring(c, t)
           \/ \E q \in Permits : Books!ApplyPermit(c, q)
  BY <1>1, OnceStands
<1>2. CASE \/ Books!CreateExpense(c) \/ Books!ProcessPayroll(c) \/ Books!ApprovePayroll(c)
           \/ \E x \in Expenses : Books!UpdateExpense(c, x) \/ Books!RemoveExpense(c, x)
           \/ \E d \in Books!Dates : Books!GenerateRecurring(c, d)
           \/ \E q \in Permits, st \in {"APPROVED", "REJECTED"} : Books!AnswerPermit(c, q, st)
  BY <1>2, AskStands
<1>3. CASE \/ Books!NumberVoucher(c) \/ Books!FileExpense(c) \/ Books!Snapshot(c)
           \/ Books!Rewrite(c) \/ Books!EraseExpense(c) \/ Books!WriteLog(c)
  BY <1>3, RegisterStands
<1>4. CASE Books!WriteAnswer(c) \/ Books!NotifyAnswer(c)
  BY <1>4, AnswerStands
<1>5. CASE Books!ReadTemplates(c) \/ Books!LookForStamp(c) \/ Books!Stamp(c)
  BY <1>5, ReadTemplatesStands, LookStands, StampStands
<1>6. CASE Books!OpenPayroll(c) \/ Books!ReadEmployees(c)
  BY <1>6, OpenStands, EmployeesStands
<1>7. CASE Books!ReadAttendance(c) \/ Books!WritePayslip(c) \/ Books!FinishPayroll(c)
  BY <1>7, SlipsStand
<1>8. CASE Books!WriteApproval(c) \/ Books!TellEmployee(c)
  BY <1>8, ApprovalStands
<1>9. QED
  BY <1>1, <1>2, <1>3, <1>4, <1>5, <1>6, <1>7, <1>8 DEF Books!Steps

(* Outside the calls: what is on file about an employee changes, or the    *)
(* process stops.                                                          *)
LEMMA AsideStands ==
  ASSUME BooksInv, Books!Serial, chosen' = chosen,
         \/ (\E p \in Staffers : Books!ChangeEarner(p)) /\ crashed' = crashed
         \/ Books!Crash
  PROVE  BooksInv' /\ Stands
<1>1. CASE (\E p \in Staffers : Books!ChangeEarner(p)) /\ crashed' = crashed
  <2>1. /\ asked' = asked /\ expense' = expense /\ payroll' = payroll /\ slip' = slip
        /\ permit' = permit /\ \A d \in Clerks : asked[d] = Books!Idle
    BY <1>1 DEF Books!ChangeEarner, Books!AllIdle, Books!register, Books!hours
  <2>2. Tables' /\ Rested
    BY <2>1 DEF BooksInv, Tables
  <2>3. QED
    BY <1>1, <2>1, <2>2, Rests
<1>2. CASE Books!Crash
  <2>1. /\ crashed' = TRUE /\ asked' = [c \in Clerks |-> Books!Idle] /\ expense' = expense
        /\ payroll' = payroll /\ slip' = slip /\ permit' = permit
    BY <1>2 DEF Books!Crash, Books!books, Books!register, Books!wages, Books!hours
  <2>2. Tables' /\ Rested'
    BY <2>1 DEF BooksInv, Tables, Rested
  <2>3. \A c \in Clerks : asked'[c] = Books!Idle
    BY <2>1
  <2>4. BooksInv'
    BY <2>2, <2>3 DEF BooksInv, Books!Idle
  <2>5. Stands
    BY <2>1 DEF Stands, Books!MonthStamped, Books!WholePayroll
  <2>6. QED
    BY <2>4, <2>5
<1>3. QED
  BY <1>1, <1>2

LEMMA BooksNext ==
  ASSUME BooksInv, Books!Next
  PROVE  BooksInv' /\ (Books!Serial => Stands)
<1>1. chosen' = chosen
  BY DEF Books!Next
<1>2. Tables'
  <2>1. ASSUME NEW c \in Clerks, Books!Steps(c) PROVE Tables'
    BY <2>1, TablesKept DEF BooksInv
  <2>2. ASSUME NEW p \in Staffers, Books!ChangeEarner(p) PROVE Tables'
    BY <2>2 DEF BooksInv, Tables, Books!ChangeEarner, Books!register, Books!hours
  <2>3. ASSUME Books!Crash PROVE Tables'
    BY <2>3 DEF BooksInv, Tables, Books!Crash, Books!books, Books!register, Books!wages,
         Books!hours
  <2>4. QED
    BY <2>1, <2>2, <2>3 DEF Books!Next
<1>3. CASE Books!Serial
  BY <1>1, <1>2, <1>3, StepStands, AsideStands DEF Books!Next
<1>4. CASE ~Books!Serial
  <2>1. ~Books!Serial'
    BY <1>1, <1>4 DEF Books!Serial
  <2>2. QED
    BY <1>1, <1>2, <1>4, <2>1 DEF BooksInv
<1>5. QED
  BY <1>3, <1>4

LEMMA BooksStutter ==
  ASSUME BooksInv, UNCHANGED books
  PROVE  BooksInv' /\ UNCHANGED Books!vars
<1>1. UNCHANGED Books!vars
  BY DEF books, Books!vars, Books!books, Books!register, Books!lists, Books!money, Books!wages,
      Books!hours
<1>2. /\ chosen' = chosen /\ asked' = asked /\ expense' = expense /\ template' = template
      /\ payroll' = payroll /\ slip' = slip /\ earner' = earner /\ permit' = permit
      /\ crashed' = crashed
  BY DEF books
<1> USE <1>2
<1>3. /\ \A c \in Clerks : It(c)' = It(c)
      /\ (Rested' <=> Rested) /\ (Unpaid' <=> Unpaid)
  BY DEF It, Rested, Unpaid, Books!It
<1>4. Unread' = Unread /\ Ready' = Ready /\ (\A p \in Staffers : Due(p)' = Due(p))
      /\ Stamping' = Stamping
  BY DEF Unread, Ready, Due, Stamping, Books!Looking
<1>5. \A s : Whole(s)' <=> Whole(s)
  BY <1>4 DEF Whole
<1>6. \A todo, d : Covered(todo, d)' <=> Covered(todo, d)
  BY DEF Covered, Books!Active, Books!Stamped, Books!There
<1>7. ASSUME NEW c \in Clerks PROVE /\ Registering(c)' <=> Registering(c)
                                    /\ Answering(c)' <=> Answering(c)
  BY DEF Registering, Answering, Lone, It, Books!It
<1>8. ASSUME NEW c \in Clerks, Generating(c) PROVE Generating(c)'
  <2>1. PICK todo : todo = asked[c].todo
    OBVIOUS
  <2>2. PICK d : d = todo[1].row.at
    OBVIOUS
  <2>3. Covered(todo, d)'
    BY <1>6, <1>8, <2>1, <2>2 DEF Generating
  <2>4. QED
    BY <1>4, <1>8, <2>1, <2>2, <2>3 DEF Generating
<1>9. ASSUME NEW c \in Clerks, Paying(c) PROVE Paying(c)'
  <2>1. PICK s : s = It(c)
    OBVIOUS
  <2>2. It(c)' = s /\ (Whole(s) => Whole(s)')
    BY <1>3, <1>5, <2>1
  <2>3. Whole(It(c)) => Whole(It(c))'
    BY <2>1, <2>2
  <2>4. ASSUME NEW dos, Lone(c, dos) PROVE Lone(c, dos)'
    <3>1. asked'[c].todo = <<s>> /\ s.do \in dos
      BY <2>1, <2>4 DEF Lone
    <3>2. QED
      BY <2>2, <3>1 DEF Lone
  <2>5. QED
    BY <1>3, <1>9, <2>3, <2>4 DEF Paying
<1>10. \A c \in Clerks : InFlight(c) => InFlight(c)'
  BY <1>7, <1>8, <1>9 DEF InFlight
<1>11. BooksInv'
  <2>1. Books!Serial' <=> Books!Serial
    BY DEF Books!Serial
  <2>2. Tables'
    BY DEF BooksInv, Tables
  <2>3. QED
    BY <1>3, <1>9, <1>10, <2>1, <2>2 DEF BooksInv, Books!Idle
<1>12. QED
  BY <1>1, <1>11

(* What a call in flight still has to do and what it may rely on (the      *)
(* routes of financeAdmin, payroll and permission, statement by            *)
(* statement).                                                             *)
THEOREM BooksInvariant == FinanceSpec => []BooksInv
<1>1. FinanceInit => BooksInv
  BY DEF FinanceInit, Books!Init, Books!CallsInit, BooksInv, Tables, Rested, Books!Idle
<1>2. BooksInv /\ [FinanceNext]_<<vars, books>> => BooksInv'
  <2>1. ASSUME BooksInv, Books!Next PROVE BooksInv'
    BY <2>1, BooksNext
  <2>2. ASSUME BooksInv, UNCHANGED books PROVE BooksInv'
    BY <2>2, BooksStutter
  <2>3. QED
    BY <2>1, <2>2 DEF FinanceNext
<1>3. QED
  BY <1>1, <1>2, PTL DEF FinanceSpec

(* Where calls do not overlap, generating the month's expenses leaves each *)
(* active template its expense, processing a payroll leaves each active    *)
(* employee a slip of what is on file and nobody else one, an approved     *)
(* payroll stays as it was approved, and an answer to a permission stands. *)
THEOREM BooksHold == FinanceSpec => BooksStand
<1>1. BooksInv /\ [FinanceNext]_<<vars, books>> =>
        [Books!Serial =>
           /\ Books!MonthStamped /\ Books!WholePayroll
           /\ payroll = "APPROVED" => payroll' = payroll /\ slip' = slip
           /\ \A q \in Permits :
                permit[q].st \in {"APPROVED", "REJECTED"} => permit'[q] = permit[q]]_(Books!vars)
  <2>1. ASSUME BooksInv, Books!Next PROVE Books!Serial => Stands
    BY <2>1, BooksNext
  <2>2. ASSUME BooksInv, UNCHANGED books PROVE UNCHANGED Books!vars
    BY <2>2, BooksStutter
  <2>3. QED
    BY <2>1, <2>2 DEF FinanceNext, Stands
<1>2. QED
  BY <1>1, BooksInvariant, PTL DEF FinanceSpec, BooksStand, Books!BooksStand
=============================================================================
