------------------------------ MODULE Accounts ------------------------------
(***************************************************************************)
(* What finance admin and HR keep in books: the expenses with their audit  *)
(* trail and voucher numbers, vendors, the templates of monthly expenses,  *)
(* the head office's funds and the budgets (financeAdmin); the payroll of  *)
(* one month (payroll); permission hours (permission).  The process may    *)
(* stop once, between any two statements.                                  *)
(***************************************************************************)
EXTENDS Calling, SequencesExt

CONSTANTS
  Uses,
  Expenses, Templates, Vendors, Funds, Grants, Permits,  \* places for rows
  Staffers,   \* employees
  LastDate,   \* a date stands for its month
  MaxAmount,  \* bound: the largest amount
  Nobody, NoVendor, NoTemplate, NoSlip

VARIABLES
  expense, trail, vendor, template, fund, grant,
  payroll, slip, told, earner,
  permit, heard,
  crashed

Dates == 1 .. LastDate
Amounts == 0 .. MaxAmount
ExpenseStatus == {"PENDING", "APPROVED", "REJECTED", "PAID"}
Place == {"none", "there", "gone"}

(* no is the voucher's number under its date; a number typed in may be any *)
(* and NoNumber is that of an expense that came from a template.           *)
NoNumber == [date |-> 0, n |-> 0]
Voucher == [date : 0 .. LastDate, n : Nat]
AdminExpense ==
  [st : Place, status : ExpenseStatus, amount : Amounts, at : Dates, no : Voucher,
   vendor : Vendors \cup {NoVendor}, of : Templates \cup {NoTemplate},
   by : Staffers \cup {Nobody}]
NewExpense ==
  [st |-> "there", status |-> "PENDING", amount |-> 1, at |-> 1, no |-> NoNumber,
   vendor |-> NoVendor, of |-> NoTemplate, by |-> Nobody]
NoExpense == [NewExpense EXCEPT !.st = "none"]
AuditLog == [action : {"EDIT", "DELETE"}, old : AdminExpense, new : AdminExpense]
Template == [st : {"none", "on", "off"}, amount : Amounts, vendor : Vendors \cup {NoVendor}]
Fund == [st : Place, amount : Amounts, at : Dates]
Grant == [st : Place, amount : Amounts, to : Staffers]
Earner == [active : BOOLEAN, salary : Nat, days : Nat]
Payslip == [salary : Nat, days : Nat]
PayrollStatus == {"none", "DRAFT", "PENDING_REVIEW", "APPROVED"}  \* those written
Permission == [st : {"none", "PENDING", "APPROVED", "REJECTED"}, manager : BOOLEAN]

(* A body of a form; its number is NoNumber where none was typed.          *)
Body == [amount : Amounts, at : Dates, vendor : Vendors \cup {NoVendor}, no : Voucher]

UsesShape ==
  \A u \in Uses :
    /\ u.calls \subseteq Calls /\ u.ops \subseteq STRING /\ u.alone \subseteq STRING
    /\ u.bodies \subseteq Body /\ u.spenders \subseteq Staffers \cup {Nobody}
    /\ u.expenses \subseteq Expenses /\ u.templates \subseteq Templates
    /\ u.earners \subseteq Earner
    /\ u.rows \in Nat  \* bound: edits of an expense

TypeOK ==
  /\ use \in Uses /\ crashed \in BOOLEAN /\ CallsTypeOK
  /\ expense \in [Expenses -> AdminExpense]
  /\ trail \in [Expenses -> Seq(AuditLog)]
  /\ vendor \in [Vendors -> {"none", "ACTIVE", "INACTIVE", "gone"}]
  /\ template \in [Templates -> Template]
  /\ fund \in [Funds -> Fund] /\ grant \in [Grants -> Grant]
  /\ payroll \in PayrollStatus
  /\ slip \in [Staffers -> Payslip \cup {NoSlip}]
  /\ told \in [Staffers -> 0 .. 2]
  /\ earner \in [Staffers -> Earner]
  /\ permit \in [Permits -> Permission]
  /\ heard \in [Permits -> SUBSET {"APPROVED", "REJECTED"}]

register == <<expense, trail>>
lists == <<vendor, template>>
money == <<fund, grant>>
wages == <<payroll, slip, told, earner>>
hours == <<permit, heard>>
books == <<register, lists, money, wages, hours>>
vars == <<use, call, books, crashed>>

Init ==
  /\ use \in Uses /\ CallsInit /\ crashed = FALSE
  /\ expense = [x \in Expenses |-> NoExpense]
  /\ trail = [x \in Expenses |-> <<>>]
  /\ vendor = [v \in Vendors |-> "none"]
  /\ template = [t \in Templates |-> [st |-> "none", amount |-> 0, vendor |-> NoVendor]]
  /\ fund = [f \in Funds |-> [st |-> "none", amount |-> 0, at |-> 1]]
  /\ grant = [g \in Grants |-> [st |-> "none", amount |-> 0, to |-> CHOOSE p \in Staffers : TRUE]]
  /\ payroll = "none"
  /\ slip = [p \in Staffers |-> NoSlip] /\ told = [p \in Staffers |-> 0]
  /\ earner = [p \in Staffers |-> [active |-> TRUE, salary |-> 0, days |-> 0]]
  /\ permit = [q \in Permits |-> [st |-> "none", manager |-> FALSE]]
  /\ heard = [q \in Permits |-> {}]

(* A call of several statements begins; one of a single statement is over  *)
(* at once.                                                                *)
Asks(c, op, todo) == Free(c, op) /\ Start(c, op, todo) /\ UNCHANGED books
Once(c, op) == Free(c, op) /\ UNCHANGED call

-----------------------------------------------------------------------------
(* The expense register.                                                   *)

There(x) == expense[x].st = "there"
Unborn == {x \in use.expenses : expense[x].st = "none"}
Listed(v) == v # NoVendor => vendor[v] \in {"ACTIVE", "INACTIVE"}
Known(v) == v # NoVendor => vendor[v] # "none"

NoBody == [amount |-> 0, at |-> 1, vendor |-> NoVendor, no |-> NoNumber]
Filled(row, b) ==
  [row EXCEPT !.amount = b.amount, !.at = b.at, !.vendor = b.vendor,
              !.no = IF b.no = NoNumber THEN @ ELSE b.no]

CreateExpense(c) ==
  \E b \in use.bodies, p \in use.spenders :
    /\ Known(b.vendor)
    /\ Asks(c, "expense",
            <<[do |-> IF b.no = NoNumber THEN "number" ELSE "file",
               row |-> [Filled(NewExpense, b) EXCEPT !.by = p]]>>)

\* Mutant: the vouchers are counted by the expense's date.
NumberByDate(date) == 1 + Cardinality({x \in Expenses : There(x) /\ expense[x].at = date})

NumberAfter(date) == 1 + Cardinality({x \in Expenses : There(x) /\ expense[x].no.date = date})
NumberVoucher(c) ==
  /\ Runs(c, "number")
  /\ LET row == It(c).row
     IN  Goes(c, <<[do |-> "file",
                    row |-> [row EXCEPT !.no = [date |-> row.at, n |-> NumberAfter(row.at)]]]>>)
  /\ UNCHANGED books

(* An expense of a vendor that is deleted meanwhile is refused.            *)
Enter(row) ==
  expense' = [expense EXCEPT ![CHOOSE x \in Unborn : TRUE] = row]
FileExpense(c) ==
  /\ Runs(c, "file")
  /\ \/ /\ Listed(It(c).row.vendor) /\ Unborn # {}
        /\ Enter(It(c).row) /\ Done(c)
     \/ /\ ~Listed(It(c).row.vendor) \/ Unborn = {}  \* bound: no place left
        /\ UNCHANGED expense /\ Fails(c)
  /\ UNCHANGED <<trail, lists, money, wages, hours>>

UpdateStatus(c, x) ==
  /\ Once(c, "status") /\ There(x)
  /\ \E status \in ExpenseStatus : expense' = [expense EXCEPT ![x].status = status]
  /\ UNCHANGED <<trail, lists, money, wages, hours>>

(* An edit and a deletion look at the row, write it, and log what they saw *)
(* and wrote.                                                              *)
UpdateExpense(c, x) ==
  /\ expense[x].st # "none" /\ Len(trail[x]) < use.rows \* bound
  /\ \E b \in use.bodies :
       /\ Known(b.vendor)
       /\ Asks(c, "edit", <<[do |-> "snapshot", x |-> x, then |-> "rewrite", body |-> b]>>)
RemoveExpense(c, x) ==
  /\ expense[x].st # "none"
  /\ Asks(c, "remove", <<[do |-> "snapshot", x |-> x, then |-> "erase", body |-> NoBody]>>)

Snapshot(c) ==
  /\ Runs(c, "snapshot")
  /\ Goes(c, <<[do |-> It(c).then, x |-> It(c).x, body |-> It(c).body,
                old |-> expense[It(c).x]]>>)
  /\ UNCHANGED books

Logging(x, action, old, new) ==
  [do |-> "log", x |-> x, entry |-> [action |-> action, old |-> old, new |-> new]]
Rewrite(c) ==
  /\ Runs(c, "rewrite")
  /\ LET x == It(c).x
         new == Filled(expense[x], It(c).body)
     IN  \/ /\ There(x) /\ Listed(new.vendor)
            /\ expense' = [expense EXCEPT ![x] = new]
            /\ Goes(c, <<Logging(x, "EDIT", It(c).old, new)>>)
         \/ /\ ~(There(x) /\ Listed(new.vendor))
            /\ UNCHANGED expense /\ Fails(c)
  /\ UNCHANGED <<trail, lists, money, wages, hours>>

\* Mutant: what is already deleted is logged again.
ErasableAny(x) == TRUE

Erasable(x) == There(x)
EraseExpense(c) ==
  /\ Runs(c, "erase")
  /\ LET x == It(c).x
     IN  \/ /\ Erasable(x)
            /\ expense' = [expense EXCEPT ![x].st = "gone"]
            /\ Goes(c, <<Logging(x, "DELETE", It(c).old, NoExpense)>>)
         \/ ~Erasable(x) /\ UNCHANGED expense /\ Fails(c)
  /\ UNCHANGED <<trail, lists, money, wages, hours>>

WriteLog(c) ==
  /\ Runs(c, "log")
  /\ trail' = [trail EXCEPT ![It(c).x] = Append(@, It(c).entry)]
  /\ Done(c)
  /\ UNCHANGED <<expense, lists, money, wages, hours>>

-----------------------------------------------------------------------------
(* Vendors, whose deletion clears them from the expenses but not from the  *)
(* templates, which only name them; the head office's funds; the budgets.  *)

CreateVendor(c, v) ==
  /\ Once(c, "vendor") /\ vendor[v] = "none"
  /\ vendor' = [vendor EXCEPT ![v] = "ACTIVE"]
  /\ UNCHANGED <<register, template, money, wages, hours>>
UpdateVendor(c, v) ==
  /\ Once(c, "vendor") /\ vendor[v] # "none" /\ Listed(v)
  /\ \E status \in {"ACTIVE", "INACTIVE"} : vendor' = [vendor EXCEPT ![v] = status]
  /\ UNCHANGED <<register, template, money, wages, hours>>
RemoveVendor(c, v) ==
  /\ Once(c, "removeVendor") /\ vendor[v] # "none" /\ Listed(v)
  /\ vendor' = [vendor EXCEPT ![v] = "gone"]
  /\ expense' = [x \in Expenses |->
                   IF expense[x].vendor = v THEN [expense[x] EXCEPT !.vendor = NoVendor]
                   ELSE expense[x]]
  /\ UNCHANGED <<trail, template, money, wages, hours>>

CreateFund(c, f) ==
  /\ Once(c, "fund") /\ fund[f].st = "none"
  /\ \E a \in Amounts \ {0}, d \in Dates :
       fund' = [fund EXCEPT ![f] = [st |-> "there", amount |-> a, at |-> d]]
  /\ UNCHANGED <<register, lists, grant, wages, hours>>
UpdateFund(c, f) ==
  /\ Once(c, "fund") /\ fund[f].st = "there"
  /\ \E a \in Amounts, d \in Dates :
       fund' = [fund EXCEPT ![f].amount = a, ![f].at = d]
  /\ UNCHANGED <<register, lists, grant, wages, hours>>
RemoveFund(c, f) ==
  /\ Once(c, "fund") /\ fund[f].st = "there"
  /\ fund' = [fund EXCEPT ![f].st = "gone"]
  /\ UNCHANGED <<register, lists, grant, wages, hours>>

CreateBudget(c, g) ==
  /\ Once(c, "budget") /\ grant[g].st = "none"
  /\ \E a \in Amounts \ {0}, p \in Staffers :
       grant' = [grant EXCEPT ![g] = [st |-> "there", amount |-> a, to |-> p]]
  /\ UNCHANGED <<register, lists, fund, wages, hours>>
UpdateBudget(c, g) ==
  /\ Once(c, "budget") /\ grant[g].st = "there"
  /\ \E a \in Amounts \ {0} : grant' = [grant EXCEPT ![g].amount = a]
  /\ UNCHANGED <<register, lists, fund, wages, hours>>
RemoveBudget(c, g) ==
  /\ Once(c, "budget") /\ grant[g].st = "there"
  /\ grant' = [grant EXCEPT ![g].st = "gone"]
  /\ UNCHANGED <<register, lists, fund, wages, hours>>

-----------------------------------------------------------------------------
(* The monthly expenses.                                                   *)

CreateRecurring(c, t) ==
  /\ Once(c, "template") /\ template[t].st = "none"
  /\ \E b \in use.bodies :
       /\ Known(b.vendor)
       /\ template' = [template EXCEPT ![t] =
                        [st |-> "on", amount |-> b.amount, vendor |-> b.vendor]]
  /\ UNCHANGED <<register, vendor, money, wages, hours>>
UpdateRecurring(c, t) ==
  /\ Once(c, "template") /\ template[t].st # "none"
  /\ \E b \in use.bodies, st \in {"on", "off"} :
       /\ Known(b.vendor)
       /\ template' = [template EXCEPT ![t] =
                        [st |-> st, amount |-> b.amount, vendor |-> b.vendor]]
  /\ UNCHANGED <<register, vendor, money, wages, hours>>

GenerateRecurring(c, d) == Asks(c, "generate", <<[do |-> "templates", at |-> d]>>)

Active == {t \in Templates : template[t].st = "on"}
Looking(t, d) ==
  [do |-> "look", row |-> [NewExpense EXCEPT !.amount = template[t].amount, !.at = d,
                                             !.vendor = template[t].vendor, !.of = t]]
ReadTemplates(c) ==
  /\ Runs(c, "templates")
  /\ \E order \in SetToSeqs(Active) :
       Goes(c, [i \in DOMAIN order |-> Looking(order[i], It(c).at)])
  /\ UNCHANGED books

\* Mutant: whatever the template was stamped for before counts.
StampedEver(t, d) == \E x \in Expenses : There(x) /\ expense[x].of = t

Stamped(t, d) == \E x \in Expenses : There(x) /\ expense[x].of = t /\ expense[x].at = d
LookForStamp(c) ==
  /\ Runs(c, "look")
  /\ LET row == It(c).row
     IN  IF Stamped(row.of, row.at) THEN Done(c)
         ELSE Goes(c, <<[do |-> "stamp", row |-> row]>> \o Rest(c))
  /\ UNCHANGED books
Refused(c) == ~Listed(It(c).row.vendor) \/ Unborn = {}  \* bound: no place left
Stamp(c) ==
  /\ Runs(c, "stamp")
  /\ \/ ~Refused(c) /\ Enter(It(c).row) /\ Done(c)
     \/ Refused(c) /\ UNCHANGED expense /\ Fails(c)
  /\ UNCHANGED <<trail, lists, money, wages, hours>>

-----------------------------------------------------------------------------
(* Payroll.  What a payslip says comes from the salary structure, read     *)
(* with the employees, and from attendance and paid leave, read for each   *)
(* employee; the employees' slips are worked out side by side.             *)

\* Mutant: a month can be processed again.
ProcessableAgain == TRUE

Processable == payroll \in {"none", "DRAFT"}
ProcessPayroll(c) ==
  /\ Processable
  /\ Asks(c, "process", (IF payroll = "none" THEN <<[do |-> "open"]>> ELSE <<>>)
                          \o <<[do |-> "employees"]>>)
OpenPayroll(c) ==
  /\ Runs(c, "open")
  /\ \/ payroll = "none" /\ payroll' = "DRAFT" /\ Done(c)
     \/ payroll # "none" /\ UNCHANGED payroll /\ Fails(c)
  /\ UNCHANGED <<register, lists, money, slip, told, earner, hours>>

Slips(unread, ready) == [do |-> "slips", unread |-> unread, ready |-> ready]
ReadEmployees(c) ==
  /\ Runs(c, "employees")
  /\ Goes(c, <<Slips({[who |-> p, salary |-> earner[p].salary] :
                        p \in {q \in Staffers : earner[q].active}}, {})>>)
  /\ UNCHANGED books
ReadAttendance(c) ==
  /\ Runs(c, "slips")
  /\ \E w \in It(c).unread :
       Goes(c, <<Slips(It(c).unread \ {w},
                       It(c).ready \cup {[who |-> w.who, salary |-> w.salary,
                                          days |-> earner[w.who].days]})>>)
  /\ UNCHANGED books
WritePayslip(c) ==
  /\ Runs(c, "slips")
  /\ \E w \in It(c).ready :
       /\ slip' = [slip EXCEPT ![w.who] = [salary |-> w.salary, days |-> w.days]]
       /\ Goes(c, <<Slips(It(c).unread, It(c).ready \ {w})>>)
  /\ UNCHANGED <<register, lists, money, payroll, told, earner, hours>>
FinishPayroll(c) ==
  /\ Runs(c, "slips") /\ It(c).unread = {} /\ It(c).ready = {}
  /\ payroll' = "PENDING_REVIEW" /\ Done(c)
  /\ UNCHANGED <<register, lists, money, slip, told, earner, hours>>

Slipped == {p \in Staffers : slip[p] # NoSlip}
ApprovePayroll(c) ==
  /\ payroll = "PENDING_REVIEW"
  /\ Asks(c, "approve", <<[do |-> "approve", left |-> Slipped]>>)
WriteApproval(c) ==
  /\ Runs(c, "approve")
  /\ payroll' = "APPROVED" /\ Goes(c, <<[do |-> "tell", left |-> It(c).left]>>)
  /\ UNCHANGED <<register, lists, money, slip, told, earner, hours>>
TellEmployee(c) ==
  /\ Runs(c, "tell")
  /\ \/ \E p \in It(c).left :
          /\ told' = [told EXCEPT ![p] = IF @ = 2 THEN 2 ELSE @ + 1]
          /\ Goes(c, <<[do |-> "tell", left |-> It(c).left \ {p}]>>)
     \/ It(c).left = {} /\ UNCHANGED told /\ Done(c)
  /\ UNCHANGED <<register, lists, money, payroll, slip, earner, hours>>

(* Attendance, leave, salary and employment change elsewhere; where one    *)
(* call runs at a time, not during it.                                     *)
ChangeEarner(p) ==
  /\ "earn" \in use.ops /\ (Serial => AllIdle)
  /\ \E new \in use.earners : earner' = [earner EXCEPT ![p] = new]
  /\ UNCHANGED <<call, register, lists, money, payroll, slip, told, hours>>

-----------------------------------------------------------------------------
(* Permission hours: the manager on file when they were asked for answers. *)

ApplyPermit(c, q) ==
  /\ Once(c, "permit") /\ permit[q].st = "none"
  /\ \E m \in BOOLEAN : permit' = [permit EXCEPT ![q] = [st |-> "PENDING", manager |-> m]]
  /\ UNCHANGED <<register, lists, money, wages, heard>>

\* Mutant: what is answered can be answered again.
AnswerableAgain(q) == permit[q].st # "none" /\ permit[q].manager

Answerable(q) == permit[q].st = "PENDING" /\ permit[q].manager
AnswerPermit(c, q, st) ==
  Answerable(q) /\ Asks(c, "answer", <<[do |-> "answer", q |-> q, st |-> st]>>)
WriteAnswer(c) ==
  /\ Runs(c, "answer")
  /\ permit' = [permit EXCEPT ![It(c).q].st = It(c).st]
  /\ Goes(c, <<[do |-> "notify", q |-> It(c).q, st |-> It(c).st]>>)
  /\ UNCHANGED <<register, lists, money, wages, heard>>
NotifyAnswer(c) ==
  /\ Runs(c, "notify")
  /\ heard' = [heard EXCEPT ![It(c).q] = @ \cup {It(c).st}]
  /\ Done(c)
  /\ UNCHANGED <<register, lists, money, wages, permit>>

-----------------------------------------------------------------------------
Steps(c) ==
  \/ CreateExpense(c) \/ NumberVoucher(c) \/ FileExpense(c)
  \/ \E x \in Expenses : UpdateStatus(c, x) \/ UpdateExpense(c, x) \/ RemoveExpense(c, x)
  \/ Snapshot(c) \/ Rewrite(c) \/ EraseExpense(c) \/ WriteLog(c)
  \/ \E v \in Vendors : CreateVendor(c, v) \/ UpdateVendor(c, v) \/ RemoveVendor(c, v)
  \/ \E f \in Funds : CreateFund(c, f) \/ UpdateFund(c, f) \/ RemoveFund(c, f)
  \/ \E g \in Grants : CreateBudget(c, g) \/ UpdateBudget(c, g) \/ RemoveBudget(c, g)
  \/ \E t \in use.templates : CreateRecurring(c, t) \/ UpdateRecurring(c, t)
  \/ \E d \in Dates : GenerateRecurring(c, d)
  \/ ReadTemplates(c) \/ LookForStamp(c) \/ Stamp(c)
  \/ ProcessPayroll(c) \/ OpenPayroll(c) \/ ReadEmployees(c) \/ ReadAttendance(c)
  \/ WritePayslip(c) \/ FinishPayroll(c)
  \/ ApprovePayroll(c) \/ WriteApproval(c) \/ TellEmployee(c)
  \/ \E q \in Permits :
       \/ ApplyPermit(c, q)
       \/ \E st \in {"APPROVED", "REJECTED"} : AnswerPermit(c, q, st)
  \/ WriteAnswer(c) \/ NotifyAnswer(c)

Crash ==
  /\ "crash" \in use.ops /\ ~crashed
  /\ crashed' = TRUE /\ call' = [c \in Calls |-> Idle]
  /\ UNCHANGED books

Next ==
  /\ UNCHANGED use
  /\ \/ (\E c \in Calls : Steps(c)) /\ UNCHANGED crashed
     \/ (\E p \in Staffers : ChangeEarner(p)) /\ UNCHANGED crashed
     \/ Crash

Spec == Init /\ [][Next]_vars

-----------------------------------------------------------------------------
(* The month's ledger and the budgets, as the pages work them out.         *)

Received(dates) ==
  MapThenSumSet(LAMBDA f : fund[f].amount,
                {f \in Funds : fund[f].st = "there" /\ fund[f].at \in dates})
Amount(S) == MapThenSumSet(LAMBDA x : expense[x].amount, {x \in S : There(x)})
Paid(dates) == Amount({x \in Expenses : expense[x].at \in dates})

\* Mutant: the month's first day counts twice.
OpeningWith(d) == Received(1 .. d) - Paid(1 .. d)

Opening(d) == Received(1 .. d - 1) - Paid(1 .. d - 1)
Closing(d) == Opening(d) + Received({d}) - Paid({d})

Allocated(p) ==
  MapThenSumSet(LAMBDA g : grant[g].amount,
                {g \in Grants : grant[g].st = "there" /\ grant[g].to = p})

\* Mutant: a rejected expense stays spent.
SpentOfAll(p) == Amount({x \in Expenses : expense[x].by = p})

Spent(p) == Amount({x \in Expenses : expense[x].by = p /\ expense[x].status # "REJECTED"})
Balance(p) == Allocated(p) - Spent(p)

(* A month opens with what the last one closed with, and what the ledger   *)
(* debits is what the budgets bear, but for the rejected expenses and      *)
(* those of no employee ("total allocated - total non-rejected expenses"). *)
LedgerAgrees ==
  /\ \A d \in Dates : d + 1 \in Dates => Opening(d + 1) = Closing(d)
  /\ Paid(Dates) =
       MapThenSumSet(LAMBDA p : Allocated(p) - Balance(p), Staffers)
         + Amount({x \in Expenses : expense[x].by = Nobody \/ expense[x].status = "REJECTED"})

-----------------------------------------------------------------------------
Unused(ops) == use.ops \cap ops = {}

(* One call at a time, with numbers left to the code and nothing deleted,  *)
(* no two expenses share a voucher number, whatever dates are edited.      *)
VouchersDiffer ==
  Serial /\ Unused({"remove"}) /\ (\A b \in use.bodies : b.no = NoNumber) =>
    \A x, y \in Expenses :
      There(x) /\ There(y) /\ expense[x].no = expense[y].no /\ expense[x].no # NoNumber
        => x = y

(* One call at a time, a template is stamped at most once for a month, if  *)
(* nobody edits dates ("skipping templates that already have an expense    *)
(* generated for that month").                                             *)
StampedOnce ==
  Serial /\ Unused({"edit"}) =>
    \A x, y \in Expenses :
      There(x) /\ There(y) /\ expense[x].of = expense[y].of /\ expense[x].at = expense[y].at
        => expense[x].of = NoTemplate \/ x = y

Deletions(x) == {i \in DOMAIN trail[x] : trail[x][i].action = "DELETE"}
LogsDeletion(c, x) ==
  \E i \in DOMAIN call[c].todo :
    LET s == call[c].todo[i] IN s.do = "log" /\ s.x = x /\ s.entry.action = "DELETE"

(* However calls overlap, an expense is logged as deleted once, after it   *)
(* is gone, and is logged unless the process stopped in between.           *)
DeletedOnce ==
  \A x \in Expenses :
    /\ Deletions(x) # {} => expense[x].st = "gone"
    /\ Cardinality(Deletions(x)) <= 1
    /\ expense[x].st = "gone" /\ Deletions(x) = {} =>
         crashed \/ \E c \in Calls : LogsDeletion(c, x)

(* One call at a time and none cut short, the trail is a history: an entry *)
(* starts where the one before it ended and the last tells the row as it   *)
(* is; of the status and of a deleted vendor the trail says nothing.       *)
Tells(row, other) ==
  row.amount = other.amount /\ row.at = other.at /\ row.no = other.no
After(entry) == IF entry.action = "EDIT" THEN entry.new ELSE entry.old
TrailTells ==
  Serial /\ AllIdle /\ ~crashed =>
    \A x \in Expenses :
      LET n == Len(trail[x])
      IN  /\ n > 0 => Tells(After(trail[x][n]), expense[x])
          /\ \A i \in 1 .. n - 1 : Tells(After(trail[x][i]), trail[x][i + 1].old)

(* One call at a time, each employee with a slip is told of the approval   *)
(* once, and nobody before.                                                *)
PayrollTold ==
  Serial =>
    \A p \in Staffers :
      /\ told[p] > 0 => payroll = "APPROVED" /\ slip[p] # NoSlip /\ told[p] = 1
      /\ payroll = "APPROVED" /\ slip[p] # NoSlip /\ AllIdle => crashed \/ told[p] = 1

(* One call at a time, the asker has heard the answer that stands, and no  *)
(* other.                                                                  *)
AnswersHeard ==
  Serial =>
    \A q \in Permits :
      /\ heard[q] \subseteq {permit[q].st}
      /\ permit[q].st \in {"APPROVED", "REJECTED"} /\ AllIdle => crashed \/ heard[q] # {}

BooksAgree ==
  /\ LedgerAgrees
  /\ VouchersDiffer /\ StampedOnce
  /\ DeletedOnce /\ TrailTells
  /\ PayrollTold /\ AnswersHeard

(* A generation that ends without being refused leaves each active         *)
(* template an expense of its month.                                       *)
MonthStamped ==
  \A c \in Calls :
    LET s == It(c)
    IN  /\ call[c].todo # <<>> /\ call'[c] = Idle /\ ~crashed'
        /\ s.do = "look" \/ (s.do = "stamp" /\ ~Refused(c))
        => \A t \in Active : \E x \in Expenses :
             expense'[x].st = "there" /\ expense'[x].of = t /\ expense'[x].at = s.row.at

(* Processing ends with a slip of each active employee, and of no other,   *)
(* from the salary and the attendance on file, unless one was cut short.   *)
WholePayroll ==
  payroll # payroll' /\ payroll' = "PENDING_REVIEW" /\ ~crashed =>
    \A p \in Staffers :
      slip[p] = IF earner[p].active
                THEN [salary |-> earner[p].salary, days |-> earner[p].days] ELSE NoSlip

(* One call at a time: generating and processing do all they say, an       *)
(* approved payroll stays as it was approved ("Payroll already processed   *)
(* for this month") and an answer stands ("Already processed").            *)
BooksStand ==
  [][Serial =>
       /\ MonthStamped /\ WholePayroll
       /\ payroll = "APPROVED" => payroll' = payroll /\ slip' = slip
       /\ \A q \in Permits : permit[q].st \in {"APPROVED", "REJECTED"} => permit'[q] = permit[q]]_vars
=============================================================================
