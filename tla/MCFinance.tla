----------------------------- MODULE MCFinance ------------------------------
(* Small instances of finance.  Of a fee plan: every endpoint, one call at *)
(* a time; the endpoints that look at a transaction id, with one; those    *)
(* that change what is paid and to pay, on three instalments; and the      *)
(* endpoints that meet in an approval, each racing each.  Instalments and  *)
(* calls are interchangeable.  Of the books (Accounts): slices of the      *)
(* operations that share a table, by one call at a time and by two.  Plan  *)
(* and books share no row: a behaviour is about one of them.               *)
EXTENDS FeePlan, TLC

CONSTANTS i1, i2, i3, k1, k2, r1

CheckedRefOps == Op \ (LedgerOps \cup {"collectInstallment"})
RacingOps == {"collectInstallment", "rejectPayment", "approveInstallment",
              "sendDueReminders", "undo", "createCollection"}
MoneyOps == {"addInstallment", "collectInstallment", "rejectPayment",
             "approveInstallment", "removeInstallment"}

UsesChecked ==
  {[serial |-> TRUE, ops |-> Op, rows |-> 2, refs |-> {}],
   [serial |-> TRUE, ops |-> CheckedRefOps, rows |-> 2, refs |-> {r1}],
   [serial |-> TRUE, ops |-> MoneyOps, rows |-> 3, refs |-> {}],
   [serial |-> FALSE, ops |-> RacingOps, rows |-> 2, refs |-> {}],
   [serial |-> TRUE, ops |-> {}, rows |-> 0, refs |-> {}]}  \* the books instead

Symmetric == Permutations({i1, i2, i3}) \cup Permutations({k1, k2})

-----------------------------------------------------------------------------
CONSTANTS
  c1, c2, x1, x2, e1, e2, v1, t1, t2,
  Clerks, BookUses, Expenses, Templates, Vendors, Funds, Grants, Permits, Staffers,
  LastDate, MaxAmount, Nobody, NoVendor, NoTemplate, NoSlip

VARIABLES
  chosen, asked, expense, trail, vendor, template, fund, grant,
  payroll, slip, told, earner, permit, heard, crashed

Books == INSTANCE Accounts
           WITH use <- chosen, call <- asked, Calls <- Clerks, Uses <- BookUses

books == <<chosen, asked, expense, trail, vendor, template, fund, grant,
           payroll, slip, told, earner, permit, heard, crashed>>

ASSUME BooksShape == Books!UsesShape
ASSUME BooksFinite == IsFiniteSet(Clerks) /\ IsFiniteSet(Templates)

Unnumbered == [date |-> 0, n |-> 0]  \* NoNumber of Accounts: no number typed
B(a, d, v) == [amount |-> a, at |-> d, vendor |-> v, no |-> Unnumbered]
Plain == B(1, 1, NoVendor)
Typed == [B(2, 2, NoVendor) EXCEPT !.no = [date |-> 2, n |-> 1]]
BookSlice(ops) ==
  [calls |-> {c1}, ops |-> ops, alone |-> {}, bodies |-> {Plain}, spenders |-> {e1},
   expenses |-> {x1, x2}, templates |-> {t1}, earners |-> {}, rows |-> 2]
Overlap(slice, alone) == [slice EXCEPT !.calls = {c1, c2}, !.alone = alone]

Entered == [BookSlice({"expense", "edit"}) EXCEPT
              !.bodies = {Plain, B(2, 2, NoVendor)}]
Registered == [BookSlice({"expense", "edit", "remove", "crash"}) EXCEPT
                 !.bodies = {Plain, Typed}, !.rows = 1]
Decided == [BookSlice({"expense", "edit", "status", "remove"}) EXCEPT
              !.bodies = {Plain, Typed}, !.expenses = {x1}]
RegisteredAtOnce == Overlap([BookSlice({"expense", "edit", "remove", "crash"}) EXCEPT
                               !.bodies = {Plain, B(2, 1, NoVendor)}, !.expenses = {x1},
                               !.rows = 1],
                            {"expense"})
Supplied == Overlap([BookSlice({"expense", "edit", "vendor", "removeVendor"}) EXCEPT
                       !.bodies = {B(1, 1, v1)}, !.rows = 1], {})
Reckoned == [BookSlice({"expense", "status", "fund", "budget"}) EXCEPT
               !.bodies = {Plain, B(2, 2, NoVendor)}, !.spenders = {e1, Nobody},
               !.expenses = {x1}]
Generated == [BookSlice({"template", "generate", "vendor", "removeVendor", "remove"}) EXCEPT
                !.bodies = {Plain, B(1, 1, v1)}]
GeneratedOver == [BookSlice({"template", "generate", "crash"}) EXCEPT !.templates = {t1, t2}]
GeneratedAtOnce == Overlap(BookSlice({"template", "generate", "remove"}), {"remove"})
Processed == [BookSlice({"process", "approve", "earn", "crash"}) EXCEPT
                !.earners = {[active |-> TRUE, salary |-> 0, days |-> 1],
                             [active |-> TRUE, salary |-> 1, days |-> 0],
                             [active |-> FALSE, salary |-> 0, days |-> 0]}]
ProcessedAtOnce == Overlap([BookSlice({"process", "approve", "earn"}) EXCEPT
                              !.earners = {[active |-> TRUE, salary |-> 0, days |-> 1]}], {})
Answered == BookSlice({"permit", "answer", "crash"})
AnsweredAtOnce == Overlap(BookSlice({"permit", "answer"}), {})
BooksChecked ==
  {Entered, Registered, Decided, RegisteredAtOnce, Supplied, Reckoned, Generated,
   GeneratedOver, GeneratedAtOnce, Processed, ProcessedAtOnce, Answered, AnsweredAtOnce,
   [BookSlice({}) EXCEPT !.calls = {}]}  \* the plan instead

FinanceInit ==
  /\ Init /\ Books!Init
  /\ (use.ops = {}) # (chosen.ops = {})
  /\ use.ops = {} => ob
AboutBooks == chosen.ops # {}
FinanceNext ==
  \/ ~AboutBooks /\ Next /\ UNCHANGED books
  \/ AboutBooks /\ Books!Next /\ UNCHANGED vars
FinanceSpec == FinanceInit /\ [][FinanceNext]_<<vars, books>>

(* The books agree, and what is generated, approved or answered stands     *)
(* (Accounts).                                                             *)
BooksAgree == AboutBooks => Books!TypeOK /\ Books!BooksAgree
BooksStand == Books!BooksStand
=============================================================================
