------------------------------ MODULE FeePlan -------------------------------
(***************************************************************************)
(* One fee plan of one lead: its instalments, the collections ledger, the  *)
(* refund and deletion requests, the onboarding that points at the plan,   *)
(* and the lead stage that follows the verified money.  Endpoints and the  *)
(* reminder job run as calls: most read a row in one statement and write   *)
(* it in a later one.  A call that ends makes room for another.            *)
(***************************************************************************)
EXTENDS Integers, FiniteSets

CONSTANTS
  Slots,      \* rows of FeeInstallment the plan may get
  Calls,      \* how many calls may be in flight at once
  Uses,       \* ways the endpoints may be used: see use
  Refs,       \* transaction ids
  NoSlot, NoRef,
  TotalFee,   \* the plan's totalFee, each instalment being 1; 0: not known
  Months,     \* months a payment may be dated in
  MaxNo       \* bound: largest sequence number of a receipt

InstOps == {"collectInstallment", "payInstallment", "rejectPayment",
            "removeInstallment", "approveInstallment"}
PlanOps == {"requestRefund", "completeRefund", "rejectRefund",
            "requestDeletePlan", "approveDeletePlan", "rejectDeletePlan",
            "undo"}
LedgerOps == {"createCollection", "updateCollection", "removeCollection"}
Op == InstOps \cup PlanOps \cup LedgerOps \cup
        {"addInstallment", "sendDueReminders", "cancelPlan", "updatePlan",
         "recordPayment"}

ASSUME UsesShape == Uses \subseteq [serial : BOOLEAN, ops : SUBSET Op,
                                    rows : Nat, refs : SUBSET Refs]
ASSUME SlotsFinite == IsFiniteSet(Slots) /\ NoSlot \notin Slots
ASSUME RefsDistinct == NoRef \notin Refs /\ "none" \notin Months
ASSUME NumbersNat == MaxNo \in Nat /\ TotalFee \in Nat

Open == {"PENDING", "OVERDUE"}
Unsettled == {"PENDING", "OVERDUE", "PENDING_APPROVAL"}
Absent == {"none", "gone"}             \* not created yet; deleted
PlanStatus == {"ACTIVE", "CANCELLED", "COMPLETED", "REFUNDED"}

VARIABLES
  use,        \* of this behaviour: the endpoints in use, whether one call
              \* at a time, how many instalments and which transaction ids;
              \* never changes
  plan,       \* FeePaymentPlan.status, or "gone"
  inst,       \* the instalments
  ledger,     \* FeeCollection: receipt number and the instalment it is for
  refund, deletion,   \* a request is waiting for Admin
  ob,         \* the LeadOnboarding row exists and names this plan
  lead,       \* PAYMENT_STAGE_RANK of the lead's stage, 0: an earlier stage
  issued,     \* history: ledger rows ever made per instalment
  call        \* the calls in flight

vars == <<use, plan, inst, ledger, refund, deletion, ob, lead, issued, call>>

Installment == [st : Unsettled \cup Absent \cup {"PAID", "WAIVED"},
                scheduled : BOOLEAN, rejected : BOOLEAN,
                ref : Refs \cup {NoRef}]
LedgerRow == [no : 1 .. MaxNo, month : Months, of : Slots \cup {NoSlot}]
CallState == [pc : {"idle", "read", "number", "insert", "open", "sync", "move",
                    "flip", "revive", "check", "create"},
              op : Op \cup {"none"}, i : Slots \cup {NoSlot},
              ref : Refs \cup {NoRef}, no : 0 .. MaxNo,
              month : Months \cup {"none"}, left : BOOLEAN,
              todo : SUBSET Slots, rank : 0 .. 3]

TypeOK ==
  /\ use \in Uses
  /\ plan \in PlanStatus \cup {"gone"}
  /\ inst \in [Slots -> Installment]
  /\ ledger \subseteq LedgerRow
  /\ refund \in BOOLEAN /\ deletion \in BOOLEAN /\ ob \in BOOLEAN
  /\ lead \in 0 .. 3
  /\ issued \in [Slots -> Nat]
  /\ call \in [Calls -> CallState]

Idle == [pc |-> "idle", op |-> "none", i |-> NoSlot, ref |-> NoRef,
         no |-> 0, month |-> "none", left |-> FALSE, todo |-> {}, rank |-> 0]

(* The instalments ever created. *)
Rows == Cardinality({i \in Slots : inst[i].st # "none"})

NewRow(st, sched, ref) ==
  [st |-> st, scheduled |-> sched, rejected |-> FALSE, ref |-> ref]

(* A plan as onboard (ob), or createPlan and createAdmission, leave it:    *)
(* some instalments scheduled, the first payment maybe submitted.  Only    *)
(* onboarding marks its rows as scheduled.                                 *)
Init ==
  /\ use \in Uses
  /\ plan = "ACTIVE" /\ ledger = {} /\ lead = 0
  /\ refund = FALSE /\ deletion = FALSE
  /\ ob \in BOOLEAN
  /\ inst \in [Slots -> {NewRow("none", FALSE, NoRef),
                         NewRow("PENDING", ob, NoRef),
                         NewRow("PENDING_APPROVAL", FALSE, NoRef)}]
  /\ Rows <= use.rows
  /\ issued = [i \in Slots |-> 0]
  /\ call = [c \in Calls |-> Idle]

Quiet == \A c \in Calls : call[c].pc = "idle"
Free(c, op) == /\ op \in use.ops
               /\ IF use.serial THEN Quiet ELSE call[c].pc = "idle"
At(c, pc) == call[c].pc = pc
Ended(c) == call' = [call EXCEPT ![c] = Idle]
Exists(i) == inst[i].st \notin Absent

(* An approval inside its transaction has its instalment's row locked:     *)
(* other statements that write the row wait for it.                        *)
Locked(i) == \E c \in Calls : At(c, "open") /\ call[c].i = i
PlanUnlocked == \A i \in Slots : ~Locked(i)

planCols == <<plan, refund, deletion, ob>>
money == <<ledger, issued>>

-----------------------------------------------------------------------------
(* Endpoints on one instalment: read it, check its status, write it.       *)

\* Mutant: collecting and removing look at PAID only.
CanStartLoose(op, st) ==
  CASE op \in {"collectInstallment", "removeInstallment"} -> st # "PAID"
    [] op = "payInstallment" -> st \in Open
    [] OTHER -> st = "PENDING_APPROVAL"

CanStart(op, st) ==
  CASE op \in {"collectInstallment", "removeInstallment"} ->
         st \notin {"PAID", "PENDING_APPROVAL"}
    [] op = "payInstallment" -> st \in Open
    [] OTHER -> st = "PENDING_APPROVAL"

\* Mutant: rejected and live payments are told apart the wrong way round.
ReferenceTakenRejected(r, but) ==
  /\ r # NoRef
  /\ \E i \in Slots \ {but} : Exists(i) /\ inst[i].ref = r /\ inst[i].rejected

(* Another payment, not rejected, carries the transaction id. *)
ReferenceTaken(r, but) ==
  /\ r # NoRef
  /\ \E i \in Slots \ {but} : Exists(i) /\ inst[i].ref = r /\ ~inst[i].rejected

ReadInstallment(c) ==
  /\ \E op \in InstOps, i \in Slots, r \in use.refs \cup {NoRef} :
       /\ Free(c, op)
       /\ Exists(i) /\ CanStart(op, inst[i].st)
       /\ r # NoRef => op \in {"collectInstallment", "payInstallment"}
       /\ op = "payInstallment" => ~ReferenceTaken(r, i)
       /\ call' = [call EXCEPT ![c] =
            [Idle EXCEPT !.pc = IF op = "approveInstallment" THEN "number"
                                                             ELSE "read",
                         !.op = op, !.i = i, !.ref = r]]
  /\ UNCHANGED <<planCols, inst, money, lead>>

(* What Sales records waits for Admin. *)
Collected == "PENDING_APPROVAL"

(* collectInstallment keeps an old rejection on the row, and the old       *)
(* transaction id when it is given none; payInstallment clears both.       *)
Written(row, op, r) ==
  CASE op = "collectInstallment" ->
         [row EXCEPT !.st = Collected, !.ref = IF r = NoRef THEN @ ELSE r]
    [] op = "payInstallment" ->
         [row EXCEPT !.st = Collected, !.ref = r, !.rejected = FALSE]
    [] op = "rejectPayment" ->
         IF row.scheduled
         THEN [row EXCEPT !.st = "PENDING", !.ref = NoRef, !.rejected = TRUE]
         ELSE [row EXCEPT !.st = "WAIVED", !.rejected = TRUE]
    [] OTHER -> [row EXCEPT !.st = "gone"]

WriteInstallment(c) ==
  /\ At(c, "read") /\ call[c].op \in InstOps
  /\ LET i == call[c].i
     IN /\ ~Locked(i)
        /\ inst' = IF Exists(i)           \* else the update finds no row
                   THEN [inst EXCEPT ![i] = Written(@, call[c].op, call[c].ref)]
                   ELSE inst
  /\ Ended(c)
  /\ UNCHANGED <<planCols, money, lead>>

(* addInstallment: never marked as scheduled. *)
AddInstallment(c) ==
  /\ Free(c, "addInstallment") /\ plan # "gone" /\ Rows < use.rows
  /\ \E i \in Slots :
       /\ inst[i].st = "none"
       /\ inst' = [inst EXCEPT ![i] = NewRow("PENDING", FALSE, NoRef)]
  /\ UNCHANGED <<planCols, money, lead, call>>

-----------------------------------------------------------------------------
(* approveInstallment after its status check: a receipt number, then the   *)
(* transaction, then the lead's stage.                                     *)

(* A receipt number is a sequence number and the month of the payment. *)
InUse(n, m) == \E r \in ledger : r.no = n /\ r.month = m

(* Count the rows, add one, and go up past the numbers in use. *)
NextReceiptNo(n, m) ==
  /\ n > Cardinality(ledger) /\ ~InUse(n, m)
  /\ \A k \in (Cardinality(ledger) + 1) .. (n - 1) : InUse(k, m)

TakeReceiptNo(c) ==
  /\ At(c, "number")
  /\ \E n \in 1 .. MaxNo, m \in Months :
       /\ NextReceiptNo(n, m)
       /\ call' = [call EXCEPT ![c].pc = "insert", ![c].no = n, ![c].month = m]
  /\ UNCHANGED <<planCols, inst, money, lead>>

\* Mutant: no unique index on the receipt number.
NumberNotChecked(n, m) == TRUE

NumberFree(n, m) == ~InUse(n, m)

(* Another transaction has inserted the number and not ended: wait. *)
NumberInFlight(n, m) ==
  \E c \in Calls : At(c, "open") /\ call[c].no = n /\ call[c].month = m

(* Insert the ledger row, update the instalment, count what is left in the *)
(* transaction's snapshot.  A number already committed fails the call.     *)
OpenApproval(c) ==
  /\ At(c, "insert")
  /\ ~NumberInFlight(call[c].no, call[c].month)
  /\ LET i == call[c].i
     IN /\ ~Locked(i)
        /\ \/ /\ NumberFree(call[c].no, call[c].month) /\ Exists(i)
              /\ call' = [call EXCEPT ![c].pc = "open", ![c].left =
                   \E j \in Slots \ {i} : inst[j].st \in Unsettled]
           \/ /\ ~(NumberFree(call[c].no, call[c].month) /\ Exists(i))
              /\ Ended(c)
  /\ UNCHANGED <<planCols, inst, money, lead>>

\* Mutant: the plan is never marked COMPLETED.
NeverCompleted(left) == plan

\* Mutant: the plan is given the instalment's status.
PlanPaid(left) == IF left THEN plan ELSE "PAID"

PlanAfterApproval(left) == IF left THEN plan ELSE "COMPLETED"

CommitApproval(c) ==
  /\ At(c, "open")
  /\ LET i == call[c].i
     IN /\ ledger' = ledger \cup {[no |-> call[c].no, month |-> call[c].month,
                                of |-> i]}
        /\ inst' = [inst EXCEPT ![i].st = "PAID"]
        /\ issued' = [issued EXCEPT ![i] = @ + 1]
  /\ plan' = PlanAfterApproval(call[c].left)
  /\ call' = [call EXCEPT ![c] = [Idle EXCEPT !.pc = "sync"]]
  /\ UNCHANGED <<refund, deletion, ob, lead>>

(* The transaction fails or outlives its time limit. *)
AbortApproval(c) ==
  /\ At(c, "open")
  /\ Ended(c)
  /\ UNCHANGED <<planCols, inst, money, lead>>

Count(sts) == Cardinality({i \in Slots : inst[i].st \in sts})

(* feeSummaryForLead, each instalment being worth 1; a cancelled or        *)
(* refunded plan counts for nothing.                                       *)
Paid == IF plan \in {"ACTIVE", "COMPLETED"} THEN Count({"PAID"}) ELSE 0
Total == IF Count(Unsettled \cup {"PAID"}) > TotalFee
         THEN Count(Unsettled \cup {"PAID"}) ELSE TotalFee

TargetStage == IF TotalFee > 0 /\ Paid >= Total THEN 3
               ELSE IF TotalFee > 0 /\ 10 * Paid >= 6 * Total THEN 2
               ELSE 1

\* Mutant: the stage is set whatever it was.
AheadOfNothing(rank) == Paid > 0

AheadOfLead(rank) == Paid > 0 /\ lead < rank

(* syncStageFromFees: the money and the lead are read, ... *)
ReadStage(c) ==
  /\ At(c, "sync")
  /\ call' = [call EXCEPT ![c] =
       IF AheadOfLead(TargetStage)
       THEN [Idle EXCEPT !.pc = "move", !.rank = TargetStage]
       ELSE Idle]
  /\ UNCHANGED <<planCols, inst, money, lead>>

(* ... and the lead is written later. *)
MoveLead(c) ==
  /\ At(c, "move")
  /\ lead' = call[c].rank
  /\ Ended(c)
  /\ UNCHANGED <<planCols, inst, money>>

-----------------------------------------------------------------------------
(* The daily reminder sweep: the list is loaded once, then every overdue   *)
(* instalment on it that was PENDING is written, as found or not.          *)

LoadPending(c) ==
  /\ Free(c, "sendDueReminders") /\ plan = "ACTIVE"
  /\ \E late \in SUBSET {i \in Slots : inst[i].st = "PENDING"} \ {{}} :
       call' = [call EXCEPT ![c] = [Idle EXCEPT !.pc = "flip", !.todo = late,
                                            !.op = "sendDueReminders"]]
  /\ UNCHANGED <<planCols, inst, money, lead>>

FlipOverdue(c) ==
  /\ At(c, "flip")
  /\ \E i \in call[c].todo :
       /\ ~Locked(i)
       /\ \/ /\ Exists(i)
             /\ inst' = [inst EXCEPT ![i].st = "OVERDUE"]
             /\ call' = [call EXCEPT ![c] =
                  IF call[c].todo = {i} THEN Idle
                  ELSE [call[c] EXCEPT !.todo = @ \ {i}]]
          \/ /\ ~Exists(i)              \* the update throws: sweep over
             /\ Ended(c)
             /\ UNCHANGED inst
  /\ UNCHANGED <<planCols, money, lead>>

-----------------------------------------------------------------------------
(* Endpoints on the plan: most read it, check a flag, and write later.     *)

WaiveOpen == inst' = [i \in Slots |-> IF inst[i].st \in Open
                                      THEN [inst[i] EXCEPT !.st = "WAIVED"]
                                      ELSE inst[i]]
DropRows == inst' = [i \in Slots |-> IF Exists(i)
                                     THEN [inst[i] EXCEPT !.st = "gone"]
                                     ELSE inst[i]]

\* Mutant: undo does not look at what Finance has approved.
UndoAnyway == ob

(* undo: refused once Finance has approved a payment. *)
CanUndo == ob /\ \A i \in Slots : inst[i].st # "PAID"

ReadPlan(c) ==
  /\ \E op \in PlanOps :
       /\ Free(c, op)
       /\ op # "undo" => plan # "gone"
       /\ op = "requestRefund" => ~refund
       /\ op \in {"completeRefund", "rejectRefund"} => refund
       /\ op = "requestDeletePlan" => ~deletion
       /\ op \in {"approveDeletePlan", "rejectDeletePlan"} => deletion
       /\ op = "undo" => CanUndo
       /\ call' = [call EXCEPT ![c] = [Idle EXCEPT !.pc = "read", !.op = op]]
  /\ UNCHANGED <<planCols, inst, money, lead>>

SetFlags(c) ==
  /\ CASE call[c].op \in {"requestRefund", "rejectRefund"} ->
            /\ refund' = (call[c].op = "requestRefund")
            /\ UNCHANGED deletion
       [] OTHER ->
            /\ deletion' = (call[c].op = "requestDeletePlan")
            /\ UNCHANGED refund
  /\ UNCHANGED <<plan, ob, inst, ledger>>

RefundPlan == /\ plan' = "REFUNDED" /\ refund' = FALSE
              /\ WaiveOpen
              /\ UNCHANGED <<deletion, ob, ledger>>

\* Mutant: the ledger rows go with the plan.
LedgerCascaded == {r \in ledger : r.of = NoSlot}

(* What a plan's deletion leaves in the ledger: everything. *)
LedgerLeft == ledger

(* approveDeletePlan leaves the onboarding naming a plan that is gone;     *)
(* undo deletes both.                                                      *)
ErasePlan(c) == /\ plan' = "gone" /\ refund' = FALSE /\ deletion' = FALSE
                /\ ob' = IF call[c].op = "undo" THEN FALSE ELSE ob
                /\ DropRows
                /\ ledger' = LedgerLeft

WritePlan(c) ==
  /\ At(c, "read") /\ call[c].op \in PlanOps
  /\ PlanUnlocked
  /\ \/ /\ plan = "gone"                \* no row to update: an error
        /\ UNCHANGED <<planCols, inst, ledger>>
     \/ /\ plan # "gone"
        /\ CASE call[c].op = "completeRefund" -> RefundPlan
             [] call[c].op \in {"approveDeletePlan", "undo"} -> ErasePlan(c)
             [] OTHER -> SetFlags(c)
  /\ Ended(c)
  /\ UNCHANGED <<issued, lead>>

(* cancelPlan reads nothing first. *)
CancelPlan(c) ==
  /\ Free(c, "cancelPlan") /\ plan # "gone" /\ PlanUnlocked
  /\ plan' = "CANCELLED"
  /\ WaiveOpen
  /\ UNCHANGED <<refund, deletion, ob, money, lead, call>>

(* updatePlan writes any status the body names. *)
UpdatePlan(c) ==
  /\ Free(c, "updatePlan") /\ plan # "gone"
  /\ plan' \in PlanStatus
  /\ UNCHANGED <<refund, deletion, ob, inst, money, lead, call>>

-----------------------------------------------------------------------------
(* recordPayment: the plan is made ACTIVE again before the payment itself  *)
(* is looked at; the transaction id is checked in one statement and used   *)
(* in the next.                                                            *)

StartRecordPayment(c) ==
  /\ Free(c, "recordPayment") /\ ob /\ plan # "gone"
  /\ \E r \in use.refs \cup {NoRef} :
       call' = [call EXCEPT ![c] =
         [Idle EXCEPT !.pc = IF plan = "ACTIVE" THEN "check" ELSE "revive",
                      !.op = "recordPayment", !.ref = r]]
  /\ UNCHANGED <<planCols, inst, money, lead>>

RevivePlan(c) ==
  /\ At(c, "revive")
  /\ \/ plan = "gone" /\ Ended(c) /\ UNCHANGED plan
     \/ /\ plan # "gone"
        /\ plan' = "ACTIVE"
        /\ call' = [call EXCEPT ![c].pc = "check"]
  /\ UNCHANGED <<refund, deletion, ob, inst, money, lead>>

(* A bad amount, a missing screenshot or a used id ends the call here. *)
CheckPayment(c) ==
  /\ At(c, "check")
  /\ \/ Ended(c)
     \/ /\ ~ReferenceTaken(call[c].ref, NoSlot)
        /\ call' = [call EXCEPT ![c].pc = "create"]
  /\ UNCHANGED <<planCols, inst, money, lead>>

CreatePayment(c) ==
  /\ At(c, "create")
  /\ \/ plan = "gone" /\ UNCHANGED inst
     \/ /\ plan # "gone" /\ Rows < use.rows
        /\ \E i \in Slots :
             /\ inst[i].st = "none"
             /\ inst' = [inst EXCEPT ![i] =
                           NewRow(Collected, FALSE, call[c].ref)]
     \/ /\ Rows = use.rows                   \* bound: no row left
        /\ UNCHANGED inst
  /\ Ended(c)
  /\ UNCHANGED <<planCols, money, lead>>

-----------------------------------------------------------------------------
(* The collections ledger's own screen. *)

CreateCollection(c) ==
  /\ Free(c, "createCollection")
  /\ \E n \in 1 .. MaxNo, m \in Months :
       /\ NumberFree(n, m) /\ ~NumberInFlight(n, m)
       /\ ledger' = ledger \cup {[no |-> n, month |-> m, of |-> NoSlot]}
  /\ UNCHANGED <<planCols, inst, issued, lead, call>>

UpdateCollection(c) ==
  /\ Free(c, "updateCollection")
  /\ \E r \in ledger, n \in 1 .. MaxNo, m \in Months :
       /\ NumberFree(n, m) /\ ~NumberInFlight(n, m)
       /\ ledger' = (ledger \ {r}) \cup {[r EXCEPT !.no = n, !.month = m]}
  /\ UNCHANGED <<planCols, inst, issued, lead, call>>

RemoveCollection(c) ==
  /\ Free(c, "removeCollection")
  /\ \E r \in ledger : ledger' = ledger \ {r}
  /\ UNCHANGED <<planCols, inst, issued, lead, call>>

-----------------------------------------------------------------------------
Next ==
  /\ use' = use
  /\ \E c \in Calls :
       \/ ReadInstallment(c) \/ WriteInstallment(c) \/ AddInstallment(c)
       \/ TakeReceiptNo(c) \/ OpenApproval(c) \/ CommitApproval(c)
       \/ AbortApproval(c) \/ ReadStage(c) \/ MoveLead(c)
       \/ LoadPending(c) \/ FlipOverdue(c)
       \/ ReadPlan(c) \/ WritePlan(c) \/ CancelPlan(c) \/ UpdatePlan(c)
       \/ StartRecordPayment(c) \/ RevivePlan(c) \/ CheckPayment(c)
       \/ CreatePayment(c)
       \/ CreateCollection(c) \/ UpdateCollection(c) \/ RemoveCollection(c)

Spec == Init /\ [][Next]_vars

-----------------------------------------------------------------------------
(* One call at a time, the instalments live as FeeLedger promises: Admin   *)
(* alone makes money count, once per instalment, and for good.             *)
Life(st) == CASE st \in Open -> "open"
              [] st = "PENDING_APPROVAL" -> "submitted"
              [] st = "PAID" -> "paid"
              [] st = "WAIVED" -> "dropped"
              [] OTHER -> st

Ledger == INSTANCE FeeLedger WITH
            life <- [i \in Slots |-> Life(inst[i].st)],
            receipts <- issued
ImplementsLedger ==
  Ledger!Init /\ [][use.serial => Ledger!Next]_(Ledger!vars)

(* Receipt numbers stay unique, whatever number concurrent approvals have  *)
(* picked (nextReceiptNo, financeSales.controller.ts:27-46).               *)
ReceiptNumbersUnique ==
  \A r, s \in ledger : r.no = s.no /\ r.month = s.month => r = s

(* Money once approved leaves no hole: deleting a plan or undoing an       *)
(* onboarding leaves the ledger in place (approveDeletePlan's comment),    *)
(* and "Finance has already approved a payment, so this onboarding can no  *)
(* longer be undone" (salesOnboarding.controller.ts:245): one call at a    *)
(* time, only a deletion Admin was asked for takes a paid instalment away. *)
MoneyKept ==
  [][/\ use.ops \cap LedgerOps \subseteq {"createCollection"}
          => ledger \subseteq ledger'
     /\ use.serial => \A i \in Slots : inst[i].st = "PAID" /\ inst'[i].st = "gone"
                                         => deletion]_vars

(* syncStageFromFees "only ever moves forward" (salesFlow.ts:177), also    *)
(* when new instalments have lowered the share paid; one call at a time.   *)
LeadOnlyForward == [][use.serial => lead' >= lead]_vars

(* approveInstallment "marks the plan COMPLETED if nothing's left          *)
(* outstanding" (financeSales.controller.ts:642-645), one call at a time.  *)
LastApprovalCompletes ==
  [][ (/\ use.serial
       /\ \E i \in Slots : issued'[i] > issued[i]
       /\ \A i \in Slots : inst'[i].st \notin Unsettled)
      => plan' = "COMPLETED" ]_vars

(* "The same payment can't be submitted twice" (addPayment): no two live   *)
(* payments carry one transaction id, one call at a time and without       *)
(* collectInstallment, which looks at no transaction id.                   *)
Submitted(i) == /\ inst[i].st \in {"PENDING_APPROVAL", "PAID"}
                /\ inst[i].ref # NoRef
ReferenceUsedOnce ==
  use.serial /\ "collectInstallment" \notin use.ops =>
    \A i, j \in Slots :
      Submitted(i) /\ Submitted(j) /\ inst[i].ref = inst[j].ref => i = j

(* No receipt number and no transaction id stands for two payments.        *)
UsedOnce == ReceiptNumbersUnique /\ ReferenceUsedOnce

(* What an approval moves, it moves to where the money is: the plan to     *)
(* COMPLETED with its last instalment, the lead only forward.              *)
ApprovalsCount == LeadOnlyForward /\ LastApprovalCompletes
=============================================================================
