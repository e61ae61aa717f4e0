--------------------------- MODULE FeePlan_proofs ---------------------------
(***************************************************************************)
(* Proofs about module FeePlan for any instalments, calls and receipt      *)
(* numbers, however the calls overlap: the types, that no number and no    *)
(* transaction id stands for two payments, that money once approved stays, *)
(* and that one call at a time the plan is the ledger FeeLedger promises.  *)
(***************************************************************************)
EXTENDS FeePlan, TLAPS

(* What a call carries, by where it is. *)
CallOK(cl) ==
  /\ cl.pc = "idle" => cl = Idle
  /\ cl.pc = "read" => cl.op \in (InstOps \cup PlanOps) \ {"approveInstallment"}
  /\ cl.pc = "read" /\ cl.op \in InstOps => cl.i \in Slots
  /\ cl.pc \in {"number", "insert", "open"} => cl.i \in Slots
  /\ cl.pc \in {"insert", "open"} => cl.no \in 1 .. MaxNo /\ cl.month \in Months
  /\ cl.pc \notin {"idle", "sync", "move"} => cl.op \in use.ops

ShapeInv == \A c \in Calls : CallOK(call[c])

(* The receipt number an approval has inserted is nobody else's, neither   *)
(* in the ledger nor in another transaction.                               *)
NumberInv ==
  /\ ReceiptNumbersUnique
  /\ \A c \in Calls : At(c, "open") => ~InUse(call[c].no, call[c].month)
  /\ \A c, d \in Calls :
       /\ At(c, "open") /\ At(d, "open")
       /\ call[c].no = call[d].no /\ call[c].month = call[d].month
       => c = d

(* One call at a time: what it read still holds. *)
StillTrue(c) ==
  LET cl == call[c] IN
  /\ cl.pc = "read" /\ cl.op \in InstOps =>
       /\ Exists(cl.i) /\ CanStart(cl.op, inst[cl.i].st)
       /\ cl.op = "payInstallment" => ~ReferenceTaken(cl.ref, cl.i)
  /\ cl.pc = "read" /\ cl.op = "undo" => CanUndo
  /\ cl.pc = "read" /\ cl.op = "approveDeletePlan" => deletion
  /\ cl.pc \in {"number", "insert", "open"} => inst[cl.i].st = "PENDING_APPROVAL"
  /\ cl.pc = "open" /\ cl.left =>
       \E j \in Slots \ {cl.i} : inst[j].st \in Unsettled
  /\ cl.pc = "flip" => \A i \in cl.todo : inst[i].st = "PENDING"
  /\ cl.pc = "move" => lead < cl.rank
  /\ cl.pc = "create" => ~ReferenceTaken(cl.ref, NoSlot)

SerialInv ==
  use.serial =>
    /\ \A c, d \in Calls : call[c].pc # "idle" /\ call[d].pc # "idle" => c = d
    /\ \A c \in Calls : StillTrue(c)

(* A submitted payment with a transaction id bears no rejection, so the    *)
(* look at the live ones finds it.                                         *)
Checked == use.serial /\ "collectInstallment" \notin use.ops
ReferenceInv ==
  Checked =>
    /\ \A i \in Slots : Submitted(i) => ~inst[i].rejected
    /\ \A i, j \in Slots :
         Submitted(i) /\ Submitted(j) /\ inst[i].ref = inst[j].ref => i = j

IInv == TypeOK /\ ShapeInv /\ NumberInv /\ SerialInv /\ ReferenceInv

-----------------------------------------------------------------------------
(* Types and shapes. *)

Step(c) ==
  \/ ReadInstallment(c) \/ WriteInstallment(c) \/ AddInstallment(c)
  \/ TakeReceiptNo(c) \/ OpenApproval(c) \/ CommitApproval(c)
  \/ AbortApproval(c) \/ ReadStage(c) \/ MoveLead(c)
  \/ LoadPending(c) \/ FlipOverdue(c)
  \/ ReadPlan(c) \/ WritePlan(c) \/ CancelPlan(c) \/ UpdatePlan(c)
  \/ StartRecordPayment(c) \/ RevivePlan(c) \/ CheckPayment(c) \/ CreatePayment(c)
  \/ CreateCollection(c) \/ UpdateCollection(c) \/ RemoveCollection(c)

LEMMA NextIsStep == Next => use' = use /\ \E c \in Calls : Step(c)
BY DEF Next, Step

LEMMA IdleOK == Idle \in CallState /\ CallOK(Idle)
BY NumbersNat DEF Idle, CallState, CallOK

(* A call that goes on as v leaves the others where they are. *)
LEMMA CallStep ==
  ASSUME TypeOK, ShapeInv, use' = use, NEW c \in Calls, NEW v \in CallState,
         CallOK(v), call' = [call EXCEPT ![c] = v]
  PROVE  call' \in [Calls -> CallState] /\ ShapeInv'
<1>1. call' \in [Calls -> CallState] /\ \A d \in Calls : CallOK(call'[d])
  BY DEF TypeOK, ShapeInv
<1>2. \A d \in Calls : CallOK(call[d])'
  BY <1>1 DEF CallOK
<1>3. QED
  BY <1>1, <1>2 DEF ShapeInv

LEMMA EndedStep ==
  ASSUME TypeOK, NEW c \in Calls, Ended(c)
  PROVE  call'[c] = Idle /\ \A d \in Calls \ {c} : call'[d] = call[d]
BY DEF Ended, TypeOK

LEMMA EndedTyped ==
  ASSUME TypeOK, ShapeInv, use' = use, NEW c \in Calls, Ended(c) \/ UNCHANGED call
  PROVE  call' \in [Calls -> CallState] /\ ShapeInv'
<1>1. CASE Ended(c)
  BY <1>1, IdleOK, CallStep DEF Ended
<1>2. CASE UNCHANGED call
  BY <1>2 DEF TypeOK, ShapeInv, CallOK
<1>3. QED
  BY <1>1, <1>2

(* A call that begins. *)
LEMMA BeginTyped ==
  ASSUME TypeOK, ShapeInv, use' = use, NEW c \in Calls, NEW v \in CallState,
         v.op \in use.ops, call' = [call EXCEPT ![c] = v],
         \/ v.pc = "read" /\ v.op \in PlanOps
         \/ /\ v.pc \in {"read", "number"} /\ v.op \in InstOps /\ v.i \in Slots
            /\ v.pc = "read" => v.op # "approveInstallment"
         \/ v.pc \in {"flip", "revive", "check"}
  PROVE  call' \in [Calls -> CallState] /\ ShapeInv' /\ call'[c] = v
<1>1. \A o \in PlanOps : o \notin InstOps /\ o # "approveInstallment"
  BY DEF InstOps, PlanOps
<1>2. CallOK(v)
  BY <1>1 DEF CallOK
<1>3. QED
  BY <1>2, CallStep DEF TypeOK

LEMMA ReadInstallmentCall ==
  ASSUME TypeOK, ShapeInv, use' = use, NEW c \in Calls, ReadInstallment(c)
  PROVE  /\ call' \in [Calls -> CallState] /\ ShapeInv'
         /\ \E op \in InstOps, i \in Slots, r \in use.refs \cup {NoRef} :
              /\ Free(c, op) /\ Exists(i) /\ CanStart(op, inst[i].st)
              /\ op = "payInstallment" => ~ReferenceTaken(r, i)
              /\ call'[c].pc = IF op = "approveInstallment" THEN "number" ELSE "read"
              /\ call'[c].op = op /\ call'[c].i = i /\ call'[c].ref = r
<1>1. PICK op \in InstOps, i \in Slots, r \in use.refs \cup {NoRef} :
        /\ Free(c, op) /\ Exists(i) /\ CanStart(op, inst[i].st)
        /\ op = "payInstallment" => ~ReferenceTaken(r, i)
        /\ call' = [call EXCEPT ![c] =
             [Idle EXCEPT !.pc = IF op = "approveInstallment" THEN "number" ELSE "read",
                          !.op = op, !.i = i, !.ref = r]]
  BY DEF ReadInstallment
<1>2. PICK pc : pc = IF op = "approveInstallment" THEN "number" ELSE "read"
  OBVIOUS
<1> DEFINE v == [Idle EXCEPT !.pc = pc, !.op = op, !.i = i, !.ref = r]
<1>3. /\ op \in Op /\ op \in use.ops /\ r \in Refs \cup {NoRef} /\ pc \in {"number", "read"}
      /\ pc = "read" => op # "approveInstallment"
  BY <1>1, <1>2, UsesShape DEF TypeOK, Free, Op
<1>4. v \in CallState /\ v.pc = pc /\ v.op = op /\ v.i = i /\ v.ref = r
  BY <1>3, IdleOK DEF CallState
<1>5. call' = [call EXCEPT ![c] = v]
  BY <1>1, <1>2
<1>6. call' \in [Calls -> CallState] /\ ShapeInv' /\ call'[c] = v
  <2> HIDE DEF v
  <2>1. QED
    BY <1>3, <1>4, <1>5, BeginTyped
<1> HIDE DEF v
<1>7. QED
  BY <1>1, <1>2, <1>4, <1>6

LEMMA ReadPlanCall ==
  ASSUME TypeOK, ShapeInv, use' = use, NEW c \in Calls, ReadPlan(c)
  PROVE  /\ call' \in [Calls -> CallState] /\ ShapeInv'
         /\ call'[c].pc = "read" /\ call'[c].op \in PlanOps /\ Free(c, call'[c].op)
         /\ call'[c].op = "approveDeletePlan" => deletion
         /\ call'[c].op = "undo" => CanUndo
<1>1. PICK op \in PlanOps :
        /\ Free(c, op)
        /\ op = "approveDeletePlan" => deletion
        /\ op = "undo" => CanUndo
        /\ call' = [call EXCEPT ![c] = [Idle EXCEPT !.pc = "read", !.op = op]]
  BY DEF ReadPlan
<1> DEFINE v == [Idle EXCEPT !.pc = "read", !.op = op]
<1>2. op \in Op /\ op \in use.ops
  BY <1>1 DEF Free, Op
<1>3. v \in CallState /\ v.pc = "read" /\ v.op = op
  BY <1>2, IdleOK DEF CallState
<1>4. call' \in [Calls -> CallState] /\ ShapeInv' /\ call'[c] = v
  <2>1. call' = [call EXCEPT ![c] = v]
    BY <1>1
  <2> HIDE DEF v
  <2>2. QED
    BY <1>2, <1>3, <2>1, BeginTyped
<1> HIDE DEF v
<1>5. QED
  BY <1>1, <1>3, <1>4

LEMMA LoadPendingCall ==
  ASSUME TypeOK, ShapeInv, use' = use, NEW c \in Calls, LoadPending(c)
  PROVE  /\ call' \in [Calls -> CallState] /\ ShapeInv'
         /\ call'[c].pc = "flip" /\ \A i \in call'[c].todo : inst[i].st = "PENDING"
<1>1. PICK late \in SUBSET {i \in Slots : inst[i].st = "PENDING"} :
        call' = [call EXCEPT ![c] = [Idle EXCEPT !.pc = "flip", !.todo = late,
                                                 !.op = "sendDueReminders"]]
  BY DEF LoadPending
<1> DEFINE v == [Idle EXCEPT !.pc = "flip", !.todo = late, !.op = "sendDueReminders"]
<1>2. v \in CallState /\ v.pc = "flip" /\ v.op = "sendDueReminders" /\ v.todo = late
  BY IdleOK DEF CallState, Op
<1>3. "sendDueReminders" \in use.ops
  BY DEF LoadPending, Free
<1>4. call' \in [Calls -> CallState] /\ ShapeInv' /\ call'[c] = v
  <2>1. call' = [call EXCEPT ![c] = v]
    BY <1>1
  <2> HIDE DEF v
  <2>2. QED
    BY <1>2, <1>3, <2>1, BeginTyped
<1> HIDE DEF v
<1>5. QED
  BY <1>1, <1>2, <1>4

LEMMA StartRecordCall ==
  ASSUME TypeOK, ShapeInv, use' = use, NEW c \in Calls, StartRecordPayment(c)
  PROVE  /\ call' \in [Calls -> CallState] /\ ShapeInv'
         /\ call'[c].pc \in {"check", "revive"}
<1>1. PICK r \in use.refs \cup {NoRef}, pc \in {"check", "revive"} :
        call' = [call EXCEPT ![c] = [Idle EXCEPT !.pc = pc, !.op = "recordPayment",
                                                 !.ref = r]]
  BY DEF StartRecordPayment
<1> DEFINE v == [Idle EXCEPT !.pc = pc, !.op = "recordPayment", !.ref = r]
<1>2. r \in Refs \cup {NoRef} /\ "recordPayment" \in use.ops
  BY UsesShape DEF TypeOK, StartRecordPayment, Free
<1>3. v \in CallState /\ v.pc = pc /\ v.op = "recordPayment"
  BY <1>2, IdleOK DEF CallState, Op
<1>4. call' \in [Calls -> CallState] /\ ShapeInv' /\ call'[c] = v
  <2>1. call' = [call EXCEPT ![c] = v]
    BY <1>1
  <2> HIDE DEF v
  <2>2. QED
    BY <1>2, <1>3, <2>1, BeginTyped
<1> HIDE DEF v
<1>5. QED
  BY <1>1, <1>3, <1>4

LEMMA InstType ==
  /\ \A row \in Installment, st \in Unsettled \cup Absent \cup {"PAID", "WAIVED"} :
       [row EXCEPT !.st = st] \in Installment
  /\ \A r \in Refs \cup {NoRef} : /\ NewRow("PENDING", FALSE, NoRef) \in Installment
                                  /\ NewRow(Collected, FALSE, r) \in Installment
BY DEF Installment, NewRow, Collected, Unsettled, Absent

LEMMA WrittenType ==
  ASSUME NEW row \in Installment, NEW op \in InstOps, NEW r \in Refs \cup {NoRef}
  PROVE  Written(row, op, r) \in Installment
<1>1. CASE op = "collectInstallment"
  <2>1. Written(row, op, r) =
          [row EXCEPT !.st = Collected, !.ref = IF r = NoRef THEN row.ref ELSE r]
    BY <1>1 DEF Written
  <2>2. QED
    BY <2>1 DEF Installment, Collected, Unsettled
<1>2. CASE op = "payInstallment"
  <2>1. Written(row, op, r) =
          [row EXCEPT !.st = Collected, !.ref = r, !.rejected = FALSE]
    BY <1>2 DEF Written
  <2>2. QED
    BY <2>1 DEF Installment, Collected, Unsettled
<1>3. CASE op = "rejectPayment"
  <2>1. \/ Written(row, op, r) =
             [row EXCEPT !.st = "PENDING", !.ref = NoRef, !.rejected = TRUE]
        \/ Written(row, op, r) = [row EXCEPT !.st = "WAIVED", !.rejected = TRUE]
    BY <1>3 DEF Written
  <2>2. QED
    BY <2>1 DEF Installment, Unsettled
<1>4. CASE op \notin {"collectInstallment", "payInstallment", "rejectPayment"}
  <2>1. Written(row, op, r) = [row EXCEPT !.st = "gone"]
    BY <1>4 DEF Written
  <2>2. QED
    BY <2>1 DEF Installment, Absent
<1>5. QED
  BY <1>1, <1>2, <1>3, <1>4

LEMMA GoesOnCall ==
  ASSUME TypeOK, ShapeInv, use' = use, NEW c \in Calls,
         TakeReceiptNo(c) \/ OpenApproval(c) \/ RevivePlan(c) \/ CheckPayment(c)
  PROVE  call' \in [Calls -> CallState] /\ ShapeInv'
<1>0. call[c] \in CallState /\ CallOK(call[c])
  BY DEF TypeOK, ShapeInv
<1>1. CASE Ended(c)
  BY <1>1, EndedTyped
<1>2. CASE TakeReceiptNo(c)
  <2>1. PICK n \in 1 .. MaxNo, m \in Months :
          call' = [call EXCEPT ![c].pc = "insert", ![c].no = n, ![c].month = m]
    BY <1>2 DEF TakeReceiptNo
  <2>2. call' = [call EXCEPT ![c] = [call[c] EXCEPT !.pc = "insert", !.no = n,
                                                    !.month = m]]
    BY <2>1
  <2> DEFINE v == [call[c] EXCEPT !.pc = "insert", !.no = n, !.month = m]
  <2>3. v \in CallState /\ v.pc = "insert" /\ v.op = call[c].op /\ v.i = call[c].i
        /\ v.no = n /\ v.month = m
    <3>1. n \in 0 .. MaxNo /\ m \in Months \cup {"none"}
      BY NumbersNat
    <3>2. QED
      BY <1>0, <3>1 DEF CallState
  <2>4. CallOK(v)
    <3> HIDE DEF v
    <3>1. QED
      BY <1>0, <1>2, <2>3 DEF CallOK, TakeReceiptNo, At
  <2>5. QED
    BY <2>2, <2>3, <2>4, CallStep
<1>3. CASE OpenApproval(c) /\ ~Ended(c)
  <2>1. PICK left \in BOOLEAN : call' = [call EXCEPT ![c].pc = "open", ![c].left = left]
    BY <1>3 DEF OpenApproval
  <2>2. call' = [call EXCEPT ![c] = [call[c] EXCEPT !.pc = "open", !.left = left]]
    BY <2>1
  <2> DEFINE v == [call[c] EXCEPT !.pc = "open", !.left = left]
  <2>3. v \in CallState /\ v.pc = "open" /\ v.op = call[c].op /\ v.i = call[c].i
        /\ v.no = call[c].no /\ v.month = call[c].month
    BY <1>0 DEF CallState
  <2>4. CallOK(v)
    <3> HIDE DEF v
    <3>1. QED
      BY <1>0, <1>3, <2>3 DEF CallOK, OpenApproval, At
  <2>5. QED
    BY <2>2, <2>3, <2>4, CallStep
<1>4. CASE (RevivePlan(c) \/ CheckPayment(c)) /\ ~Ended(c)
  <2>1. PICK pc \in {"check", "create"} : call' = [call EXCEPT ![c].pc = pc]
    BY <1>4 DEF RevivePlan, CheckPayment
  <2>2. call' = [call EXCEPT ![c] = [call[c] EXCEPT !.pc = pc]]
    BY <2>1
  <2> DEFINE v == [call[c] EXCEPT !.pc = pc]
  <2>3. v \in CallState /\ v.pc = pc /\ v.op = call[c].op
    BY <1>0 DEF CallState
  <2>4. CallOK(v)
    <3> HIDE DEF v
    <3>1. QED
      BY <1>0, <1>4, <2>3 DEF CallOK, RevivePlan, CheckPayment, At
  <2>5. QED
    BY <2>2, <2>3, <2>4, CallStep
<1>5. QED
  BY <1>1, <1>2, <1>3, <1>4

LEMMA OtherCall ==
  ASSUME TypeOK, ShapeInv, use' = use, NEW c \in Calls,
         CommitApproval(c) \/ ReadStage(c) \/ FlipOverdue(c)
  PROVE  call' \in [Calls -> CallState] /\ ShapeInv'
<1>0. call[c] \in CallState /\ CallOK(call[c])
  BY DEF TypeOK, ShapeInv
<1>1. CASE Ended(c) \/ UNCHANGED call
  BY <1>1, EndedTyped
<1>2. CASE CommitApproval(c)
  <2> DEFINE v == [Idle EXCEPT !.pc = "sync"]
  <2>1. v \in CallState /\ v.pc = "sync" /\ v.op = "none"
    BY IdleOK DEF CallState, Idle
  <2>2. CallOK(v)
    <3> HIDE DEF v
    <3>1. QED
      BY <2>1 DEF CallOK
  <2>3. QED
    BY <1>2, <2>1, <2>2, CallStep DEF CommitApproval
<1>3. CASE ReadStage(c) /\ ~Ended(c)
  <2>0. PICK k \in 0 .. 3 : k = TargetStage
    BY DEF TargetStage
  <2>1. call' = [call EXCEPT ![c] = [Idle EXCEPT !.pc = "move", !.rank = k]]
    BY <1>3, <2>0 DEF ReadStage, Ended
  <2> DEFINE v == [Idle EXCEPT !.pc = "move", !.rank = k]
  <2>2. v \in CallState /\ v.pc = "move"
    BY IdleOK DEF CallState
  <2>3. CallOK(v)
    <3> HIDE DEF v
    <3>1. QED
      BY <2>2 DEF CallOK
  <2>4. QED
    BY <2>1, <2>2, <2>3, CallStep
<1>4. CASE FlipOverdue(c) /\ ~Ended(c)
  <2>0. PICK i : call' = [call EXCEPT ![c] =
                   IF call[c].todo = {i} THEN Idle
                   ELSE [call[c] EXCEPT !.todo = call[c].todo \ {i}]]
    BY <1>4 DEF FlipOverdue
  <2>1. call' = [call EXCEPT ![c] = [call[c] EXCEPT !.todo = call[c].todo \ {i}]]
    <3>1. CASE call[c].todo = {i}
      <4>1. call' = [call EXCEPT ![c] = Idle]
        BY <2>0, <3>1
      <4>2. QED
        BY <1>4, <4>1 DEF Ended
    <3>2. CASE call[c].todo # {i}
      BY <2>0, <3>2, Zenon
    <3>3. QED
      BY <3>1, <3>2
  <2> DEFINE v == [call[c] EXCEPT !.todo = call[c].todo \ {i}]
  <2>2. v \in CallState /\ v.pc = "flip" /\ v.op = call[c].op
    BY <1>0, <1>4 DEF CallState, FlipOverdue, At
  <2>3. CallOK(v)
    <3> HIDE DEF v
    <3>1. QED
      BY <1>0, <1>4, <2>2 DEF CallOK, FlipOverdue, At
  <2>4. QED
    BY <2>1, <2>2, <2>3, CallStep
<1>5. QED
  BY <1>1, <1>2, <1>3, <1>4

(* The endpoints that run in one step, and the ends of calls.              *)
LEMMA EndingCall ==
  ASSUME TypeOK, ShapeInv, use' = use, NEW c \in Calls,
         \/ WriteInstallment(c) \/ AddInstallment(c) \/ AbortApproval(c) \/ MoveLead(c)
         \/ WritePlan(c) \/ CancelPlan(c) \/ UpdatePlan(c) \/ CreatePayment(c)
         \/ CreateCollection(c) \/ UpdateCollection(c) \/ RemoveCollection(c)
  PROVE  call' \in [Calls -> CallState] /\ ShapeInv'
<1>1. Ended(c) \/ UNCHANGED call
  BY DEF WriteInstallment, AddInstallment, AbortApproval, MoveLead, WritePlan, CancelPlan,
         UpdatePlan, CreatePayment, CreateCollection, UpdateCollection, RemoveCollection
<1>2. QED
  BY <1>1, EndedTyped

LEMMA CallTyped ==
  ASSUME TypeOK, ShapeInv, use' = use, NEW c \in Calls, Step(c)
  PROVE  call' \in [Calls -> CallState] /\ ShapeInv'
BY ReadInstallmentCall, ReadPlanCall, LoadPendingCall, StartRecordCall, GoesOnCall,
   OtherCall, EndingCall DEF Step

(* What a write of the plan may be. *)
LEMMA WritePlanCases ==
  ASSUME NEW c \in Calls, WritePlan(c)
  PROVE  \/ UNCHANGED <<planCols, inst, ledger>>
         \/ call[c].op = "completeRefund" /\ RefundPlan
         \/ call[c].op \in {"approveDeletePlan", "undo"} /\ ErasePlan(c)
         \/ SetFlags(c)
<1>1. CASE call[c].op = "completeRefund"
  BY <1>1 DEF WritePlan
<1>2. CASE call[c].op \in {"approveDeletePlan", "undo"}
  BY <1>2 DEF WritePlan
<1>3. CASE call[c].op \notin {"completeRefund", "approveDeletePlan", "undo"}
  BY <1>3 DEF WritePlan
<1>4. QED
  BY <1>1, <1>2, <1>3

LEMMA SetFlagsTyped ==
  ASSUME TypeOK, NEW c \in Calls, SetFlags(c)
  PROVE  /\ refund' \in BOOLEAN /\ deletion' \in BOOLEAN
         /\ UNCHANGED <<plan, ob, inst, ledger>>
<1>1. CASE call[c].op \in {"requestRefund", "rejectRefund"}
  <2>1. CASE call[c].op = "requestRefund"
    BY <2>1 DEF SetFlags, TypeOK
  <2>2. CASE call[c].op = "rejectRefund"
    BY <2>2 DEF SetFlags, TypeOK
  <2>3. QED
    BY <1>1, <2>1, <2>2
<1>2. CASE call[c].op \notin {"requestRefund", "rejectRefund"}
  <2>1. CASE call[c].op = "requestDeletePlan"
    BY <2>1 DEF SetFlags, TypeOK
  <2>2. CASE call[c].op # "requestDeletePlan"
    BY <1>2, <2>2 DEF SetFlags, TypeOK
  <2>3. QED
    BY <2>1, <2>2
<1>3. QED
  BY <1>1, <1>2

LEMMA InstTyped ==
  ASSUME TypeOK, ShapeInv, NEW c \in Calls, Step(c)
  PROVE  inst' \in [Slots -> Installment]
<1>0. /\ inst \in [Slots -> Installment] /\ call[c] \in CallState /\ CallOK(call[c])
      /\ use.refs \subseteq Refs
  BY UsesShape DEF TypeOK, ShapeInv
<1>1. CASE WriteInstallment(c)
  <2>1. call[c].op \in InstOps /\ call[c].ref \in Refs \cup {NoRef}
    BY <1>0, <1>1 DEF WriteInstallment, CallState
  <2>2. QED
    BY <1>0, <1>1, <2>1, WrittenType DEF WriteInstallment
<1>2. CASE AddInstallment(c) \/ CreatePayment(c)
  BY <1>0, <1>2, InstType DEF AddInstallment, CreatePayment, CallState
<1>3. ASSUME NEW i \in Slots, NEW st \in {"PAID", "OVERDUE"},
             inst' = [inst EXCEPT ![i].st = st]
      PROVE  inst' \in [Slots -> Installment]
  BY <1>0, <1>3, InstType DEF Unsettled, Absent
<1>4. CASE CommitApproval(c)
  BY <1>0, <1>3, <1>4 DEF CommitApproval, CallOK, At
<1>5. CASE FlipOverdue(c)
  <2>1. call[c].todo \subseteq Slots
    BY <1>0 DEF CallState
  <2>2. CASE inst' = inst
    BY <1>0, <2>2
  <2>3. CASE \E i \in call[c].todo : inst' = [inst EXCEPT ![i].st = "OVERDUE"]
    BY <1>3, <2>1, <2>3
  <2>4. QED
    BY <1>5, <2>2, <2>3 DEF FlipOverdue
<1>6. CASE WaiveOpen \/ DropRows
  <2>1. \A row \in Installment : /\ [row EXCEPT !.st = "WAIVED"] \in Installment
                                 /\ [row EXCEPT !.st = "gone"] \in Installment
    BY InstType DEF Absent
  <2>2. CASE WaiveOpen
    BY <1>0, <2>1, <2>2 DEF WaiveOpen
  <2>3. CASE DropRows
    BY <1>0, <2>1, <2>3 DEF DropRows
  <2>4. QED
    BY <1>6, <2>2, <2>3
<1>7. CASE UNCHANGED inst
  BY <1>0, <1>7
<1>8. CASE WritePlan(c)
  BY <1>6, <1>7, <1>8, WritePlanCases, SetFlagsTyped DEF RefundPlan, ErasePlan
<1>9. QED
  BY <1>1, <1>2, <1>4, <1>5, <1>6, <1>7, <1>8
  DEF Step, ReadInstallment, TakeReceiptNo, OpenApproval, AbortApproval, ReadStage,
      MoveLead, LoadPending, ReadPlan, RefundPlan, ErasePlan, SetFlags, CancelPlan, UpdatePlan, StartRecordPayment, RevivePlan, CheckPayment,
      CreateCollection, UpdateCollection, RemoveCollection

LEMMA LedgerTyped ==
  ASSUME TypeOK, ShapeInv, NEW c \in Calls, Step(c)
  PROVE  ledger' \subseteq LedgerRow /\ issued' \in [Slots -> Nat]
<1>0. /\ ledger \subseteq LedgerRow /\ issued \in [Slots -> Nat] /\ CallOK(call[c])
  BY DEF TypeOK, ShapeInv
<1>1. CASE CommitApproval(c)
  <2>1. call[c].i \in Slots /\ call[c].no \in 1 .. MaxNo /\ call[c].month \in Months
    BY <1>0, <1>1 DEF CommitApproval, At, CallOK
  <2>2. QED
    BY <1>0, <1>1, <2>1 DEF CommitApproval, LedgerRow
<1>2. CASE CreateCollection(c) \/ RemoveCollection(c)
  BY <1>0, <1>2 DEF CreateCollection, RemoveCollection, LedgerRow
<1>3. CASE UpdateCollection(c)
  <2>1. PICK r \in ledger, n \in 1 .. MaxNo, m \in Months :
          ledger' = (ledger \ {r}) \cup {[r EXCEPT !.no = n, !.month = m]}
    BY <1>3 DEF UpdateCollection
  <2>2. [r EXCEPT !.no = n, !.month = m] \in LedgerRow
    BY <1>0, <2>1 DEF LedgerRow
  <2>3. QED
    BY <1>0, <1>3, <2>1, <2>2 DEF UpdateCollection
<1>4. CASE UNCHANGED <<ledger, issued>>
  BY <1>0, <1>4
<1>5. CASE WritePlan(c)
  <2>1. issued' = issued
    BY <1>5 DEF WritePlan
  <2>2. ledger' = ledger
    BY <1>5, WritePlanCases, SetFlagsTyped DEF RefundPlan, ErasePlan, LedgerLeft
  <2>3. QED
    BY <1>4, <2>1, <2>2
<1>6. QED
  BY <1>1, <1>2, <1>3, <1>4, <1>5
  DEF Step, ReadInstallment, WriteInstallment, AddInstallment, TakeReceiptNo, OpenApproval,
      AbortApproval, ReadStage, MoveLead, LoadPending, FlipOverdue, ReadPlan, CancelPlan,
      UpdatePlan,
      StartRecordPayment, RevivePlan, CheckPayment, CreatePayment, money

LEMMA PlanTyped ==
  ASSUME TypeOK, ShapeInv, NEW c \in Calls, Step(c)
  PROVE  /\ plan' \in PlanStatus \cup {"gone"} /\ lead' \in 0 .. 3
         /\ refund' \in BOOLEAN /\ deletion' \in BOOLEAN /\ ob' \in BOOLEAN
<1>0. /\ plan \in PlanStatus \cup {"gone"} /\ lead \in 0 .. 3 /\ call[c].rank \in 0 .. 3
      /\ refund \in BOOLEAN /\ deletion \in BOOLEAN /\ ob \in BOOLEAN
  BY DEF TypeOK, CallState
<1>1. CASE WritePlan(c)
  <2>1. lead' = lead
    BY <1>1 DEF WritePlan
  <2>2. CASE RefundPlan \/ ErasePlan(c)
    BY <1>0, <2>1, <2>2 DEF RefundPlan, ErasePlan, PlanStatus
  <2>3. QED
    BY <1>0, <1>1, <2>1, <2>2, WritePlanCases, SetFlagsTyped DEF planCols
<1>2. CASE CommitApproval(c) \/ CancelPlan(c) \/ UpdatePlan(c) \/ RevivePlan(c)
  BY <1>0, <1>2 DEF CommitApproval, PlanAfterApproval, CancelPlan, UpdatePlan,
                    RevivePlan, PlanStatus
<1>3. CASE MoveLead(c)
  BY <1>0, <1>3 DEF MoveLead, planCols
<1>4. CASE UNCHANGED <<planCols, lead>>
  BY <1>0, <1>4 DEF planCols
<1>5. QED
  BY <1>1, <1>2, <1>3, <1>4
  DEF Step, ReadInstallment, WriteInstallment, AddInstallment, TakeReceiptNo,
      OpenApproval, AbortApproval, ReadStage, LoadPending, FlipOverdue, ReadPlan,
      StartRecordPayment, CheckPayment, CreatePayment, CreateCollection,
      UpdateCollection, RemoveCollection

LEMMA TypedStep ==
  ASSUME TypeOK, ShapeInv, use' = use, NEW c \in Calls, Step(c)
  PROVE  TypeOK' /\ ShapeInv'
<1>1. /\ call' \in [Calls -> CallState] /\ ShapeInv'
      /\ inst' \in [Slots -> Installment]
      /\ ledger' \subseteq LedgerRow /\ issued' \in [Slots -> Nat]
      /\ plan' \in PlanStatus \cup {"gone"} /\ lead' \in 0 .. 3
      /\ refund' \in BOOLEAN /\ deletion' \in BOOLEAN /\ ob' \in BOOLEAN
  BY CallTyped, InstTyped, LedgerTyped, PlanTyped
<1>2. QED
  BY <1>1 DEF TypeOK

-----------------------------------------------------------------------------
(* Where calls go. *)

LEMMA OthersStay ==
  ASSUME TypeOK, NEW c \in Calls, Step(c)
  PROVE  \A d \in Calls \ {c} : call'[d] = call[d]
<1>1. CASE Ended(c) \/ UNCHANGED call
  BY <1>1, EndedStep
<1>2. CASE \E v : call' = [call EXCEPT ![c] = v]
  BY <1>2 DEF TypeOK
<1>3. CASE TakeReceiptNo(c) \/ OpenApproval(c) \/ RevivePlan(c) \/ CheckPayment(c)
  BY <1>1, <1>3 DEF TakeReceiptNo, OpenApproval, RevivePlan, CheckPayment, TypeOK
<1>4. CASE FlipOverdue(c)
  BY <1>1, <1>2, <1>4 DEF FlipOverdue
<1>5. QED
  BY <1>1, <1>2, <1>3, <1>4
  DEF Step, ReadInstallment, WriteInstallment, AddInstallment, CommitApproval,
      AbortApproval, ReadStage, MoveLead, LoadPending, ReadPlan, WritePlan, CancelPlan,
      UpdatePlan, StartRecordPayment, CreatePayment, CreateCollection, UpdateCollection,
      RemoveCollection

(* What a call that goes on takes along. *)
LEMMA TakeStep ==
  ASSUME TypeOK, NEW c \in Calls, TakeReceiptNo(c)
  PROVE  call'[c].pc = "insert" /\ call'[c].i = call[c].i /\ call[c].pc = "number"
<1>1. PICK n, m : call' = [call EXCEPT ![c].pc = "insert", ![c].no = n, ![c].month = m]
  BY DEF TakeReceiptNo
<1>2. QED
  BY <1>1 DEF TakeReceiptNo, At, TypeOK, CallState

LEMMA OpenStep ==
  ASSUME TypeOK, NEW c \in Calls, OpenApproval(c), ~Ended(c)
  PROVE  /\ call'[c].pc = "open" /\ call'[c].i = call[c].i /\ call'[c].no = call[c].no
         /\ call'[c].month = call[c].month /\ call[c].pc = "insert"
         /\ call'[c].left <=> \E j \in Slots \ {call[c].i} : inst[j].st \in Unsettled
         /\ ~InUse(call[c].no, call[c].month)
         /\ ~NumberInFlight(call[c].no, call[c].month)
<1>1. call' = [call EXCEPT ![c].pc = "open", ![c].left =
                 \E j \in Slots \ {call[c].i} : inst[j].st \in Unsettled]
  BY DEF OpenApproval
<1>2. PICK left : /\ left <=> \E j \in Slots \ {call[c].i} : inst[j].st \in Unsettled
                  /\ call' = [call EXCEPT ![c].pc = "open", ![c].left = left]
  BY <1>1
<1>3. QED
  BY <1>2 DEF OpenApproval, NumberFree, At, TypeOK, CallState

LEMMA RecordStep ==
  ASSUME TypeOK, NEW c \in Calls, RevivePlan(c) \/ CheckPayment(c), ~Ended(c)
  PROVE  /\ call'[c].pc \in {"check", "create"} /\ call'[c].ref = call[c].ref
         /\ call'[c].pc = "create" => CheckPayment(c) /\ ~ReferenceTaken(call[c].ref, NoSlot)
<1>1. CASE RevivePlan(c)
  <2>1. call' = [call EXCEPT ![c].pc = "check"]
    BY <1>1 DEF RevivePlan
  <2>2. QED
    BY <2>1 DEF TypeOK, CallState
<1>2. CASE CheckPayment(c)
  <2>1. call' = [call EXCEPT ![c].pc = "create"] /\ ~ReferenceTaken(call[c].ref, NoSlot)
    BY <1>2 DEF CheckPayment
  <2>2. QED
    BY <1>2, <2>1 DEF TypeOK, CallState
<1>3. QED
  BY <1>1, <1>2

LEMMA StageStep ==
  ASSUME TypeOK, NEW c \in Calls, ReadStage(c), ~Ended(c)
  PROVE  call'[c].pc = "move" /\ lead < call'[c].rank
<1>1. PICK k : k = TargetStage
  OBVIOUS
<1>2. /\ call' = [call EXCEPT ![c] = [Idle EXCEPT !.pc = "move", !.rank = k]]
      /\ lead < k
  BY <1>1 DEF ReadStage, Ended, AheadOfLead
<1>3. QED
  BY <1>2 DEF TypeOK, Idle

LEMMA FlipStep ==
  ASSUME TypeOK, NEW c \in Calls, FlipOverdue(c)
  PROVE  /\ call[c].pc = "flip"
         /\ \/ Ended(c) /\ inst' = inst
            \/ \E i \in call[c].todo :
                 /\ inst' = [inst EXCEPT ![i].st = "OVERDUE"]
                 /\ \/ Ended(c)
                    \/ call'[c].pc = "flip" /\ call'[c].todo = call[c].todo \ {i}
<1>1. CASE Ended(c)
  BY <1>1 DEF FlipOverdue, At
<1>2. CASE ~Ended(c)
  <2>1. PICK i \in call[c].todo :
          /\ inst' = [inst EXCEPT ![i].st = "OVERDUE"]
          /\ call' = [call EXCEPT ![c] =
               IF call[c].todo = {i} THEN Idle
               ELSE [call[c] EXCEPT !.todo = call[c].todo \ {i}]]
    BY <1>2 DEF FlipOverdue
  <2>2. CASE call[c].todo = {i}
    <3>1. call' = [call EXCEPT ![c] = Idle]
      BY <2>1, <2>2
    <3>2. QED
      BY <1>2, <3>1 DEF Ended
  <2>3. CASE call[c].todo # {i}
    <3>1. call' = [call EXCEPT ![c] = [call[c] EXCEPT !.todo = call[c].todo \ {i}]]
      BY <2>1, <2>3
    <3>2. call'[c].pc = "flip" /\ call'[c].todo = call[c].todo \ {i} /\ call[c].pc = "flip"
      BY <3>1 DEF FlipOverdue, At, TypeOK, CallState
    <3>3. QED
      BY <2>1, <3>2
  <2>4. QED
    BY <2>2, <2>3
<1>3. QED
  BY <1>1, <1>2

(* Only an approval opens its transaction. *)
LEMMA OpenCalls ==
  ASSUME TypeOK, ShapeInv, use' = use, NEW c \in Calls, Step(c), NEW d \in Calls,
         call'[d].pc = "open"
  PROVE  call'[d] = call[d] \/ (d = c /\ OpenApproval(c) /\ ~Ended(c))
<1> SUFFICES ASSUME d = c, ~UNCHANGED call, ~OpenApproval(c) PROVE FALSE
  BY OthersStay, EndedStep DEF Idle
<1>1. ~Ended(c)
  BY EndedStep DEF Idle
<1>2. CASE CommitApproval(c)
  BY <1>2 DEF CommitApproval, TypeOK, Idle
<1>3. QED
  BY <1>1, <1>2, ReadInstallmentCall, ReadPlanCall, LoadPendingCall, StartRecordCall,
     TakeStep, RecordStep, StageStep, FlipStep
  DEF Step, WriteInstallment, AddInstallment, AbortApproval, MoveLead, WritePlan, CancelPlan,
      UpdatePlan, CreatePayment, CreateCollection, UpdateCollection, RemoveCollection

-----------------------------------------------------------------------------
(* Receipt numbers. *)

LEMMA NumberStep ==
  ASSUME TypeOK, ShapeInv, NumberInv, use' = use, NEW c \in Calls, Step(c)
  PROVE  NumberInv'
<1>0. /\ \A r, s \in ledger : r.no = s.no /\ r.month = s.month => r = s
      /\ \A d \in Calls : call[d] \in CallState
      /\ ledger \subseteq LedgerRow
  BY DEF NumberInv, ReceiptNumbersUnique, TypeOK
(* A row that comes in with a number nobody has. *)
<1>1. ASSUME NEW n, NEW m, NEW q, q.no = n, q.month = m, ~InUse(n, m),
             ledger' \subseteq ledger \cup {q},
             \A d \in Calls : call'[d].pc = "open" =>
               /\ call'[d] = call[d]
               /\ call[d].no # n \/ call[d].month # m
      PROVE  NumberInv'
  <2>1. ReceiptNumbersUnique'
    BY <1>0, <1>1 DEF ReceiptNumbersUnique, InUse
  <2>2. \A d \in Calls : At(d, "open")' => ~InUse(call[d].no, call[d].month)'
    BY <1>1 DEF NumberInv, At, InUse
  <2>3. \A d, e \in Calls :
          /\ At(d, "open")' /\ At(e, "open")'
          /\ call'[d].no = call'[e].no /\ call'[d].month = call'[e].month
          => d = e
    BY <1>1 DEF NumberInv, At
  <2>4. QED
    BY <2>1, <2>2, <2>3 DEF NumberInv
<1>2. CASE CommitApproval(c)
  <2> DEFINE q == [no |-> call[c].no, month |-> call[c].month, of |-> call[c].i]
  <2>1. call[c].pc = "open" /\ ledger' = ledger \cup {q} /\ call'[c].pc = "sync"
    BY <1>2 DEF CommitApproval, At, TypeOK, Idle
  <2>2. \A d \in Calls : call'[d].pc = "open" =>
          /\ d # c /\ call'[d] = call[d]
          /\ call[d].no # call[c].no \/ call[d].month # call[c].month
    BY <2>1, OthersStay DEF NumberInv, At
  <2>3. ~InUse(call[c].no, call[c].month)
    BY <2>1 DEF NumberInv, At
  <2>4. q.no = call[c].no /\ q.month = call[c].month
    OBVIOUS
  <2> HIDE DEF q
  <2>5. QED
    BY <1>1, <2>1, <2>2, <2>3, <2>4
<1>3. CASE CreateCollection(c)
  <2>1. PICK n \in 1 .. MaxNo, m \in Months :
          /\ ~InUse(n, m) /\ ~NumberInFlight(n, m) /\ call' = call
          /\ ledger' = ledger \cup {[no |-> n, month |-> m, of |-> NoSlot]}
    BY <1>3 DEF CreateCollection, NumberFree
  <2> DEFINE q == [no |-> n, month |-> m, of |-> NoSlot]
  <2>2. q.no = n /\ q.month = m /\ ledger' \subseteq ledger \cup {q}
    BY <2>1
  <2>3. \A d \in Calls : call'[d].pc = "open" =>
          call'[d] = call[d] /\ (call[d].no # n \/ call[d].month # m)
    BY <2>1 DEF NumberInFlight, At
  <2> HIDE DEF q
  <2>4. QED
    BY <1>1, <2>1, <2>2, <2>3
<1>4. CASE UpdateCollection(c)
  <2>1. PICK r \in ledger, n \in 1 .. MaxNo, m \in Months :
          /\ ~InUse(n, m) /\ ~NumberInFlight(n, m) /\ call' = call
          /\ ledger' = (ledger \ {r}) \cup {[r EXCEPT !.no = n, !.month = m]}
    BY <1>4 DEF UpdateCollection, NumberFree
  <2> DEFINE q == [r EXCEPT !.no = n, !.month = m]
  <2>2. q.no = n /\ q.month = m /\ ledger' \subseteq ledger \cup {q}
    BY <1>0, <2>1 DEF LedgerRow
  <2>3. \A d \in Calls : call'[d].pc = "open" =>
          call'[d] = call[d] /\ (call[d].no # n \/ call[d].month # m)
    BY <2>1 DEF NumberInFlight, At
  <2> HIDE DEF q
  <2>4. QED
    BY <1>1, <2>1, <2>2, <2>3
<1>5. CASE RemoveCollection(c)
  <2>1. ledger' \subseteq ledger /\ call' = call
    BY <1>5 DEF RemoveCollection
  <2>2. QED
    BY <2>1 DEF NumberInv, ReceiptNumbersUnique, InUse, At
<1>6. CASE OpenApproval(c) /\ ~Ended(c)
  <2>1. /\ call'[c].no = call[c].no /\ call'[c].month = call[c].month
        /\ ~InUse(call[c].no, call[c].month)
        /\ \A d \in Calls : call[d].pc = "open" =>
             call[d].no # call[c].no \/ call[d].month # call[c].month
        /\ \A d \in Calls \ {c} : call'[d] = call[d]
        /\ ledger' = ledger
    BY <1>6, OpenStep, OthersStay DEF NumberInFlight, At, OpenApproval, money
  <2>2. QED
    BY <2>1 DEF NumberInv, ReceiptNumbersUnique, InUse, At
<1>7. CASE ledger' = ledger /\ (OpenApproval(c) => Ended(c))
  <2>1. \A d \in Calls : call'[d].pc = "open" => call'[d] = call[d]
    BY <1>7, OpenCalls
  <2>2. QED
    BY <1>7, <2>1 DEF NumberInv, ReceiptNumbersUnique, InUse, At
<1>8. WritePlan(c) => ledger' = ledger
  BY WritePlanCases, SetFlagsTyped DEF RefundPlan, ErasePlan, LedgerLeft
<1>9. QED
  BY <1>2, <1>3, <1>4, <1>5, <1>6, <1>7, <1>8
  DEF Step, ReadInstallment, WriteInstallment, AddInstallment, TakeReceiptNo, OpenApproval,
      AbortApproval, ReadStage, MoveLead, LoadPending, FlipOverdue, ReadPlan, CancelPlan,
      UpdatePlan, StartRecordPayment, RevivePlan, CheckPayment, CreatePayment, money

-----------------------------------------------------------------------------
(* One call at a time. *)

(* Whoever moves is the only one. *)
LEMMA Alone ==
  ASSUME TypeOK, ShapeInv, SerialInv, use.serial, NEW c \in Calls, Step(c)
  PROVE  \A d \in Calls \ {c} : call'[d].pc = "idle"
<1>1. Quiet \/ call[c].pc # "idle"
  BY DEF Step, ReadInstallment, WriteInstallment, AddInstallment, TakeReceiptNo,
      OpenApproval, CommitApproval, AbortApproval, ReadStage, MoveLead, LoadPending,
      FlipOverdue, ReadPlan, WritePlan, CancelPlan, UpdatePlan, StartRecordPayment,
      RevivePlan, CheckPayment, CreatePayment, CreateCollection, UpdateCollection,
      RemoveCollection, At, Free
<1>2. \A d \in Calls \ {c} : call[d].pc = "idle"
  BY <1>1 DEF Quiet, SerialInv
<1>3. QED
  BY <1>2, OthersStay

LEMMA SerialStep ==
  ASSUME TypeOK, ShapeInv, SerialInv, use' = use, NEW c \in Calls, Step(c)
  PROVE  SerialInv'
<1> SUFFICES ASSUME use.serial PROVE SerialInv'
  BY DEF SerialInv
<1>0. StillTrue(c) /\ call[c] \in CallState /\ inst \in [Slots -> Installment]
  BY DEF SerialInv, TypeOK
<1>1. StillTrue(c)'
  <2>1. CASE Ended(c)
    BY <2>1, EndedStep DEF StillTrue, Idle
  <2>2. CASE \/ AddInstallment(c) \/ CancelPlan(c) \/ UpdatePlan(c)
             \/ CreateCollection(c) \/ UpdateCollection(c) \/ RemoveCollection(c)
    <3>1. call' = call /\ Quiet
      BY <2>2 DEF AddInstallment, CancelPlan, UpdatePlan, CreateCollection,
          UpdateCollection, RemoveCollection, Free
    <3>2. call'[c].pc = "idle"
      BY <3>1 DEF Quiet
    <3>3. QED
      BY <3>2 DEF StillTrue
  <2>3. CASE ReadInstallment(c)
    <3>1. PICK op \in InstOps, i \in Slots, r \in use.refs \cup {NoRef} :
            /\ Exists(i) /\ CanStart(op, inst[i].st)
            /\ op = "payInstallment" => ~ReferenceTaken(r, i)
            /\ call'[c].pc = IF op = "approveInstallment" THEN "number" ELSE "read"
            /\ call'[c].op = op /\ call'[c].i = i /\ call'[c].ref = r
      BY <2>3, ReadInstallmentCall
    <3>2. inst' = inst /\ op \notin PlanOps
      BY <2>3 DEF ReadInstallment, InstOps, PlanOps
    <3>3. op = "approveInstallment" => inst[i].st = "PENDING_APPROVAL"
      BY <3>1 DEF CanStart
    <3>4. QED
      BY <3>1, <3>2, <3>3 DEF StillTrue, Exists, ReferenceTaken, PlanOps
  <2>4. CASE ReadPlan(c)
    <3>1. /\ call'[c].pc = "read" /\ call'[c].op \in PlanOps
          /\ call'[c].op = "approveDeletePlan" => deletion
          /\ call'[c].op = "undo" => CanUndo
          /\ UNCHANGED <<planCols, inst>>
      BY <2>4, ReadPlanCall DEF ReadPlan
    <3>2. call'[c].op \notin InstOps
      BY <3>1 DEF InstOps, PlanOps
    <3>3. QED
      BY <3>1, <3>2 DEF StillTrue, CanUndo, planCols
  <2>5. CASE TakeReceiptNo(c)
    BY <1>0, <2>5, TakeStep DEF StillTrue, TakeReceiptNo
  <2>6. CASE OpenApproval(c) /\ ~Ended(c)
    <3>1. inst' = inst
      BY <2>6 DEF OpenApproval
    <3>2. QED
      BY <1>0, <2>6, <3>1, OpenStep DEF StillTrue
  <2>7. CASE CommitApproval(c)
    <3>1. call'[c].pc = "sync"
      BY <2>7 DEF CommitApproval, TypeOK, Idle
    <3>2. QED
      BY <3>1 DEF StillTrue
  <2>8. CASE ReadStage(c) /\ ~Ended(c)
    <3>1. call'[c].pc = "move" /\ lead' = lead /\ lead < call'[c].rank
      BY <2>8, StageStep DEF ReadStage
    <3>2. QED
      BY <3>1 DEF StillTrue
  <2>9. CASE LoadPending(c)
    <3>1. inst' = inst /\ call'[c].pc = "flip" /\ \A i \in call'[c].todo : inst[i].st = "PENDING"
      BY <2>9, LoadPendingCall DEF LoadPending
    <3>2. QED
      BY <3>1 DEF StillTrue
  <2>10. CASE FlipOverdue(c) /\ ~Ended(c)
    <3>1. PICK i \in call[c].todo :
            /\ inst' = [inst EXCEPT ![i].st = "OVERDUE"] /\ call[c].pc = "flip"
            /\ call'[c].pc = "flip" /\ call'[c].todo = call[c].todo \ {i}
      BY <2>10, FlipStep
    <3>2. \A j \in call[c].todo : j \in Slots /\ inst[j].st = "PENDING"
      BY <1>0, <3>1 DEF StillTrue, CallState
    <3>3. \A j \in call'[c].todo : inst'[j].st = "PENDING"
      BY <1>0, <3>1, <3>2
    <3>4. QED
      BY <3>1, <3>3 DEF StillTrue
  <2>11. CASE StartRecordPayment(c)
    <3>1. call'[c].pc \in {"check", "revive"}
      BY <2>11, StartRecordCall
    <3>2. QED
      BY <3>1 DEF StillTrue
  <2>12. CASE (RevivePlan(c) \/ CheckPayment(c)) /\ ~Ended(c)
    <3>1. /\ call'[c].pc \in {"check", "create"} /\ inst' = inst
          /\ call'[c].pc = "create" => ~ReferenceTaken(call'[c].ref, NoSlot)
      BY <2>12, RecordStep DEF RevivePlan, CheckPayment
    <3>2. QED
      BY <3>1 DEF StillTrue, ReferenceTaken, Exists
  <2>13. QED
    BY <2>1, <2>2, <2>3, <2>4, <2>5, <2>6, <2>7, <2>8, <2>9, <2>10, <2>11, <2>12
    DEF Step, WriteInstallment, AddInstallment, AbortApproval, MoveLead, WritePlan,
        CancelPlan, UpdatePlan, CreatePayment, CreateCollection, UpdateCollection,
        RemoveCollection
<1>2. \A d \in Calls \ {c} : call'[d].pc = "idle"
  BY Alone
<1>3. \A d \in Calls \ {c} : StillTrue(d)'
  BY <1>2 DEF StillTrue
<1>4. QED
  BY <1>1, <1>2, <1>3 DEF SerialInv

-----------------------------------------------------------------------------
(* What a step does to the instalments. *)

LEMMA InstCases ==
  ASSUME TypeOK, ShapeInv, NEW c \in Calls, Step(c)
  PROVE  \/ inst' = inst
         \/ WriteInstallment(c) \/ AddInstallment(c) \/ CommitApproval(c)
         \/ FlipOverdue(c) \/ CreatePayment(c)
         \/ WaiveOpen
         \/ WritePlan(c) /\ call[c].op \in {"approveDeletePlan", "undo"} /\ DropRows
<1>1. WritePlan(c) => \/ inst' = inst \/ WaiveOpen
                      \/ call[c].op \in {"approveDeletePlan", "undo"} /\ DropRows
  BY WritePlanCases, SetFlagsTyped DEF RefundPlan, ErasePlan
<1>2. QED
  BY <1>1 DEF Step, ReadInstallment, TakeReceiptNo, OpenApproval, AbortApproval, ReadStage,
    MoveLead, LoadPending, ReadPlan, CancelPlan, UpdatePlan, StartRecordPayment, RevivePlan,
    CheckPayment, CreateCollection, UpdateCollection, RemoveCollection

(* One call at a time, the row a call writes is the row it read. *)
LEMMA WriteCases ==
  ASSUME TypeOK, ShapeInv, SerialInv, use.serial, NEW c \in Calls, WriteInstallment(c)
  PROVE  \E i \in Slots, op \in InstOps \ {"approveInstallment"}, r \in Refs \cup {NoRef} :
           /\ op \in use.ops /\ CanStart(op, inst[i].st) /\ Exists(i)
           /\ op = "payInstallment" => ~ReferenceTaken(r, i)
           /\ inst' = [inst EXCEPT ![i] = Written(inst[i], op, r)]
<1>1. /\ call[c].pc = "read" /\ call[c].op \in InstOps \ {"approveInstallment"}
      /\ call[c].i \in Slots /\ call[c].op \in use.ops
      /\ call[c].ref \in Refs \cup {NoRef} /\ StillTrue(c)
  BY DEF WriteInstallment, At, ShapeInv, CallOK, TypeOK, CallState, SerialInv
<1>2. /\ Exists(call[c].i) /\ CanStart(call[c].op, inst[call[c].i].st)
      /\ call[c].op = "payInstallment" => ~ReferenceTaken(call[c].ref, call[c].i)
  BY <1>1 DEF StillTrue
<1>3. inst' = [inst EXCEPT ![call[c].i] = Written(inst[call[c].i], call[c].op, call[c].ref)]
  BY <1>2 DEF WriteInstallment
<1>4. QED
  BY <1>1, <1>2, <1>3

(* What is written, by endpoint. *)
LEMMA WrittenRow ==
  ASSUME NEW row \in Installment, NEW r \in Refs \cup {NoRef}
  PROVE  /\ Written(row, "collectInstallment", r).st = "PENDING_APPROVAL"
         /\ Written(row, "payInstallment", r).st = "PENDING_APPROVAL"
         /\ Written(row, "payInstallment", r).ref = r
         /\ Written(row, "payInstallment", r).rejected = FALSE
         /\ Written(row, "rejectPayment", r).st \in {"PENDING", "WAIVED"}
         /\ Written(row, "removeInstallment", r).st = "gone"
<1>1. /\ Written(row, "collectInstallment", r)
           = [row EXCEPT !.st = Collected, !.ref = IF r = NoRef THEN row.ref ELSE r]
      /\ Written(row, "payInstallment", r)
           = [row EXCEPT !.st = Collected, !.ref = r, !.rejected = FALSE]
      /\ Written(row, "removeInstallment", r) = [row EXCEPT !.st = "gone"]
      /\ \/ Written(row, "rejectPayment", r) =
              [row EXCEPT !.st = "PENDING", !.ref = NoRef, !.rejected = TRUE]
         \/ Written(row, "rejectPayment", r) = [row EXCEPT !.st = "WAIVED", !.rejected = TRUE]
  BY DEF Written
<1>2. QED
  BY <1>1 DEF Installment, Collected

-----------------------------------------------------------------------------
(* Transaction ids. *)

LEMMA ReferenceStep ==
  ASSUME TypeOK, ShapeInv, SerialInv, ReferenceInv, use' = use, NEW c \in Calls, Step(c)
  PROVE  ReferenceInv'
<1> SUFFICES ASSUME Checked PROVE ReferenceInv'
  BY DEF ReferenceInv, Checked
<1>0. /\ use.serial /\ "collectInstallment" \notin use.ops
      /\ inst \in [Slots -> Installment] /\ call[c] \in CallState
      /\ StillTrue(c) /\ CallOK(call[c])
  BY DEF Checked, TypeOK, SerialInv, ShapeInv
(* Nothing new is submitted. *)
<1>1. ASSUME \A i \in Slots : inst'[i].st \in {"PENDING_APPROVAL", "PAID"} =>
               /\ inst[i].st \in {"PENDING_APPROVAL", "PAID"}
               /\ inst'[i].ref = inst[i].ref /\ inst'[i].rejected = inst[i].rejected
      PROVE  ReferenceInv'
  BY <1>1 DEF ReferenceInv, Checked, Submitted
(* A payment whose transaction id no live one carries. *)
<1>2. ASSUME NEW i \in Slots, NEW row, row.rejected = FALSE,
             ~ReferenceTaken(row.ref, i), inst' = [inst EXCEPT ![i] = row]
      PROVE  ReferenceInv'
  <2>1. inst'[i] = row /\ \A j \in Slots \ {i} : inst'[j] = inst[j]
    BY <1>0, <1>2
  <2>2. ASSUME NEW j \in Slots \ {i}, Submitted(j), row.ref # NoRef
        PROVE  inst[j].ref # row.ref
    BY <1>2, <2>2 DEF ReferenceTaken, Submitted, Exists, Absent, ReferenceInv
  <2>3. \A j \in Slots \ {i} : Submitted(j)' <=> Submitted(j)
    BY <2>1 DEF Submitted
  <2>4. Submitted(i)' => row.ref # NoRef
    BY <2>1 DEF Submitted
  <2>5. QED
    BY <1>2, <2>1, <2>2, <2>3, <2>4 DEF ReferenceInv, Checked
<1>3. CASE WriteInstallment(c)
  <2>1. PICK i \in Slots, op \in InstOps \ {"approveInstallment"}, r \in Refs \cup {NoRef} :
          /\ op \in use.ops
          /\ op = "payInstallment" => ~ReferenceTaken(r, i)
          /\ inst' = [inst EXCEPT ![i] = Written(inst[i], op, r)]
    BY <1>0, <1>3, WriteCases
  <2>0. inst[i] \in Installment /\ inst'[i] = Written(inst[i], op, r)
    BY <1>0, <2>1
  <2>2. CASE op = "payInstallment"
    <3> DEFINE row == Written(inst[i], "payInstallment", r)
    <3>1. row.rejected = FALSE /\ row.ref = r
      BY <2>0, WrittenRow
    <3>2. inst' = [inst EXCEPT ![i] = row]
      BY <2>1, <2>2
    <3> HIDE DEF row
    <3>3. QED
      BY <1>2, <2>1, <2>2, <3>1, <3>2
  <2>3. CASE op \in {"rejectPayment", "removeInstallment"}
    <3>1. inst'[i].st \notin {"PENDING_APPROVAL", "PAID"}
      <4>1. Written(inst[i], "rejectPayment", r).st \in {"PENDING", "WAIVED"}
        BY <2>0, WrittenRow
      <4>2. Written(inst[i], "removeInstallment", r).st = "gone"
        BY <2>0, WrittenRow
      <4>3. QED
        BY <2>0, <2>3, <4>1, <4>2
    <3>2. QED
      BY <1>0, <1>1, <2>1, <3>1
  <2>4. QED
    BY <1>0, <2>1, <2>2, <2>3 DEF InstOps
<1>4. CASE CreatePayment(c)
  <2>1. CASE inst' = inst
    BY <1>1, <2>1
  <2>2. CASE inst' # inst
    <3>1. PICK i \in Slots : inst' = [inst EXCEPT ![i] = NewRow(Collected, FALSE, call[c].ref)]
      BY <1>4, <2>2 DEF CreatePayment
    <3>2. ~ReferenceTaken(call[c].ref, NoSlot)
      BY <1>0, <1>4 DEF StillTrue, CreatePayment, At
    <3>3. ~ReferenceTaken(call[c].ref, i)
      BY <3>2, SlotsFinite DEF ReferenceTaken
    <3> DEFINE row == NewRow(Collected, FALSE, call[c].ref)
    <3>4. row.rejected = FALSE /\ row.ref = call[c].ref
      BY DEF NewRow
    <3>5. inst' = [inst EXCEPT ![i] = row]
      BY <3>1
    <3> HIDE DEF row
    <3>6. QED
      BY <1>2, <3>3, <3>4, <3>5
  <2>3. QED
    BY <2>1, <2>2
<1>5. CASE CommitApproval(c)
  <2>1. /\ inst' = [inst EXCEPT ![call[c].i].st = "PAID"]
        /\ call[c].i \in Slots /\ inst[call[c].i].st = "PENDING_APPROVAL"
    BY <1>0, <1>5 DEF CommitApproval, At, CallOK, StillTrue
  <2>2. QED
    BY <1>0, <1>1, <2>1 DEF Installment
<1>6. CASE AddInstallment(c)
  <2>1. PICK i \in Slots : inst' = [inst EXCEPT ![i] = NewRow("PENDING", FALSE, NoRef)]
    BY <1>6 DEF AddInstallment
  <2>2. inst'[i].st = "PENDING"
    BY <1>0, <2>1 DEF NewRow
  <2>3. QED
    BY <1>0, <1>1, <2>1, <2>2
<1>7. CASE FlipOverdue(c)
  <2>1. CASE inst' = inst
    BY <1>1, <2>1
  <2>2. CASE inst' # inst
    <3>1. PICK i \in call[c].todo : inst' = [inst EXCEPT ![i].st = "OVERDUE"]
      BY <1>7, <2>2, FlipStep
    <3>2. i \in Slots
      BY <1>0 DEF CallState
    <3>3. inst'[i].st = "OVERDUE"
      BY <1>0, <3>1, <3>2 DEF Installment
    <3>4. QED
      BY <1>0, <1>1, <3>1, <3>2, <3>3
  <2>3. QED
    BY <2>1, <2>2
<1>8. CASE WaiveOpen \/ DropRows
  <2>1. \A i \in Slots : inst'[i] = inst[i] \/ inst'[i].st \in {"WAIVED", "gone"}
    BY <1>0, <1>8 DEF WaiveOpen, DropRows, Installment
  <2>2. QED
    BY <1>1, <2>1
<1>9. CASE inst' = inst
  BY <1>1, <1>9
<1>10. QED
  BY <1>3, <1>4, <1>5, <1>6, <1>7, <1>8, <1>9, InstCases

-----------------------------------------------------------------------------
(* The invariant holds. *)

LEMMA IInvInit == Init => IInv
<1> SUFFICES ASSUME Init PROVE IInv
  OBVIOUS
<1>1. \A c \in Calls : call[c] = Idle
  BY DEF Init
<1>2. \A c \in Calls : call[c].pc = "idle" /\ CallOK(call[c])
  BY <1>1, IdleOK DEF Idle
<1>3. TypeOK
  <2>1. {NewRow("none", FALSE, NoRef), NewRow("PENDING", ob, NoRef),
         NewRow("PENDING_APPROVAL", FALSE, NoRef)} \subseteq Installment
    BY DEF Init, NewRow, Installment, Unsettled, Absent
  <2>2. inst \in [Slots -> Installment]
    BY <2>1 DEF Init
  <2>3. issued \in [Slots -> Nat] /\ ledger \subseteq LedgerRow /\ lead \in 0 .. 3
    BY DEF Init
  <2>4. call \in [Calls -> CallState]
    BY IdleOK DEF Init
  <2>5. QED
    BY <2>2, <2>3, <2>4 DEF Init, TypeOK, PlanStatus
<1>4. NumberInv
  BY <1>2 DEF Init, NumberInv, ReceiptNumbersUnique, At
<1>5. SerialInv
  BY <1>2 DEF SerialInv, StillTrue
<1>6. ReferenceInv
  <2>1. \A i \in Slots : inst[i].ref = NoRef
    BY DEF Init, NewRow
  <2>2. QED
    BY <2>1 DEF ReferenceInv, Submitted
<1>7. QED
  BY <1>2, <1>3, <1>4, <1>5, <1>6 DEF IInv, ShapeInv

LEMMA IInvStutter == IInv /\ UNCHANGED vars => IInv'
BY DEF IInv, vars, TypeOK, ShapeInv, CallOK, NumberInv, ReceiptNumbersUnique, InUse, At,
  SerialInv, StillTrue, Exists, ReferenceTaken, CanUndo, ReferenceInv, Checked, Submitted

LEMMA IInvStep == IInv /\ [Next]_vars => IInv'
<1>1. ASSUME IInv, Next PROVE IInv'
  <2>1. PICK c \in Calls : Step(c)
    BY <1>1, NextIsStep
  <2>2. use' = use
    BY <1>1, NextIsStep
  <2>3. QED
    BY <1>1, <2>1, <2>2, TypedStep, NumberStep, SerialStep, ReferenceStep DEF IInv
<1>2. QED
  BY <1>1, IInvStutter

LEMMA IInvHolds == Spec => []IInv
BY IInvInit, IInvStep, PTL DEF Spec

-----------------------------------------------------------------------------
(* Rows, ledger, flags and calls have the states the code gives them,      *)
(* however the endpoints and the reminder sweep overlap.                   *)
THEOREM FeesTyped == Spec => []TypeOK
<1>1. IInv => TypeOK
  BY DEF IInv
<1>2. QED
  BY <1>1, IInvHolds, PTL

(* No receipt number stands for two payments, however many approvals have  *)
(* counted the same rows (nextReceiptNo and its unique index); and one     *)
(* call at a time, without collectInstallment, no transaction id does.     *)
THEOREM NothingCountsTwice == Spec => []UsedOnce
<1>1. IInv => UsedOnce
  BY DEF IInv, NumberInv, ReferenceInv, Checked, UsedOnce, ReferenceUsedOnce
<1>2. QED
  BY <1>1, IInvHolds, PTL

(* Ledger rows outlive the plan and the onboarding they were made for; a   *)
(* paid instalment goes only with a deletion Admin was asked for.          *)
THEOREM ApprovedMoneyStays == Spec => MoneyKept
<1> DEFINE Kept ==
      /\ use.ops \cap LedgerOps \subseteq {"createCollection"} => ledger \subseteq ledger'
      /\ use.serial => \A i \in Slots : inst[i].st = "PAID" /\ inst'[i].st = "gone"
                                          => deletion
<1>1. ASSUME IInv, use' = use, NEW c \in Calls, Step(c) PROVE Kept
  <2>0. /\ TypeOK /\ ShapeInv /\ inst \in [Slots -> Installment]
        /\ call[c] \in CallState
    BY <1>1 DEF IInv, TypeOK
  <2>1. ASSUME use.ops \cap LedgerOps \subseteq {"createCollection"}
        PROVE  ledger \subseteq ledger'
    <3>1. ~UpdateCollection(c) /\ ~RemoveCollection(c)
      <4>1. "updateCollection" \notin use.ops /\ "removeCollection" \notin use.ops
        BY <2>1 DEF LedgerOps
      <4>2. QED
        BY <4>1 DEF UpdateCollection, RemoveCollection, Free
    <3>2. WritePlan(c) => ledger' = ledger
      BY <2>0, WritePlanCases, SetFlagsTyped DEF RefundPlan, ErasePlan, LedgerLeft
    <3>3. QED
      BY <1>1, <3>1, <3>2
      DEF Step, ReadInstallment, WriteInstallment, AddInstallment, TakeReceiptNo,
          OpenApproval, CommitApproval, AbortApproval, ReadStage, MoveLead, LoadPending,
          FlipOverdue, ReadPlan, CancelPlan, UpdatePlan, StartRecordPayment, RevivePlan,
          CheckPayment, CreatePayment, CreateCollection, money
  <2>2. ASSUME use.serial, NEW i \in Slots, inst[i].st = "PAID", inst'[i].st = "gone"
        PROVE  deletion
    <3>0. StillTrue(c)
      BY <1>1, <2>2 DEF IInv, SerialInv
    <3>1. CASE WriteInstallment(c)
      <4>1. PICK j \in Slots, op \in InstOps \ {"approveInstallment"}, r \in Refs \cup {NoRef} :
              /\ CanStart(op, inst[j].st)
              /\ inst' = [inst EXCEPT ![j] = Written(inst[j], op, r)]
        BY <1>1, <2>2, <3>1, WriteCases DEF IInv
      <4>2. CASE j # i
        BY <2>0, <2>2, <4>1, <4>2
      <4>3. CASE j = i
        BY <2>2, <4>1, <4>3 DEF CanStart, InstOps, Open
      <4>4. QED
        BY <4>2, <4>3
    <3>2. CASE WritePlan(c) /\ call[c].op \in {"approveDeletePlan", "undo"}
      BY <2>2, <3>0, <3>2 DEF StillTrue, CanUndo, WritePlan, At
    <3>3. CASE AddInstallment(c) \/ CreatePayment(c)
      <4>1. CASE inst' = inst
        BY <2>2, <4>1
      <4>2. CASE inst' # inst
        <5>1. PICK j \in Slots, st \in {"PENDING", "PENDING_APPROVAL"},
                   r \in {NoRef, call[c].ref} :
                inst' = [inst EXCEPT ![j] = NewRow(st, FALSE, r)]
          BY <3>3, <4>2 DEF AddInstallment, CreatePayment, Collected
        <5>2. QED
          BY <2>0, <2>2, <5>1 DEF NewRow
      <4>3. QED
        BY <4>1, <4>2
    <3>4. CASE CommitApproval(c)
      BY <2>0, <2>2, <3>4 DEF CommitApproval, Installment
    <3>5. CASE FlipOverdue(c)
      <4>1. CASE inst' = inst
        BY <2>2, <4>1
      <4>2. CASE inst' # inst
        <5>1. PICK j \in call[c].todo : inst' = [inst EXCEPT ![j].st = "OVERDUE"]
          BY <2>0, <3>5, <4>2, FlipStep
        <5>2. QED
          BY <2>0, <2>2, <5>1 DEF CallState, Installment
      <4>3. QED
        BY <4>1, <4>2
    <3>6. CASE WaiveOpen
      BY <2>0, <2>2, <3>6 DEF WaiveOpen, Open
    <3>7. QED
      BY <1>1, <2>0, <2>2, <3>1, <3>2, <3>3, <3>4, <3>5, <3>6, InstCases
  <2>3. QED
    BY <2>1, <2>2
<1>2. IInv /\ Next => Kept
  BY <1>1, NextIsStep
<1>3. UNCHANGED vars => Kept
  BY DEF vars
<1>4. IInv /\ [Next]_vars => [Kept]_vars
  BY <1>2, <1>3
<1>5. QED
  BY <1>4, IInvHolds, PTL DEF Spec, MoneyKept

(* An approval that has counted, inside its transaction, that nothing is   *)
(* left marks the plan COMPLETED, and the lead never goes back: one call   *)
(* at a time, what an approval or a sync read is still so when it writes.  *)
THEOREM ApprovalsReachPlanAndLead == Spec => ApprovalsCount
<1> DEFINE Forward == use.serial => lead' >= lead
           Completes == (/\ use.serial
                         /\ \E i \in Slots : issued'[i] > issued[i]
                         /\ \A i \in Slots : inst'[i].st \notin Unsettled)
                        => plan' = "COMPLETED"
<1>1. ASSUME IInv, use' = use, NEW c \in Calls, Step(c) PROVE Forward /\ Completes
  <2>0. /\ TypeOK /\ ShapeInv /\ lead \in 0 .. 3 /\ call[c] \in CallState
        /\ issued \in [Slots -> Nat] /\ inst \in [Slots -> Installment]
    BY <1>1 DEF IInv, TypeOK
  <2>1. Forward
    <3>1. CASE MoveLead(c) /\ use.serial
      <4>1. lead' = call[c].rank /\ lead < call[c].rank /\ call[c].rank \in 0 .. 3
        BY <1>1, <2>0, <3>1 DEF IInv, SerialInv, StillTrue, MoveLead, At, CallState
      <4>2. QED
        BY <2>0, <4>1
    <3>2. ~MoveLead(c) => lead' = lead
      BY <1>1 DEF Step, ReadInstallment, WriteInstallment, AddInstallment, TakeReceiptNo,
          OpenApproval, CommitApproval, AbortApproval, ReadStage, LoadPending,
          FlipOverdue, ReadPlan, WritePlan, CancelPlan, UpdatePlan, StartRecordPayment,
          RevivePlan, CheckPayment, CreatePayment, CreateCollection, UpdateCollection,
          RemoveCollection
    <3>3. QED
      BY <2>0, <3>1, <3>2
  <2>2. ASSUME use.serial, \E i \in Slots : issued'[i] > issued[i],
               \A i \in Slots : inst'[i].st \notin Unsettled
        PROVE  plan' = "COMPLETED"
    <3>1. issued' # issued
      BY <2>0, <2>2
    <3>2. CommitApproval(c)
      BY <1>1, <3>1 DEF Step, ReadInstallment, WriteInstallment, AddInstallment,
          TakeReceiptNo, OpenApproval, AbortApproval, ReadStage, MoveLead, LoadPending,
          FlipOverdue, ReadPlan, WritePlan, CancelPlan, UpdatePlan, StartRecordPayment,
          RevivePlan, CheckPayment, CreatePayment, CreateCollection, UpdateCollection,
          RemoveCollection, money
    <3>3. /\ inst' = [inst EXCEPT ![call[c].i].st = "PAID"]
          /\ plan' = PlanAfterApproval(call[c].left) /\ call[c].pc = "open"
      BY <3>2 DEF CommitApproval, At
    <3>4. CASE call[c].left
      <4>1. PICK j \in Slots \ {call[c].i} : inst[j].st \in Unsettled
        BY <1>1, <2>2, <3>3, <3>4 DEF IInv, SerialInv, StillTrue
      <4>2. inst'[j] = inst[j]
        BY <2>0, <3>3, <4>1
      <4>3. QED
        BY <2>2, <4>1, <4>2
    <3>5. CASE ~call[c].left
      BY <3>3, <3>5 DEF PlanAfterApproval
    <3>6. QED
      BY <3>4, <3>5
  <2>3. QED
    BY <2>1, <2>2
<1>2. IInv /\ Next => Forward /\ Completes
  BY <1>1, NextIsStep
<1>3. ASSUME IInv, UNCHANGED vars PROVE Forward /\ Completes
  <2>1. lead' = lead /\ issued' = issued /\ lead \in 0 .. 3 /\ issued \in [Slots -> Nat]
    BY <1>3 DEF vars, IInv, TypeOK
  <2>2. QED
    BY <2>1
<1>4. IInv /\ [Next]_vars => [Forward]_vars /\ [Completes]_vars
  BY <1>2, <1>3
<1>5. QED
  BY <1>4, IInvHolds, PTL
  DEF Spec, ApprovalsCount, LeadOnlyForward, LastApprovalCompletes

-----------------------------------------------------------------------------
(* The plan implements the ledger. *)

(* One instalment that moves moves its life. *)
LEMMA LifeMoves ==
  ASSUME NEW i \in Slots, NEW row, inst \in [Slots -> Installment],
         inst' = [inst EXCEPT ![i] = row]
  PROVE  [j \in Slots |-> Life(inst'[j].st)]
           = [[j \in Slots |-> Life(inst[j].st)] EXCEPT ![i] = Life(row.st)]
OBVIOUS

(* The life of a status. *)
LEMMA Lives ==
  /\ Life("none") = "none" /\ Life("gone") = "gone"
  /\ Life("PENDING") = "open" /\ Life("OVERDUE") = "open"
  /\ Life("PENDING_APPROVAL") = "submitted"
  /\ Life("PAID") = "paid" /\ Life("WAIVED") = "dropped"
BY DEF Life, Open

(* A move the ledger promises, from a move of one row. *)
LEMMA LedgerMove ==
  ASSUME TypeOK, NEW i \in Slots, NEW row, NEW from, NEW to,
         inst' = [inst EXCEPT ![i] = row], issued' = issued,
         Life(inst[i].st) \in from, Life(row.st) = to
  PROVE  Ledger!Move(i, from, to) /\ issued' = issued
<1>1. inst \in [Slots -> Installment]
  BY DEF TypeOK
<1>2. [j \in Slots |-> Life(inst'[j].st)]
        = [[j \in Slots |-> Life(inst[j].st)] EXCEPT ![i] = to]
  BY <1>1, LifeMoves
<1>3. QED
  BY <1>2 DEF Ledger!Move

LEMMA LedgerInit == Init => Ledger!Init
<1> SUFFICES ASSUME Init PROVE Ledger!Init
  OBVIOUS
<1>1. \A i \in Slots : inst[i].st \in {"none", "PENDING", "PENDING_APPROVAL"}
  BY DEF Init, NewRow
<1>2. \A i \in Slots : Life(inst[i].st) \in {"none", "open", "submitted"}
  BY <1>1, Lives
<1>3. QED
  BY <1>2 DEF Init, Ledger!Init

(* Whoever moves, the ledger moves as promised or not at all. *)
LEMMA LedgerStep ==
  ASSUME IInv, use.serial, use' = use, NEW c \in Calls, Step(c)
  PROVE  [Ledger!Next]_(Ledger!vars)
<1>0. /\ TypeOK /\ ShapeInv /\ SerialInv /\ StillTrue(c) /\ CallOK(call[c])
      /\ call[c] \in CallState /\ inst \in [Slots -> Installment]
      /\ issued \in [Slots -> Nat]
  BY DEF IInv, TypeOK, ShapeInv, SerialInv
<1>1. ~CommitApproval(c) => issued' = issued
  BY DEF Step, ReadInstallment, WriteInstallment, AddInstallment, TakeReceiptNo,
      OpenApproval, AbortApproval, ReadStage, MoveLead, LoadPending, FlipOverdue,
      ReadPlan, WritePlan, CancelPlan, UpdatePlan, StartRecordPayment, RevivePlan,
      CheckPayment, CreatePayment, CreateCollection, UpdateCollection, RemoveCollection,
      money
<1>2. CASE inst' = inst /\ ~CommitApproval(c)
  BY <1>1, <1>2 DEF Ledger!vars
<1>3. CASE WriteInstallment(c)
  <2>0. issued' = issued
    BY <1>3 DEF WriteInstallment, money
  <2>1. PICK i \in Slots, op \in InstOps \ {"approveInstallment"}, r \in Refs \cup {NoRef} :
          /\ CanStart(op, inst[i].st) /\ Exists(i)
          /\ inst' = [inst EXCEPT ![i] = Written(inst[i], op, r)]
    BY <1>0, <1>3, WriteCases
  <2>2. inst[i] \in Installment /\ inst[i].st \notin Absent
    BY <1>0, <2>1 DEF Exists
  <2> DEFINE row == Written(inst[i], op, r)
  <2>3. CASE op \in {"collectInstallment", "payInstallment"}
    <3>1. inst[i].st \in {"PENDING", "OVERDUE", "WAIVED"}
      BY <2>1, <2>2, <2>3 DEF CanStart, Open, Unsettled, Installment
    <3>2. row.st = "PENDING_APPROVAL"
      <4>1. CASE op = "collectInstallment"
        BY <2>2, <4>1, WrittenRow
      <4>2. CASE op = "payInstallment"
        BY <2>2, <4>2, WrittenRow
      <4>3. QED
        BY <2>3, <4>1, <4>2
    <3>3. Life(inst[i].st) \in {"none", "open", "dropped"} /\ Life(row.st) = "submitted"
      BY <3>1, <3>2, Lives
    <3> HIDE DEF row
    <3>4. Ledger!Move(i, {"none", "open", "dropped"}, "submitted")
      <4>1. inst' = [inst EXCEPT ![i] = row]
        BY <2>1 DEF row
      <4>2. QED
        BY <1>0, <2>0, <3>3, <4>1, LedgerMove
    <3>5. QED
      BY <2>0, <3>4 DEF Ledger!Next, Ledger!Submit
  <2>4. CASE op = "rejectPayment"
    <3>1. inst[i].st = "PENDING_APPROVAL"
      BY <2>1, <2>4 DEF CanStart
    <3>2. row.st \in {"PENDING", "WAIVED"}
      BY <2>2, <2>4, WrittenRow
    <3>3. Life(inst[i].st) \in {"submitted"} /\ Life(row.st) \in {"open", "dropped"}
      BY <3>1, <3>2, Lives
    <3> HIDE DEF row
    <3>4. \/ Ledger!Move(i, {"submitted"}, "open")
          \/ Ledger!Move(i, {"submitted"}, "dropped")
      <4>1. inst' = [inst EXCEPT ![i] = row]
        BY <2>1 DEF row
      <4>2. QED
        BY <1>0, <2>0, <3>3, <4>1, LedgerMove
    <3>5. QED
      BY <2>0, <3>4 DEF Ledger!Next, Ledger!SendBack
  <2>5. CASE op = "removeInstallment"
    <3>1. inst[i].st \in {"PENDING", "OVERDUE", "WAIVED"}
      BY <2>1, <2>2, <2>5 DEF CanStart, Unsettled, Installment
    <3>2. row.st = "gone"
      BY <2>2, <2>5, WrittenRow
    <3>3. Life(inst[i].st) \in {"open", "dropped"} /\ Life(row.st) = "gone"
      BY <3>1, <3>2, Lives
    <3> HIDE DEF row
    <3>4. Ledger!Move(i, {"open", "dropped"}, "gone")
      <4>1. inst' = [inst EXCEPT ![i] = row]
        BY <2>1 DEF row
      <4>2. QED
        BY <1>0, <2>0, <3>3, <4>1, LedgerMove
    <3>5. QED
      BY <2>0, <3>4 DEF Ledger!Next, Ledger!Remove
  <2>6. QED
    BY <2>3, <2>4, <2>5 DEF InstOps
<1>4. CASE AddInstallment(c) \/ (CreatePayment(c) /\ inst' # inst)
  <2>0. issued' = issued
    BY <1>4 DEF AddInstallment, CreatePayment, money
  <2>1. PICK i \in Slots, st \in {"PENDING", "PENDING_APPROVAL"},
             r \in {NoRef, call[c].ref} :
          /\ inst[i].st = "none" /\ inst' = [inst EXCEPT ![i] = NewRow(st, FALSE, r)]
    BY <1>4 DEF AddInstallment, CreatePayment, Collected
  <2> DEFINE row == NewRow(st, FALSE, r)
  <2>2. row.st = st /\ inst' = [inst EXCEPT ![i] = row]
    BY <2>1 DEF NewRow
  <2>3. /\ Life(inst[i].st) = "none"
        /\ \/ Life(row.st) = "open" \/ Life(row.st) = "submitted"
    BY <2>1, <2>2, Lives
  <2> HIDE DEF row
  <2>4. \/ Ledger!Move(i, {"none"}, "open")
        \/ Ledger!Move(i, {"none", "open", "dropped"}, "submitted")
    BY <1>0, <2>0, <2>2, <2>3, LedgerMove
  <2>5. QED
    BY <2>0, <2>4 DEF Ledger!Next, Ledger!Schedule, Ledger!Submit
<1>5. CASE CommitApproval(c)
  <2>1. /\ inst' = [inst EXCEPT ![call[c].i].st = "PAID"]
        /\ issued' = [issued EXCEPT ![call[c].i] = issued[call[c].i] + 1]
        /\ call[c].i \in Slots /\ inst[call[c].i].st = "PENDING_APPROVAL"
    BY <1>0, <1>5 DEF CommitApproval, At, CallOK, StillTrue
  <2> DEFINE row == [inst[call[c].i] EXCEPT !.st = "PAID"]
  <2>2. row.st = "PAID" /\ inst' = [inst EXCEPT ![call[c].i] = row]
    BY <1>0, <2>1 DEF Installment
  <2>3. Life(inst[call[c].i].st) = "submitted" /\ Life(row.st) = "paid"
    BY <2>1, <2>2, Lives
  <2> HIDE DEF row
  <2>4. [j \in Slots |-> Life(inst'[j].st)]
          = [[j \in Slots |-> Life(inst[j].st)] EXCEPT ![call[c].i] = "paid"]
    BY <1>0, <2>1, <2>2, <2>3, LifeMoves
  <2>5. Ledger!Move(call[c].i, {"submitted"}, "paid")
    BY <2>1, <2>3, <2>4 DEF Ledger!Move
  <2>6. QED
    BY <2>1, <2>5 DEF Ledger!Next, Ledger!Approve
<1>6. CASE FlipOverdue(c) /\ inst' # inst
  <2>1. PICK i \in call[c].todo : inst' = [inst EXCEPT ![i].st = "OVERDUE"]
    BY <1>0, <1>6, FlipStep
  <2>2. i \in Slots /\ inst[i].st = "PENDING"
    BY <1>0, <1>6, <2>1, FlipStep DEF CallState, StillTrue
  <2>3. inst'[i].st = "OVERDUE" /\ \A j \in Slots \ {i} : inst'[j] = inst[j]
    BY <1>0, <2>1, <2>2 DEF Installment
  <2>4. \A j \in Slots : Life(inst'[j].st) = Life(inst[j].st)
    BY <2>2, <2>3, Lives
  <2>5. issued' = issued
    BY <1>6 DEF FlipOverdue, money
  <2>6. QED
    BY <2>4, <2>5 DEF Ledger!vars
<1>7. CASE WaiveOpen /\ ~CommitApproval(c)
  <2>1. \A j \in Slots : Life(inst'[j].st) =
          IF Life(inst[j].st) = "open" THEN "dropped" ELSE Life(inst[j].st)
    <3>1. ASSUME NEW j \in Slots, inst[j].st \in Open
          PROVE  inst'[j].st = "WAIVED"
      BY <1>0, <1>7, <3>1 DEF WaiveOpen, Installment
    <3>2. ASSUME NEW j \in Slots, inst[j].st \notin Open
          PROVE  inst'[j] = inst[j]
      BY <1>0, <1>7, <3>2 DEF WaiveOpen
    <3>3. \A j \in Slots : Life(inst[j].st) = "open" <=> inst[j].st \in Open
      BY <1>0, Lives DEF Installment, Unsettled, Absent, Open
    <3>4. QED
      BY <3>1, <3>2, <3>3, Lives
  <2>2. QED
    BY <1>1, <1>7, <2>1 DEF Ledger!Next, Ledger!WaiveOpen
<1>8. CASE DropRows /\ ~CommitApproval(c)
  <2>1. \A j \in Slots : Life(inst'[j].st) =
          IF Life(inst[j].st) = "none" THEN "none" ELSE "gone"
    <3>1. ASSUME NEW j \in Slots, Exists(j)
          PROVE  inst'[j].st = "gone"
      BY <1>0, <1>8, <3>1 DEF DropRows, Installment
    <3>2. ASSUME NEW j \in Slots, ~Exists(j)
          PROVE  inst'[j] = inst[j] /\ inst[j].st \in Absent
      BY <1>0, <1>8, <3>2 DEF DropRows, Exists
    <3>3. \A j \in Slots : Life(inst[j].st) = "none" <=> inst[j].st = "none"
      BY <1>0, Lives DEF Installment, Unsettled, Absent
    <3>4. QED
      BY <3>1, <3>2, <3>3, Lives DEF Absent, Exists
  <2>2. QED
    BY <1>1, <1>8, <2>1 DEF Ledger!Next, Ledger!DeletePlan
<1>9. QED
  BY <1>0, <1>2, <1>3, <1>4, <1>5, <1>6, <1>7, <1>8, InstCases

(* One call at a time the instalments live as FeeLedger promises Finance:  *)
(* only an approval makes money count, once, and approved money stays.     *)
THEOREM PlanKeepsLedger == Spec => ImplementsLedger
<1>1. IInv /\ Next => (use.serial => [Ledger!Next]_(Ledger!vars))
  BY LedgerStep, NextIsStep
<1>2. UNCHANGED vars => UNCHANGED Ledger!vars
  BY DEF vars, Ledger!vars
<1>3. IInv /\ [Next]_vars => [use.serial => Ledger!Next]_(Ledger!vars)
  BY <1>1, <1>2
<1>4. QED
  BY <1>3, LedgerInit, IInvHolds, PTL DEF Spec, ImplementsLedger

=============================================================================
