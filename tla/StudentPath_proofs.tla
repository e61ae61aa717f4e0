------------------------- MODULE StudentPath_proofs -------------------------
(***************************************************************************)
(* Proofs about module StudentPath for any days, tracks and calls, however *)
(* they overlap: the types, that whoever is in the pool came through its   *)
(* gates, that a status moves forward and that the pool's clock is kept.   *)
(***************************************************************************)
EXTENDS StudentPath, FiniteSetTheorems, TLAPS

(* What a call carries, by where it is. *)
CallOK(cl) ==
  /\ cl.pc = "idle" => cl = Idle
  /\ cl.pc # "idle" => cl.op \in use.ops
  /\ cl.pc \in {"records", "flip"} => cl.st \in Synced
  /\ cl.pc = "student" => cl.op = "pushToPlacement"
  /\ cl.pc = "presentation" => cl.op \in {"pushToPlacements", "bulkPush"}
  /\ cl.pc = "write" => cl.op \in PushOps
  /\ cl.pc = "edit" => cl.op = "updateStudent"

ShapeInv == \A c \in Calls : CallOK(call[c])

(* The calls that still hold the clock for stopped: each may start it once *)
(* more.                                                                   *)
Starters == {c \in Calls : call[c].starts /\ call[c].pc \notin {"cert", "insert"}}
ClockInv ==
  /\ clock \in Nat
  /\ clock # 0 => clock + Cardinality(Starters) <= Cardinality(Calls)

(* A student in the pool has the certificate request, or the call that put *)
(* him there is on its way to it; who edits a student found there does not *)
(* file it again.                                                          *)
Requesting == certRequest \/ \E c \in Calls : call[c].pc \in {"cert", "insert"}
RequestInv ==
  /\ enrolled /\ status = "IN_PLACEMENT" => Requesting
  /\ \A c \in Calls : enrolled /\ call[c].pc = "edit" /\ call[c].st = "IN_PLACEMENT"
                        => Requesting

(* The pool's gates, for the endpoints PooledProperly is about: what a     *)
(* push under way has made sure of.                                        *)
Gated == use.ops \cap {"updateStudent", "pushByCodes"} = {}
GateInv ==
  Gated =>
    /\ status = "IN_PLACEMENT" => clock # 0 /\ (track = "PT" \/ presented)
    /\ \A c \in Calls :
         /\ call[c].pc \in {"presentation", "write"} =>
              call[c].track = track /\ (call[c].starts \/ clock # 0)
         /\ call[c].pc = "write" => track = "PT" \/ presented
         /\ call[c].pc = "student" => presented

(* One call at a time: what it read still holds. *)
StillTrue(c) ==
  LET cl == call[c] IN
  /\ cl.pc = "login" => status = "ENROLLED"
  /\ cl.pc \in {"records", "flip"} => status \in Synced
  /\ cl.pc \in {"presentation", "write"} =>
       /\ track # "JRP"
       /\ cl.op # "bulkPush" => status \notin {"PLACED", "BATCH_TRANSFER"}
  /\ cl.pc = "edit" => cl.track = track
  /\ cl.pc \in {"presentation", "write", "edit"} => (cl.starts => clock = 0)

SerialInv ==
  use.serial =>
    /\ \A c, d \in Calls : call[c].pc # "idle" /\ call[d].pc # "idle" => c = d
    /\ \A c \in Calls : StillTrue(c)

(* Only an edit by hand transfers a student to another batch. *)
TransferInv == use.ops \cap ByHand = {} => status # "BATCH_TRANSFER"

IInv ==
  /\ TypeOK /\ ShapeInv /\ ClockInv
  /\ RequestInv /\ GateInv /\ SerialInv /\ TransferInv

-----------------------------------------------------------------------------
(* Types and shapes. *)

Types ==
  /\ use \in Uses /\ status \in Status /\ track \in Tracks
  /\ marks \in [Days -> Mark]
  /\ presented \in BOOLEAN /\ eligible \in BOOLEAN
  /\ enrolled \in BOOLEAN /\ certRequest \in BOOLEAN
  /\ call \in [Calls -> CallState]

LEMMA IdleOK ==
  ASSUME Types
  PROVE  AnyTrack \in Tracks /\ Idle \in CallState /\ CallOK(Idle)
<1>1. AnyTrack \in Tracks
  BY DEF Types, AnyTrack
<1>2. QED
  BY <1>1 DEF Idle, CallState, CallOK, Status

(* A call that goes on as v leaves the others where they are. *)
LEMMA CallStep ==
  ASSUME Types, ShapeInv, use' = use, NEW c \in Calls, NEW v \in CallState,
         CallOK(v), call' = [call EXCEPT ![c] = v]
  PROVE  call' \in [Calls -> CallState] /\ ShapeInv'
<1>1. call' \in [Calls -> CallState] /\ \A d \in Calls : CallOK(call'[d])
  BY DEF Types, ShapeInv
<1>2. \A d \in Calls : CallOK(call[d])'
  BY <1>1 DEF CallOK, Synced
<1>3. QED
  BY <1>1, <1>2 DEF ShapeInv

LEMMA EndedStep ==
  ASSUME Types, NEW c \in Calls, Ended(c)
  PROVE  call'[c] = Idle /\ \A d \in Calls \ {c} : call'[d] = call[d]
BY DEF Ended, Types

LEMMA GoesStep ==
  ASSUME Types, NEW c \in Calls, NEW pc, Goes(c, pc)
  PROVE  /\ call'[c].pc = pc /\ call'[c].op = call[c].op /\ call'[c].st = call[c].st
         /\ call'[c].track = call[c].track /\ call'[c].starts = call[c].starts
         /\ \A d \in Calls \ {c} : call'[d] = call[d]
BY DEF Goes, Types, CallState

LEMMA SeenStep ==
  ASSUME Types, NEW c \in Calls, NEW op, NEW pc,
         call' = [call EXCEPT ![c] = Seen(op, pc)]
  PROVE  /\ call'[c].pc = pc /\ call'[c].op = op /\ call'[c].st = status
         /\ call'[c].track = track /\ call'[c].starts = (clock = 0)
         /\ \A d \in Calls \ {c} : call'[d] = call[d]
BY DEF Seen, Idle, Types

LEMMA SeenOK ==
  ASSUME Types, NEW op \in use.ops, NEW pc,
         \/ op = "login" /\ pc = "login"
         \/ op = "sync" /\ pc = "records" /\ status \in Synced
         \/ op \in PushOps /\ pc = "write"
         \/ op \in {"pushToPlacements", "bulkPush"} /\ pc = "presentation"
         \/ op = "updateStudent" /\ pc = "edit"
  PROVE  Seen(op, pc) \in CallState /\ CallOK(Seen(op, pc))
<1>1. op \in Op /\ pc # "idle" /\ pc \in {"login", "records", "presentation", "write", "edit"}
  BY UsesShape DEF Types
<1>2. PICK b \in BOOLEAN :
        Seen(op, pc) = [pc |-> pc, op |-> op, st |-> status, track |-> track,
                        starts |-> b]
  <2>1. CASE clock = 0
    <3>1. (clock = 0) = TRUE
      BY <2>1
    <3>2. Seen(op, pc) = [Idle EXCEPT !.op = op, !.pc = pc, !.st = status,
                                      !.track = track, !.starts = TRUE]
      BY <3>1, Zenon DEF Seen
    <3>3. QED
      BY <3>2 DEF Idle
  <2>2. CASE clock # 0
    <3>1. (clock = 0) = FALSE
      BY <2>2
    <3>2. Seen(op, pc) = [Idle EXCEPT !.op = op, !.pc = pc, !.st = status,
                                      !.track = track, !.starts = FALSE]
      BY <3>1, Zenon DEF Seen
    <3>3. QED
      BY <3>2 DEF Idle
  <2>3. QED
    BY <2>1, <2>2
<1>3. Seen(op, pc) \in CallState
  BY <1>1, <1>2 DEF CallState, Types
<1>4. Seen(op, pc).pc = pc /\ Seen(op, pc).op = op /\ Seen(op, pc).st = status
  BY <1>2
<1>5. CallOK(Seen(op, pc))
  BY <1>1, <1>4 DEF CallOK
<1>6. QED
  BY <1>3, <1>5

LEMMA TypedStep ==
  ASSUME Types, ShapeInv, Next
  PROVE  Types' /\ ShapeInv'
<1>0. /\ use' = use
      /\ \A c \in Calls : call[c] \in CallState /\ CallOK(call[c])
      /\ Idle \in CallState /\ CallOK(Idle)
  BY IdleOK DEF Next, Types, ShapeInv
<1>1. ASSUME NEW c \in Calls, Ended(c) \/ UNCHANGED call
      PROVE  call' \in [Calls -> CallState] /\ ShapeInv'
  <2>1. CASE Ended(c)
    BY <1>0, <2>1, CallStep DEF Ended
  <2>2. CASE UNCHANGED call
    BY <1>0, <2>2 DEF ShapeInv, CallOK, Types
  <2>3. QED
    BY <1>1, <2>1, <2>2
<1>2. ASSUME NEW c \in Calls, NEW pc \in {"write", "cert", "insert"}, Goes(c, pc),
             call[c].pc # "idle", pc = "write" => call[c].op \in PushOps
      PROVE  call' \in [Calls -> CallState] /\ ShapeInv'
  <2>1. /\ [call[c] EXCEPT !.pc = pc] \in CallState
        /\ CallOK([call[c] EXCEPT !.pc = pc])
    BY <1>0, <1>2 DEF CallState, CallOK
  <2>2. call' = [call EXCEPT ![c] = [call[c] EXCEPT !.pc = pc]]
    BY <1>2 DEF Goes
  <2>3. QED
    BY <1>0, <2>1, <2>2, CallStep
<1>3. ASSUME NEW c \in Calls, Login(c) \/ LoadStudents(c) \/ ReadToEdit(c)
      PROVE  Types' /\ ShapeInv'
  <2>1. PICK op, pc :
          /\ op \in use.ops /\ call' = [call EXCEPT ![c] = Seen(op, pc)]
          /\ \/ op = "login" /\ pc = "login"
             \/ op = "sync" /\ pc = "records" /\ status \in Synced
             \/ op = "updateStudent" /\ pc = "edit"
    BY <1>3 DEF Login, LoadStudents, ReadToEdit, Free
  <2>2. Seen(op, pc) \in CallState /\ CallOK(Seen(op, pc))
    BY <2>1, SeenOK
  <2>3. call' \in [Calls -> CallState] /\ ShapeInv'
    BY <1>0, <2>1, <2>2, CallStep
  <2>4. QED
    BY <1>0, <1>3, <2>3 DEF Types, student, review, Login, LoadStudents, ReadToEdit
<1>4. ASSUME NEW c \in Calls, NEW op \in PushOps, ReadStudent(c, op)
      PROVE  Types' /\ ShapeInv'
  <2>1. op \in use.ops
    BY <1>0, <1>4 DEF ReadStudent, At, Free, CallOK
  <2>2. call' \in [Calls -> CallState] /\ ShapeInv'
    <3>1. CASE MayMove(op)
      <4>1. PICK pc : /\ call' = [call EXCEPT ![c] = Seen(op, pc)]
                      /\ pc = IF op \in {"pushToPlacements", "bulkPush"}
                              THEN "presentation" ELSE "write"
        BY <1>4, <3>1 DEF ReadStudent
      <4>2. Seen(op, pc) \in CallState /\ CallOK(Seen(op, pc))
        BY <2>1, <4>1, SeenOK
      <4>3. QED
        BY <1>0, <4>1, <4>2, CallStep
    <3>2. CASE ~MayMove(op)
      BY <1>1, <1>4, <3>2 DEF ReadStudent
    <3>3. QED
      BY <3>1, <3>2
  <2>3. QED
    BY <1>0, <1>4, <2>2 DEF Types, student, review, ReadStudent
<1>5. ASSUME NEW c \in Calls, CheckReview(c)
      PROVE  Types' /\ ShapeInv'
  <2> DEFINE v == [Idle EXCEPT !.op = "pushToPlacement", !.pc = "student"]
  <2>1. v \in CallState /\ CallOK(v)
    BY <1>0, <1>5, IdleOK DEF CheckReview, Free, Idle, CallState, CallOK, Op, PushOps,
                              Status
  <2>2. call' \in [Calls -> CallState] /\ ShapeInv'
    BY <1>0, <1>5, <2>1, CallStep DEF CheckReview
  <2>3. QED
    BY <1>0, <1>5, <2>2 DEF Types, student, review, CheckReview
<1>6. ASSUME NEW c \in Calls, NEW d \in Days, MarkAttendance(c, d)
      PROVE  Types' /\ ShapeInv'
  <2> DEFINE v == [Idle EXCEPT !.op = "markAttendance", !.pc = "activate"]
  <2>1. v \in CallState /\ CallOK(v)
    BY <1>0, <1>6, IdleOK DEF MarkAttendance, Free, Idle, CallState, CallOK, Op, Status
  <2>2. call' \in [Calls -> CallState] /\ ShapeInv'
    BY <1>0, <1>6, <2>1, CallStep DEF MarkAttendance
  <2>3. QED
    BY <1>0, <1>6, <2>2 DEF Types, student, review, MarkAttendance, Mark
<1>7. ASSUME NEW c \in Calls, ReadRecords(c)
      PROVE  Types' /\ ShapeInv'
  <2>1. CASE Ended(c)
    BY <1>0, <1>1, <1>7, <2>1 DEF Types, student, review, ReadRecords
  <2>2. CASE ~Ended(c)
    <3>0. call[c].pc = "records" /\ call[c].op = "sync"
      BY <1>7 DEF ReadRecords, At
    <3>1. PICK st : st = ByAttendance(call[c].st)
      OBVIOUS
    <3>2. st \in Synced
      BY <1>0, <3>0, <3>1 DEF CallOK, ByAttendance, Synced
    <3>3. call' = [call EXCEPT ![c] = [call[c] EXCEPT !.pc = "flip", !.st = st]]
      BY <1>7, <2>2, <3>1 DEF ReadRecords
    <3>4. /\ [call[c] EXCEPT !.pc = "flip", !.st = st] \in CallState
          /\ CallOK([call[c] EXCEPT !.pc = "flip", !.st = st])
      BY <1>0, <3>0, <3>2 DEF CallState, CallOK, Synced, Status
    <3>5. call' \in [Calls -> CallState] /\ ShapeInv'
      BY <1>0, <3>3, <3>4, CallStep
    <3>6. QED
      BY <1>0, <1>7, <3>5 DEF Types, student, review, ReadRecords
  <2>3. QED
    BY <2>1, <2>2
<1>8. ASSUME NEW c \in Calls, CheckPresentation(c) \/ FindCertRequest(c)
      PROVE  Types' /\ ShapeInv'
  <2>1. \/ Ended(c)
        \/ Goes(c, "write") /\ call[c].pc # "idle" /\ call[c].op \in PushOps
        \/ Goes(c, "insert") /\ call[c].pc # "idle"
    BY <1>0, <1>8 DEF CheckPresentation, FindCertRequest, CallOK, PushOps
  <2>2. call' \in [Calls -> CallState] /\ ShapeInv'
    BY <1>1, <1>2, <2>1
  <2>3. QED
    BY <1>0, <1>8, <2>2 DEF Types, student, review, CheckPresentation, FindCertRequest
<1>9. ASSUME NEW c \in Calls, WritePool(c)
      PROVE  Types' /\ ShapeInv'
  <2>1. call' \in [Calls -> CallState] /\ ShapeInv'
    BY <1>2, <1>9 DEF WritePool
  <2>2. QED
    BY <1>0, <1>9, <2>1 DEF Types, review, WritePool, Status
<1>10. ASSUME NEW c \in Calls, UpdateStudent(c)
       PROVE  Types' /\ ShapeInv'
  <2>1. Ended(c) \/ Goes(c, "cert")
    BY <1>10 DEF UpdateStudent
  <2>2. call[c].pc # "idle"
    BY <1>10 DEF UpdateStudent, At
  <2>3. call' \in [Calls -> CallState] /\ ShapeInv'
    BY <1>1, <1>2, <2>1, <2>2
  <2>4. status' \in Status /\ track' \in Tracks
    BY <1>10 DEF UpdateStudent, student, Types
  <2>5. QED
    BY <1>0, <1>10, <2>3, <2>4 DEF Types, review, UpdateStudent
<1>11. ASSUME NEW c \in Calls,
              WriteLogin(c) \/ Activate(c) \/ FlipStatus(c) \/ CreateCertRequest(c)
       PROVE  Types' /\ ShapeInv'
  <2>1. call' \in [Calls -> CallState] /\ ShapeInv'
    BY <1>1, <1>11 DEF WriteLogin, Activate, FlipStatus, CreateCertRequest
  <2>2. call[c].st \in Status
    BY <1>0 DEF CallState
  <2>3. QED
    BY <1>0, <1>11, <2>1, <2>2
    DEF Types, student, review, Status, WriteLogin, Activate, Activated, FlipStatus,
        CreateCertRequest
<1>12. ASSUME NEW c \in Calls, Present(c) \/ UpsertFeedback(c) \/ BulkStatus(c) \/ Select(c)
       PROVE  Types' /\ ShapeInv'
  <2>1. call' \in [Calls -> CallState] /\ ShapeInv'
    BY <1>1, <1>12 DEF Present, UpsertFeedback, BulkStatus, Select
  <2>2. QED
    BY <1>0, <1>12, <2>1
    DEF Types, student, review, Status, Present, UpsertFeedback, BulkStatus, Select
<1>13. QED
  BY <1>3, <1>4, <1>5, <1>6, <1>7, <1>8, <1>9, <1>10, <1>11, <1>12 DEF Next, Sync

-----------------------------------------------------------------------------
(* The clock. *)

LEMMA CallsCount ==
  /\ \A S \in SUBSET Calls : /\ IsFiniteSet(S) /\ Cardinality(S) \in Nat
                             /\ Cardinality(S) <= Cardinality(Calls)
  /\ Cardinality(Calls) \in Nat /\ Cardinality(Calls) > 0
BY CallsFinite, FS_Subset, FS_CardinalityType, FS_EmptySet

(* Whoever starts the clock was one of those who might. *)
LEMMA ClockStarts ==
  ASSUME ClockInv, NEW c \in Starters, clock' = clock + 1,
         Starters' \subseteq Starters \ {c}
  PROVE  ClockInv'
<1>1. Starters \in SUBSET Calls /\ Starters \ {c} \in SUBSET Calls
  BY DEF Starters
<1>2. Cardinality(Starters \ {c}) = Cardinality(Starters) - 1
  BY <1>1, CallsCount, FS_RemoveElement
<1>3. Cardinality(Starters') <= Cardinality(Starters \ {c})
  BY <1>1, CallsCount, FS_Subset
<1>4. /\ Cardinality(Starters) \in Nat /\ Cardinality(Starters \ {c}) \in Nat
      /\ Cardinality(Starters') \in Nat /\ Cardinality(Calls) \in Nat
      /\ Cardinality(Starters) <= Cardinality(Calls)
  BY <1>1, CallsCount
<1>5. clock' \in Nat /\ clock' + Cardinality(Starters') <= Cardinality(Calls)
  BY <1>2, <1>3, <1>4 DEF ClockInv
<1>6. QED
  BY <1>5 DEF ClockInv

(* While the clock runs, nobody new holds it for stopped.                  *)
LEMMA ClockRuns ==
  ASSUME ClockInv, clock' = clock, clock # 0 => Starters' \subseteq Starters
  PROVE  ClockInv'
<1>1. CASE clock # 0
  <2>1. Starters \in SUBSET Calls /\ Starters' \in SUBSET Calls
    BY <1>1 DEF Starters
  <2>2. Cardinality(Starters') <= Cardinality(Starters)
    BY <1>1, <2>1, CallsCount, FS_Subset
  <2>3. /\ Cardinality(Starters) \in Nat /\ Cardinality(Starters') \in Nat
        /\ Cardinality(Calls) \in Nat
    BY <2>1, CallsCount
  <2>4. clock' + Cardinality(Starters') <= Cardinality(Calls)
    BY <1>1, <2>2, <2>3 DEF ClockInv
  <2>5. QED
    BY <2>4 DEF ClockInv
<1>2. CASE clock = 0
  BY <1>2 DEF ClockInv
<1>3. QED
  BY <1>1, <1>2

LEMMA ClockStep ==
  ASSUME Types, ShapeInv, ClockInv, Next
  PROVE  ClockInv'
<1>0. Idle.starts = FALSE /\ \A c \in Calls : call[c] \in CallState
  BY DEF Idle, Types
<1>1. ASSUME NEW c \in Calls, Ended(c)
      PROVE  Starters' \subseteq Starters \ {c}
  BY <1>0, <1>1, EndedStep DEF Starters
<1>2. ASSUME NEW c \in Calls, NEW pc, Goes(c, pc), call[c].pc \notin {"cert", "insert"}
      PROVE  /\ Starters' \subseteq Starters
             /\ pc = "cert" => Starters' \subseteq Starters \ {c}
  BY <1>2, GoesStep DEF Starters
<1>3. ASSUME NEW c \in Calls, Ended(c) \/ UNCHANGED call, UNCHANGED clock
      PROVE  ClockInv'
  BY <1>1, <1>3, ClockRuns DEF Starters
<1>4. ASSUME NEW c \in Calls, NEW op, NEW pc, call' = [call EXCEPT ![c] = Seen(op, pc)],
             UNCHANGED clock
      PROVE  ClockInv'
  <2>1. clock # 0 => Starters' \subseteq Starters
    BY <1>4, SeenStep DEF Starters
  <2>2. QED
    BY <1>4, <2>1, ClockRuns
<1>5. ASSUME NEW c \in Calls,
             \/ Login(c) \/ LoadStudents(c) \/ ReadToEdit(c)
             \/ \E op \in PushOps : ReadStudent(c, op)
      PROVE  ClockInv'
  BY <1>3, <1>4, <1>5 DEF Login, LoadStudents, ReadToEdit, ReadStudent, student
<1>6. ASSUME NEW c \in Calls, CheckReview(c) \/ \E d \in Days : MarkAttendance(c, d)
      PROVE  ClockInv'
  <2>1. PICK op, pc : call' = [call EXCEPT ![c] = [Idle EXCEPT !.op = op, !.pc = pc]]
    BY <1>6 DEF CheckReview, MarkAttendance
  <2>2. ~call'[c].starts /\ \A d \in Calls \ {c} : call'[d] = call[d]
    BY <2>1 DEF Types, Idle
  <2>3. Starters' \subseteq Starters
    BY <2>2 DEF Starters
  <2>4. QED
    BY <1>6, <2>3, ClockRuns DEF CheckReview, MarkAttendance, student
<1>7. ASSUME NEW c \in Calls, ReadRecords(c)
      PROVE  ClockInv'
  <2>1. CASE Ended(c)
    BY <1>3, <1>7, <2>1 DEF ReadRecords, student
  <2>2. CASE ~Ended(c)
    <3>1. PICK st : call' = [call EXCEPT ![c].pc = "flip", ![c].st = st]
      BY <1>7, <2>2 DEF ReadRecords
    <3>2. /\ call'[c].starts = call[c].starts /\ call[c].pc = "records"
          /\ \A d \in Calls \ {c} : call'[d] = call[d]
      BY <1>0, <1>7, <3>1 DEF Types, CallState, ReadRecords, At
    <3>3. Starters' \subseteq Starters
      BY <3>2 DEF Starters
    <3>4. QED
      BY <1>7, <3>3, ClockRuns DEF ReadRecords, student
  <2>3. QED
    BY <2>1, <2>2
<1>8. ASSUME NEW c \in Calls, CheckPresentation(c)
      PROVE  ClockInv'
  <2>1. CASE Ended(c)
    BY <1>3, <1>8, <2>1 DEF CheckPresentation, student
  <2>2. CASE Goes(c, "write")
    BY <1>2, <1>8, <2>2, ClockRuns DEF CheckPresentation, student
  <2>3. QED
    BY <1>8, <2>1, <2>2 DEF CheckPresentation
<1>9. ASSUME NEW c \in Calls, FindCertRequest(c)
      PROVE  ClockInv'
  <2>1. CASE Ended(c)
    BY <1>3, <1>9, <2>1 DEF FindCertRequest, student
  <2>2. CASE Goes(c, "insert")
    <3>1. Starters' \subseteq Starters
      BY <1>9, <2>2, GoesStep DEF Starters, FindCertRequest
    <3>2. QED
      BY <1>9, <3>1, ClockRuns DEF FindCertRequest, student
  <2>3. QED
    BY <1>9, <2>1, <2>2 DEF FindCertRequest
<1>10. ASSUME NEW c \in Calls, WritePool(c)
       PROVE  ClockInv'
  <2>1. Starters' \subseteq Starters \ {c}
    BY <1>2, <1>10 DEF WritePool
  <2>2. CASE call[c].starts
    BY <1>10, <2>1, <2>2, ClockStarts DEF WritePool, Started, Starters
  <2>3. CASE ~call[c].starts
    BY <1>10, <2>1, <2>3, ClockRuns DEF WritePool, Started
  <2>4. QED
    BY <2>2, <2>3
<1>11. ASSUME NEW c \in Calls, UpdateStudent(c)
       PROVE  ClockInv'
  <2>1. Ended(c) \/ Goes(c, "cert")
    BY <1>11 DEF UpdateStudent
  <2>2. Starters' \subseteq Starters \ {c}
    BY <1>1, <1>2, <1>11, <2>1 DEF UpdateStudent, At
  <2>3. \/ clock' = clock
        \/ clock' = clock + 1 /\ call[c].starts
    BY <1>11 DEF UpdateStudent, student
  <2>4. CASE clock' = clock + 1 /\ call[c].starts
    BY <1>11, <2>2, <2>4, ClockStarts DEF UpdateStudent, At, Starters
  <2>5. CASE clock' = clock
    BY <2>2, <2>5, ClockRuns
  <2>6. QED
    BY <2>3, <2>4, <2>5
<1>12. ASSUME NEW c \in Calls,
              \/ WriteLogin(c) \/ Activate(c) \/ FlipStatus(c) \/ CreateCertRequest(c)
              \/ Present(c) \/ UpsertFeedback(c) \/ BulkStatus(c) \/ Select(c)
       PROVE  ClockInv'
  BY <1>3, <1>12 DEF WriteLogin, Activate, FlipStatus, CreateCertRequest, Present,
                     UpsertFeedback, BulkStatus, Select, student
<1>13. QED
  BY <1>5, <1>6, <1>7, <1>8, <1>9, <1>10, <1>11, <1>12 DEF Next, Sync

LEMMA TypeOKStep ==
  ASSUME TypeOK, ShapeInv, ClockInv, Next
  PROVE  TypeOK' /\ ShapeInv' /\ ClockInv'
<1>1. Types' /\ ShapeInv' /\ ClockInv'
  BY TypedStep, ClockStep DEF TypeOK, Types
<1>2. Starters' \in SUBSET Calls
  BY DEF Starters
<1>3. Cardinality(Starters') \in Nat /\ Cardinality(Calls) \in Nat
  BY <1>2, CallsCount
<1>4. clock' \in 0 .. Cardinality(Calls)
  BY <1>1, <1>3 DEF ClockInv
<1>5. QED
  BY <1>1, <1>4 DEF TypeOK, Types

-----------------------------------------------------------------------------
(* One step is one call's. *)

Step(c) ==
  \/ Login(c) \/ WriteLogin(c)
  \/ \E d \in Days : MarkAttendance(c, d)
  \/ Activate(c) \/ LoadStudents(c) \/ ReadRecords(c) \/ FlipStatus(c)
  \/ Present(c) \/ UpsertFeedback(c)
  \/ CheckReview(c) \/ CheckPresentation(c) \/ WritePool(c)
  \/ \E op \in PushOps : ReadStudent(c, op)
  \/ FindCertRequest(c) \/ CreateCertRequest(c)
  \/ ReadToEdit(c) \/ UpdateStudent(c) \/ BulkStatus(c) \/ Select(c)

LEMMA NextIsStep == Next => use' = use /\ \E c \in Calls : Step(c)
BY DEF Next, Step, Sync

(* The other calls stay where they are. *)
LEMMA OthersStay ==
  ASSUME Types, NEW c \in Calls, Step(c)
  PROVE  \A d \in Calls \ {c} : call'[d] = call[d]
<1>1. CASE Ended(c)
  BY <1>1, EndedStep
<1>2. CASE \E pc : Goes(c, pc)
  BY <1>2, GoesStep
<1>3. CASE \E v : call' = [call EXCEPT ![c] = v]
  BY <1>3 DEF Types
<1>4. CASE ReadRecords(c)
  BY <1>1, <1>4 DEF ReadRecords, Types
<1>5. CASE UNCHANGED call
  BY <1>5
<1>6. QED
  BY <1>1, <1>2, <1>3, <1>4, <1>5
  DEF Step, Login, WriteLogin, MarkAttendance, Activate, LoadStudents, FlipStatus,
      Present, UpsertFeedback, CheckReview, CheckPresentation, WritePool, ReadStudent,
      FindCertRequest, CreateCertRequest, ReadToEdit, UpdateStudent, BulkStatus, Select

(* Who puts the student into the pool. *)
LEMMA PoolEntry ==
  ASSUME Types, ShapeInv, NEW c \in Calls, Step(c),
         status # "IN_PLACEMENT", status' = "IN_PLACEMENT"
  PROVE  WritePool(c) \/ UpdateStudent(c)
<1>1. call[c].pc = "flip" => call[c].st \in Synced
  BY DEF ShapeInv, CallOK
<1>2. QED
  BY <1>1
  DEF Step, Login, WriteLogin, MarkAttendance, Activate, Activated, LoadStudents,
      ReadRecords, FlipStatus, Present, UpsertFeedback, CheckReview, CheckPresentation,
      ReadStudent, FindCertRequest, CreateCertRequest, ReadToEdit, BulkStatus, Select,
      student, At, Synced

-----------------------------------------------------------------------------
(* The certificate request. *)

LEMMA RequestKept ==
  ASSUME Types, NEW c \in Calls, Step(c), enrolled, Requesting
  PROVE  Requesting'
<1>1. CASE certRequest
  BY <1>1 DEF Requesting, Step, Login, WriteLogin, MarkAttendance, Activate,
      LoadStudents, ReadRecords, FlipStatus, Present, UpsertFeedback, CheckReview,
      CheckPresentation, WritePool, ReadStudent, FindCertRequest, CreateCertRequest,
      ReadToEdit, UpdateStudent, BulkStatus, Select
<1>2. ASSUME NEW d \in Calls, call[d].pc \in {"cert", "insert"}, ~certRequest
      PROVE  Requesting'
  <2>1. CASE call'[d] = call[d]
    BY <1>2, <2>1 DEF Requesting
  <2>2. CASE call'[d] # call[d]
    <3>1. d = c /\ ~UNCHANGED call
      BY <2>2, OthersStay
    <3>2. FindCertRequest(c) \/ CreateCertRequest(c)
      BY <1>2, <3>1
      DEF Step, Login, WriteLogin, MarkAttendance, Activate, LoadStudents, ReadRecords,
          FlipStatus, Present, UpsertFeedback, CheckReview, CheckPresentation, WritePool,
          ReadStudent, ReadToEdit, UpdateStudent, BulkStatus, Select, At, Free, Quiet
    <3>3. CASE FindCertRequest(c)
      <4>1. Goes(c, "insert")
        BY <1>2, <3>3 DEF FindCertRequest, NeedsRequest
      <4>2. QED
        BY <4>1, GoesStep DEF Requesting
    <3>4. CASE CreateCertRequest(c)
      BY <3>4 DEF CreateCertRequest, Requesting
    <3>5. QED
      BY <3>2, <3>3, <3>4
  <2>3. QED
    BY <2>1, <2>2
<1>3. QED
  BY <1>1, <1>2 DEF Requesting

LEMMA RequestStep ==
  ASSUME Types, ShapeInv, RequestInv, NEW c \in Calls, Step(c)
  PROVE  RequestInv'
<1>0. enrolled' = enrolled
  BY DEF Step, Login, WriteLogin, MarkAttendance, Activate, LoadStudents, ReadRecords,
      FlipStatus, Present, UpsertFeedback, CheckReview, CheckPresentation, WritePool,
      ReadStudent, FindCertRequest, CreateCertRequest, ReadToEdit, UpdateStudent,
      BulkStatus, Select
<1>1. ASSUME enrolled, status' = "IN_PLACEMENT"
      PROVE  Requesting'
  <2>1. CASE status = "IN_PLACEMENT"
    BY <1>1, <2>1, RequestKept DEF RequestInv
  <2>2. CASE WritePool(c)
    BY <2>2, GoesStep DEF WritePool, Requesting
  <2>3. CASE UpdateStudent(c) /\ status # "IN_PLACEMENT"
    <3>1. CASE call[c].st = "IN_PLACEMENT"
      BY <1>1, <2>3, <3>1, RequestKept DEF RequestInv, UpdateStudent, At
    <3>2. CASE call[c].st # "IN_PLACEMENT"
      <4>1. Goes(c, "cert")
        BY <1>1, <2>3, <3>2 DEF UpdateStudent, student
      <4>2. QED
        BY <4>1, GoesStep DEF Requesting
    <3>3. QED
      BY <3>1, <3>2
  <2>4. QED
    BY <1>1, <2>1, <2>2, <2>3, PoolEntry
<1>2. ASSUME NEW d \in Calls, enrolled, call'[d].pc = "edit", call'[d].st = "IN_PLACEMENT"
      PROVE  Requesting'
  <2>1. CASE call'[d] = call[d]
    BY <1>2, <2>1, RequestKept DEF RequestInv
  <2>2. CASE call'[d] # call[d]
    <3>1. d = c /\ ~UNCHANGED call
      BY <2>2, OthersStay
    <3>2. CASE ReadToEdit(c)
      <4>1. status = "IN_PLACEMENT"
        BY <1>2, <3>1, <3>2, SeenStep DEF ReadToEdit
      <4>2. QED
        BY <1>2, <4>1, RequestKept DEF RequestInv
    <3>3. CASE ~ReadToEdit(c)
      <4>1. call'[c].pc # "edit"
        <5>1. ASSUME NEW op, NEW pc, call' = [call EXCEPT ![c] = Seen(op, pc)]
              PROVE  call'[c].pc = pc
          BY <5>1 DEF Seen, Idle, Types
        <5>2. \A pc : Goes(c, pc) => call'[c].pc = pc
          BY GoesStep
        <5>3. Ended(c) => call'[c].pc = "idle"
          BY EndedStep DEF Idle
        <5>4. \A op, pc : call' = [call EXCEPT ![c] = [Idle EXCEPT !.op = op, !.pc = pc]]
                => call'[c].pc = pc
          BY DEF Types, Idle
        <5>5. CASE ReadRecords(c) /\ ~Ended(c)
          BY <5>5 DEF ReadRecords, Types, CallState
        <5>6. QED
          BY <3>1, <3>3, <5>1, <5>2, <5>3, <5>4, <5>5
          DEF Step, Login, WriteLogin, MarkAttendance, Activate, LoadStudents, ReadRecords,
              FlipStatus, Present, UpsertFeedback, CheckReview, CheckPresentation,
              WritePool, ReadStudent, FindCertRequest, CreateCertRequest, UpdateStudent,
              BulkStatus, Select
      <4>2. QED
        BY <1>2, <3>1, <4>1
    <3>4. QED
      BY <3>2, <3>3
  <2>3. QED
    BY <2>1, <2>2
<1>3. QED
  BY <1>0, <1>1, <1>2 DEF RequestInv

-----------------------------------------------------------------------------
(* The pool's gates. *)

LEMMA GateStep ==
  ASSUME Types, ShapeInv, ClockInv, GateInv, use' = use, NEW c \in Calls, Step(c)
  PROVE  GateInv'
<1> SUFFICES ASSUME Gated PROVE GateInv'
  BY DEF GateInv, Gated
<1>0. \A d \in Calls : call[d] \in CallState /\ CallOK(call[d])
  BY DEF Types, ShapeInv
<1>1. ~UpdateStudent(c)
  BY <1>0 DEF UpdateStudent, At, CallOK, Gated
<1>2. track' = track /\ (presented => presented')
  BY <1>1 DEF Step, Login, WriteLogin, MarkAttendance, Activate, LoadStudents,
      ReadRecords, FlipStatus, Present, UpsertFeedback, CheckReview, CheckPresentation,
      WritePool, ReadStudent, FindCertRequest, CreateCertRequest, ReadToEdit, BulkStatus,
      Select, student, review
<1>3. clock' = clock \/ WritePool(c)
  BY <1>1 DEF Step, Login, WriteLogin, MarkAttendance, Activate, LoadStudents,
      ReadRecords, FlipStatus, Present, UpsertFeedback, CheckReview, CheckPresentation,
      ReadStudent, FindCertRequest, CreateCertRequest, ReadToEdit, BulkStatus,
      Select, student, review
<1>4. clock # 0 => clock' # 0
  BY <1>3 DEF WritePool, ClockInv
<1>5. ASSUME status' = "IN_PLACEMENT"
      PROVE  clock' # 0 /\ (track' = "PT" \/ presented')
  <2>1. CASE status = "IN_PLACEMENT"
    BY <1>2, <1>4, <2>1 DEF GateInv
  <2>2. CASE status # "IN_PLACEMENT"
    <3>1. WritePool(c)
      BY <1>1, <1>5, <2>2, PoolEntry
    <3>2. (call[c].starts \/ clock # 0) /\ (track = "PT" \/ presented)
      BY <3>1 DEF GateInv, WritePool
    <3>3. clock' # 0
      BY <1>4, <3>1, <3>2 DEF WritePool, Started, ClockInv
    <3>4. QED
      BY <1>2, <3>2, <3>3
  <2>3. QED
    BY <2>1, <2>2
<1>6. ASSUME NEW d \in Calls
      PROVE  /\ call'[d].pc \in {"presentation", "write"} =>
                  call'[d].track = track' /\ (call'[d].starts \/ clock' # 0)
             /\ call'[d].pc = "write" => track' = "PT" \/ presented'
             /\ call'[d].pc = "student" => presented'
  <2>1. CASE call'[d] = call[d]
    BY <1>2, <1>4, <2>1 DEF GateInv
  <2>2. CASE call'[d] # call[d]
    <3>1. d = c /\ ~UNCHANGED call
      BY <2>2, OthersStay
    <3>2. CASE \E op \in PushOps : ReadStudent(c, op) /\ MayMove(op)
      <4>1. PICK op \in PushOps, pc \in {"presentation", "write"} :
              /\ call' = [call EXCEPT ![c] = Seen(op, pc)] /\ ReadStudent(c, op)
              /\ pc = "write" => op \in {"pushToPlacement", "pushByCodes"}
        BY <3>2 DEF ReadStudent, PushOps
      <4>2. /\ call'[c].pc = pc /\ call'[c].track = track
            /\ call'[c].starts <=> clock = 0
        BY <4>1 DEF Seen, Idle, Types
      <4>3. op # "pushByCodes"
        BY <1>0, <4>1 DEF ReadStudent, At, Free, Gated
      <4>4. pc = "write" => presented
        BY <4>1, <4>3 DEF ReadStudent, At, GateInv
      <4>5. clock' = clock
        BY <4>1 DEF ReadStudent, student
      <4>6. QED
        BY <1>2, <3>1, <4>1, <4>2, <4>4, <4>5
    <3>3. CASE CheckPresentation(c)
      <4>1. CASE Ended(c)
        BY <3>1, <4>1, EndedStep DEF Idle
      <4>2. CASE Goes(c, "write")
        <5>1. /\ call'[c].track = call[c].track /\ call'[c].starts = call[c].starts
              /\ call'[c].pc = "write" /\ call[c].pc = "presentation"
          BY <3>3, <4>2, GoesStep DEF CheckPresentation
        <5>2. call[c].track = "PT" \/ presented
          BY <3>3, <3>1, <4>2, <5>1, EndedStep DEF CheckPresentation, PresentedOr, Idle
        <5>3. QED
          BY <1>2, <1>4, <3>1, <5>1, <5>2 DEF GateInv
      <4>3. QED
        BY <3>3, <4>1, <4>2 DEF CheckPresentation
    <3>4. CASE CheckReview(c)
      <4>1. call'[c].pc = "student" /\ presented
        BY <3>4 DEF CheckReview, Types, Idle
      <4>2. QED
        BY <1>2, <3>1, <4>1
    <3>5. CASE /\ ~CheckReview(c) /\ ~CheckPresentation(c)
               /\ ~\E op \in PushOps : ReadStudent(c, op) /\ MayMove(op)
      <4>1. ASSUME NEW op, NEW pc, call' = [call EXCEPT ![c] = Seen(op, pc)]
            PROVE  call'[c].pc = pc
        BY <4>1 DEF Seen, Idle, Types
      <4>2. \A pc : Goes(c, pc) => call'[c].pc = pc
        BY GoesStep
      <4>3. Ended(c) => call'[c].pc = "idle"
        BY EndedStep DEF Idle
      <4>4. ASSUME NEW e \in Days, MarkAttendance(c, e)
            PROVE  call'[c].pc = "activate"
        BY <4>4 DEF MarkAttendance, Types, Idle
      <4>5. ReadRecords(c) /\ ~Ended(c) => call'[c].pc = "flip"
        BY DEF ReadRecords, Types, CallState
      <4>6. call'[c].pc \notin {"presentation", "write", "student"}
        BY <1>1, <3>1, <3>5, <4>1, <4>2, <4>3, <4>4, <4>5
        DEF Step, Login, WriteLogin, Activate, LoadStudents, ReadRecords, FlipStatus,
            Present, UpsertFeedback, WritePool, ReadStudent, FindCertRequest,
            CreateCertRequest, ReadToEdit, BulkStatus, Select
      <4>7. QED
        BY <3>1, <4>6
    <3>6. QED
      BY <3>2, <3>3, <3>4, <3>5
  <2>3. QED
    BY <2>1, <2>2
<1>7. QED
  BY <1>5, <1>6 DEF GateInv

LEMMA TransferStep ==
  ASSUME Types, ShapeInv, TransferInv, use' = use, NEW c \in Calls, Step(c)
  PROVE  TransferInv'
<1> SUFFICES ASSUME use.ops \cap ByHand = {} PROVE status' # "BATCH_TRANSFER"
  BY DEF TransferInv
<1>1. /\ status # "BATCH_TRANSFER" /\ CallOK(call[c])
      /\ "updateStudent" \notin use.ops /\ "bulkStatus" \notin use.ops
  BY DEF TransferInv, ByHand, ShapeInv
<1>2. ~UpdateStudent(c) /\ ~BulkStatus(c)
  BY <1>1 DEF CallOK, UpdateStudent, BulkStatus, At, Free
<1>3. QED
  BY <1>1, <1>2
  DEF Step, Login, WriteLogin, MarkAttendance, Activate, Activated, LoadStudents,
      ReadRecords, FlipStatus, Present, UpsertFeedback, CheckReview, CheckPresentation,
      WritePool, ReadStudent, FindCertRequest, CreateCertRequest, ReadToEdit, Select,
      student, CallOK, At, Synced

-----------------------------------------------------------------------------
(* One call at a time. *)

(* Whoever moves is the only one. *)
LEMMA Alone ==
  ASSUME Types, ShapeInv, SerialInv, use.serial, NEW c \in Calls, Step(c)
  PROVE  \A d \in Calls \ {c} : call[d] = Idle /\ call'[d] = Idle
<1>1. Quiet \/ call[c].pc # "idle"
  BY DEF Step, Login, WriteLogin, MarkAttendance, Activate, LoadStudents, ReadRecords,
      FlipStatus, Present, UpsertFeedback, CheckReview, CheckPresentation, WritePool,
      ReadStudent, FindCertRequest, CreateCertRequest, ReadToEdit, UpdateStudent,
      BulkStatus, Select, At, Free
<1>2. \A d \in Calls \ {c} : call[d].pc = "idle"
  BY <1>1 DEF Quiet, SerialInv
<1>3. \A d \in Calls \ {c} : call[d] = Idle
  BY <1>2 DEF ShapeInv, CallOK
<1>4. QED
  BY <1>3, OthersStay

LEMMA SerialStep ==
  ASSUME Types, ShapeInv, SerialInv, use' = use, NEW c \in Calls, Step(c)
  PROVE  SerialInv'
<1> SUFFICES ASSUME use.serial PROVE SerialInv'
  BY DEF SerialInv
<1>0. StillTrue(c) /\ call[c] \in CallState
  BY DEF SerialInv, Types
<1>1. StillTrue(c)'
  <2>1. CASE Ended(c)
    BY <2>1, EndedStep DEF StillTrue, Idle
  <2>2. CASE Login(c) \/ LoadStudents(c) \/ ReadToEdit(c)
    <3>1. PICK op, pc : /\ call' = [call EXCEPT ![c] = Seen(op, pc)] /\ UNCHANGED student
                        /\ \/ pc = "login" /\ status = "ENROLLED"
                           \/ pc = "records" /\ status \in Synced
                           \/ pc = "edit"
      BY <2>2 DEF Login, FirstLogin, LoadStudents, ReadToEdit
    <3>2. call'[c].pc = pc /\ call'[c].track = track /\ (call'[c].starts <=> clock = 0)
      BY <3>1 DEF Seen, Idle, Types
    <3>3. QED
      BY <3>1, <3>2 DEF StillTrue, student
  <2>3. CASE \E op \in PushOps : ReadStudent(c, op)
    <3>1. PICK op \in PushOps : ReadStudent(c, op)
      BY <2>3
    <3>2. CASE ~MayMove(op)
      BY <2>1, <3>1, <3>2 DEF ReadStudent
    <3>3. CASE MayMove(op)
      <4>1. PICK pc \in {"presentation", "write"} :
              call' = [call EXCEPT ![c] = Seen(op, pc)]
        BY <3>1, <3>3 DEF ReadStudent
      <4>2. /\ call'[c].pc = pc /\ call'[c].op = op /\ call'[c].track = track
            /\ call'[c].starts <=> clock = 0
        BY <4>1 DEF Seen, Idle, Types
      <4>3. QED
        BY <3>1, <3>3, <4>1, <4>2 DEF StillTrue, ReadStudent, MayMove, student
    <3>4. QED
      BY <3>2, <3>3
  <2>4. CASE ReadRecords(c) /\ ~Ended(c)
    <3>1. call'[c].pc = "flip" /\ UNCHANGED student /\ call[c].pc = "records"
      BY <2>4, <1>0 DEF ReadRecords, Types, CallState, At
    <3>2. QED
      BY <1>0, <3>1 DEF StillTrue, student
  <2>5. CASE CheckPresentation(c) /\ ~Ended(c)
    <3>1. /\ call'[c].pc = "write" /\ call'[c].op = call[c].op
          /\ call'[c].starts = call[c].starts
          /\ UNCHANGED student /\ call[c].pc = "presentation"
      BY <2>5, GoesStep DEF CheckPresentation
    <3>2. QED
      BY <1>0, <3>1 DEF StillTrue, student
  <2>6. ASSUME NEW pc \in {"cert", "insert"}, Goes(c, pc)
        PROVE  StillTrue(c)'
    BY <2>6, GoesStep DEF StillTrue
  <2>7. CASE CheckReview(c) \/ \E d \in Days : MarkAttendance(c, d)
    <3>1. call'[c].pc \in {"student", "activate"}
      BY <2>7 DEF CheckReview, MarkAttendance, Types, Idle
    <3>2. QED
      BY <3>1 DEF StillTrue
  <2>8. CASE Present(c) \/ UpsertFeedback(c) \/ BulkStatus(c) \/ Select(c)
    <3>1. call'[c].pc = "idle"
      BY <2>8 DEF Present, UpsertFeedback, BulkStatus, Select, Free, Quiet
    <3>2. QED
      BY <3>1 DEF StillTrue
  <2>9. QED
    BY <2>1, <2>2, <2>3, <2>4, <2>5, <2>6, <2>7, <2>8
    DEF Step, WriteLogin, Activate, FlipStatus, WritePool, FindCertRequest,
        CreateCertRequest, UpdateStudent, ReadRecords, CheckPresentation
<1>2. \A d \in Calls \ {c} : call'[d].pc = "idle"
  BY Alone DEF Idle
<1>3. \A d \in Calls \ {c} : StillTrue(d)'
  BY <1>2 DEF StillTrue
<1>4. QED
  BY <1>1, <1>2, <1>3 DEF SerialInv

-----------------------------------------------------------------------------
(* The theorems. *)

LEMMA IInvInit == Init => IInv
<1> SUFFICES ASSUME Init PROVE IInv
  OBVIOUS
<1>1. Types
  <2>1. Idle \in CallState
    BY DEF Init, Idle, AnyTrack, CallState, Status
  <2>2. QED
    BY <2>1 DEF Init, Types, Status, Mark
<1>2. \A c \in Calls : call[c] = Idle /\ call[c].pc = "idle" /\ ~call[c].starts
  BY DEF Init, Idle
<1>3. ShapeInv
  BY <1>1, <1>2, IdleOK DEF ShapeInv
<1>4. Starters = {}
  BY <1>2 DEF Starters
<1>5. ClockInv /\ clock \in 0 .. Cardinality(Calls)
  <2>1. clock \in {0, 1}
    BY DEF Init
  <2>2. QED
    BY <1>4, <2>1, CallsCount, FS_EmptySet DEF ClockInv
<1>6. RequestInv /\ GateInv
  BY <1>2 DEF Init, RequestInv, GateInv
<1>7. SerialInv /\ TransferInv
  BY <1>2 DEF Init, SerialInv, StillTrue, TransferInv
<1>8. QED
  BY <1>1, <1>3, <1>5, <1>6, <1>7 DEF IInv, TypeOK, Types

LEMMA IInvStutter == IInv /\ UNCHANGED vars => IInv'
<1> SUFFICES ASSUME IInv, UNCHANGED vars PROVE IInv'
  OBVIOUS
<1>1. Starters' = Starters
  BY DEF Starters, vars
<1>2. QED
  BY <1>1 DEF IInv, vars, student, review, TypeOK, ShapeInv, CallOK, ClockInv, RequestInv,
         Requesting, GateInv, Gated, SerialInv, StillTrue, TransferInv

LEMMA IInvStep == IInv /\ [Next]_vars => IInv'
<1>1. ASSUME IInv, Next PROVE IInv'
  <2>1. PICK c \in Calls : use' = use /\ Step(c)
    BY <1>1, NextIsStep
  <2>2. Types
    BY <1>1 DEF IInv, TypeOK, Types
  <2>3. QED
    BY <1>1, <2>1, <2>2, TypeOKStep, RequestStep, GateStep, TransferStep, SerialStep
    DEF IInv
<1>2. QED
  BY <1>1, IInvStutter

LEMMA IInvHolds == Spec => []IInv
BY IInvInit, IInvStep, PTL DEF Spec

(* Every variable of the student's path keeps its type; the clock never    *)
(* starts more often than calls overlap.                                   *)
THEOREM PathTyped == Spec => []TypeOK
<1>1. IInv => TypeOK
  BY DEF IInv
<1>2. QED
  BY <1>1, IInvHolds, PTL

(* Whoever is in the pool came in through its gates, however the pushes    *)
(* overlap, and once no call is under way has the certificate request the  *)
(* office approves, whatever endpoints raced (pushToPlacement,             *)
(* pushToPlacements, bulkUpdateStudentStatus, pushByCodes).                *)
THEOREM PoolHasGates == Spec => []PoolEntered
<1>1. IInv => PooledProperly
  BY DEF IInv, GateInv, Gated, PooledProperly
<1>2. IInv => PooledHasRequest
  BY DEF IInv, RequestInv, Requesting, PooledHasRequest, Quiet
<1>3. QED
  BY <1>1, <1>2, IInvHolds, PTL DEF PoolEntered

(* One call at a time, the 90 days of a student in the pool never start    *)
(* again: the call that started them had read movedToPlacementAt as null.  *)
THEOREM ClockStartsOnce == Spec => ClockKept
<1>1. ASSUME IInv, Next, use.serial, clock # 0 PROVE clock' = clock
  <2>1. PICK c \in Calls : Step(c)
    BY <1>1, NextIsStep
  <2>2. call[c].pc \in {"write", "edit"} => ~call[c].starts
    BY <1>1 DEF IInv, SerialInv, StillTrue
  <2>3. QED
    BY <2>1, <2>2
    DEF Step, Login, WriteLogin, MarkAttendance, Activate, LoadStudents, ReadRecords,
        FlipStatus, Present, UpsertFeedback, CheckReview, CheckPresentation, WritePool,
        Started, ReadStudent, FindCertRequest, CreateCertRequest, ReadToEdit,
        UpdateStudent, BulkStatus, Select, At, student
<1>2. IInv /\ [Next]_vars => [use.serial /\ clock # 0 => clock' = clock]_vars
  BY <1>1 DEF vars, student
<1>3. QED
  BY <1>2, IInvHolds, PTL DEF Spec, ClockKept

LEMMA RankIs ==
  /\ Rank["ENROLLED"] = 0 /\ Rank["ONBOARDED"] = 1 /\ Rank["ACTIVE"] = 2
  /\ Rank["INACTIVE"] = 2 /\ Rank["COMPLETED"] = 3 /\ Rank["IN_PLACEMENT"] = 4
  /\ Rank["PLACED"] = 5 /\ Rank["BATCH_TRANSFER"] = 6
BY DEF Rank

(* One call at a time, sign-in, attendance, the sync, the pushes and the   *)
(* offers only move a student forward, and nobody moves a JRP student into *)
(* the pool.                                                               *)
THEOREM StatusMovesForward == Spec => MovesForward
<1>1. ASSUME IInv, Next, use.serial, use.ops \cap ByHand = {}
      PROVE  Rank[status'] >= Rank[status]
  <2>1. PICK c \in Calls : Step(c)
    BY <1>1, NextIsStep
  <2>2. /\ status \in Status /\ status # "BATCH_TRANSFER"
        /\ CallOK(call[c]) /\ StillTrue(c)
        /\ use.ops \cap {"updateStudent", "bulkStatus", "bulkPush"} = {}
    BY <1>1 DEF IInv, TypeOK, TransferInv, ShapeInv, SerialInv, ByHand
  <2>3. ~UpdateStudent(c) /\ ~BulkStatus(c)
    BY <2>2 DEF CallOK, UpdateStudent, BulkStatus, At, Free
  <2>4. CASE status' = status
    BY <2>2, <2>4, RankIs DEF Status
  <2>5. CASE WriteLogin(c)
    <3>1. status = "ENROLLED" /\ status' = "ONBOARDED"
      BY <2>2, <2>5 DEF WriteLogin, At, StillTrue
    <3>2. QED
      BY <3>1, RankIs
  <2>6. CASE Activate(c)
    <3>1. \/ status' = status
          \/ status \in {"ENROLLED", "ONBOARDED"} /\ status' = "ACTIVE"
      BY <2>6 DEF Activate, Activated
    <3>2. QED
      BY <2>4, <3>1, RankIs
  <2>7. CASE FlipStatus(c)
    <3>1. status \in Synced /\ status' \in Synced
      BY <2>2, <2>7 DEF FlipStatus, At, StillTrue, CallOK
    <3>2. QED
      BY <3>1, RankIs DEF Synced
  <2>8. CASE WritePool(c)
    <3>1. status' = "IN_PLACEMENT" /\ status # "PLACED"
      BY <2>2, <2>8 DEF WritePool, StillTrue, CallOK
    <3>2. QED
      BY <2>2, <3>1, RankIs DEF Status
  <2>9. CASE Select(c)
    <3>1. status' = "PLACED"
      BY <2>9 DEF Select
    <3>2. QED
      BY <2>2, <3>1, RankIs DEF Status
  <2>10. QED
    BY <2>1, <2>3, <2>4, <2>5, <2>6, <2>7, <2>8, <2>9
    DEF Step, Login, MarkAttendance, LoadStudents, ReadRecords, Present, UpsertFeedback,
        CheckReview, CheckPresentation, ReadStudent, FindCertRequest, CreateCertRequest,
        ReadToEdit, student
<1>2. ASSUME IInv, Next, use.serial, status # "IN_PLACEMENT", status' = "IN_PLACEMENT"
      PROVE  track' # "JRP"
  <2>1. PICK c \in Calls : Step(c)
    BY <1>2, NextIsStep
  <2>2. Types /\ ShapeInv /\ StillTrue(c)
    BY <1>2 DEF IInv, TypeOK, Types, SerialInv
  <2>3. CASE WritePool(c)
    BY <2>2, <2>3 DEF WritePool, StillTrue
  <2>4. CASE UpdateStudent(c)
    BY <1>2, <2>2, <2>4, TracksKnown DEF UpdateStudent, At, StillTrue, student
  <2>5. QED
    BY <1>2, <2>1, <2>2, <2>3, <2>4, PoolEntry
<1>3. IInv /\ [Next]_vars =>
        [use.serial /\ use.ops \cap ByHand = {} => Rank[status'] >= Rank[status]]_vars
  BY <1>1
<1>4. IInv /\ [Next]_vars =>
        [use.serial /\ status # "IN_PLACEMENT" /\ status' = "IN_PLACEMENT"
           => track' # "JRP"]_vars
  BY <1>2
<1>5. QED
  BY <1>3, <1>4, IInvHolds, PTL DEF Spec, MovesForward, OnlyForward, JrpStaysOut

=============================================================================
