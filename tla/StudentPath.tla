----------------------------- MODULE StudentPath ----------------------------
(***************************************************************************)
(* The status of one student, from the first login to the placement pool   *)
(* and an offer: who moves it, and what has to be true first.  Sign-in,    *)
(* the trainer, the production and placement managers and the daily sync   *)
(* each read the student in one statement and write it in a later one.     *)
(***************************************************************************)
EXTENDS Integers, FiniteSets

CONSTANTS
  Calls,   \* how many calls may be in flight at once
  Uses,    \* ways the endpoints may be used: see use
  Days,    \* training days
  Tracks   \* tracks a student may be on

PushOps == {"pushToPlacement", "pushToPlacements", "bulkPush", "pushByCodes"}
ByHand == {"updateStudent", "bulkStatus", "bulkPush"}
Op == PushOps \cup ByHand \cup {"login", "markAttendance", "sync",
                                "markPresentation", "upsertFeedback", "select"}

ASSUME DaysFinite == IsFiniteSet(Days)
ASSUME CallsFinite == IsFiniteSet(Calls) /\ Calls # {}
ASSUME UsesShape == Uses \subseteq [serial : BOOLEAN, ops : SUBSET Op]
ASSUME TracksKnown == Tracks \subseteq {"JRP", "IOP", "PAP", "PT"}

Status == {"ENROLLED", "ONBOARDED", "ACTIVE", "INACTIVE", "COMPLETED",
           "IN_PLACEMENT", "PLACED", "BATCH_TRANSFER"}

VARIABLES
  use,           \* of this behaviour: the endpoints in use, and whether
                 \* one call at a time; never changes
  status, track, \* of the Student row
  clock,         \* how often movedToPlacementAt was started; 0: null
  marks,         \* StudentAttendance per day
  presented,     \* TrainerFeedback.presentationDone
  eligible,      \* TrainerFeedback.certificateEligible
  enrolled,      \* the student has an enrolment; Enrolment models them
  certRequest,   \* the COURSE_COMPLETION certificate request exists
  call           \* the calls in flight

student == <<status, track, clock>>
review == <<presented, eligible>>
vars == <<use, student, marks, review, enrolled, certRequest, call>>

Mark == {"none", "PRESENT", "ABSENT"}
CallState == [pc : {"idle", "login", "activate", "records", "flip", "student",
                    "presentation", "write", "edit", "cert", "insert"},
              op : Op \cup {"none"}, st : Status, track : Tracks,
              starts : BOOLEAN]

TypeOK ==
  /\ use \in Uses /\ status \in Status /\ track \in Tracks /\ clock \in 0 .. Cardinality(Calls)
  /\ marks \in [Days -> Mark]
  /\ presented \in BOOLEAN /\ eligible \in BOOLEAN
  /\ enrolled \in BOOLEAN /\ certRequest \in BOOLEAN
  /\ call \in [Calls -> CallState]

AnyTrack == CHOOSE t \in Tracks : TRUE
Idle == [pc |-> "idle", op |-> "none", st |-> "ENROLLED", track |-> AnyTrack,
         starts |-> FALSE]

(* A student just created: enrolled in a sub-batch, or, on the PT track,   *)
(* put straight into the pool without one.                                 *)
Init ==
  /\ use \in Uses
  /\ track \in Tracks
  /\ IF track = "PT" THEN status = "IN_PLACEMENT" /\ clock = 1 /\ enrolled = FALSE
                     ELSE status = "ENROLLED" /\ clock = 0 /\ enrolled = TRUE
  /\ marks = [d \in Days |-> "none"]
  /\ presented = FALSE /\ eligible = FALSE /\ certRequest = FALSE
  /\ call = [c \in Calls |-> Idle]

Quiet == \A c \in Calls : call[c].pc = "idle"

Free(c, op) == /\ op \in use.ops
               /\ IF use.serial THEN Quiet ELSE call[c].pc = "idle"
At(c, op, pc) == call[c].op = op /\ call[c].pc = pc
Goes(c, pc) == call' = [call EXCEPT ![c].pc = pc]
Ended(c) == call' = [call EXCEPT ![c] = Idle]

(* A call that has read the student row. *)
Seen(op, pc) == [Idle EXCEPT !.op = op, !.pc = pc, !.st = status,
                             !.track = track, !.starts = (clock = 0)]

-----------------------------------------------------------------------------
(* Sign-in, attendance and the daily sync.                                 *)

FirstLogin(st) == st = "ENROLLED"

Login(c) ==
  /\ Free(c, "login") /\ FirstLogin(status)
  /\ call' = [call EXCEPT ![c] = Seen("login", "login")]
  /\ UNCHANGED <<student, marks, review, enrolled, certRequest>>

WriteLogin(c) ==
  /\ At(c, "login", "login")
  /\ status' = "ONBOARDED" /\ Ended(c)
  /\ UNCHANGED <<track, clock, marks, review, enrolled, certRequest>>

MarkAttendance(c, d) ==
  /\ Free(c, "markAttendance") /\ enrolled
  /\ \E m \in {"PRESENT", "ABSENT"} : marks' = [marks EXCEPT ![d] = m]
  /\ call' = [call EXCEPT ![c] = [Idle EXCEPT !.op = "markAttendance",
                                              !.pc = "activate"]]
  /\ UNCHANGED <<student, review, enrolled, certRequest>>

\* Mutant: marking attendance makes everybody ACTIVE.
ActivatedAlways(st) == "ACTIVE"

(* updateMany with the status in its where: one statement. *)
Activated(st) == IF st \in {"ENROLLED", "ONBOARDED"} THEN "ACTIVE" ELSE st

Activate(c) ==
  /\ At(c, "markAttendance", "activate")
  /\ status' = Activated(status) /\ Ended(c)
  /\ UNCHANGED <<track, clock, marks, review, enrolled, certRequest>>

Synced == {"ACTIVE", "INACTIVE"}

LoadStudents(c) ==
  /\ Free(c, "sync") /\ status \in Synced
  /\ call' = [call EXCEPT ![c] = Seen("sync", "records")]
  /\ UNCHANGED <<student, marks, review, enrolled, certRequest>>

Marked(m) == Cardinality({d \in Days : marks[d] = m})
Total == Marked("PRESENT") + Marked("ABSENT")

\* Mutant: a student once INACTIVE is not brought back.
ByAttendanceOneWay(st) ==
  IF Total > 0 /\ Marked("PRESENT") * 100 < 60 * Total THEN "INACTIVE" ELSE st

(* Below 60 per cent INACTIVE, else ACTIVE; as it is without a record. *)
ByAttendance(st) ==
  IF Total = 0 THEN st
  ELSE IF Marked("PRESENT") * 100 < 60 * Total THEN "INACTIVE" ELSE "ACTIVE"

ReadRecords(c) ==
  /\ At(c, "sync", "records")
  /\ IF ByAttendance(call[c].st) = call[c].st THEN Ended(c)
     ELSE call' = [call EXCEPT ![c].pc = "flip", ![c].st = ByAttendance(@)]
  /\ UNCHANGED <<student, marks, review, enrolled, certRequest>>

FlipStatus(c) ==
  /\ At(c, "sync", "flip")
  /\ status' = call[c].st /\ Ended(c)
  /\ UNCHANGED <<track, clock, marks, review, enrolled, certRequest>>

-----------------------------------------------------------------------------
(* The trainer's review.  presentationDone is never taken back, so the     *)
(* check of upsertFeedback and its write are one step.                     *)

Present(c) ==
  /\ Free(c, "markPresentation") /\ enrolled
  /\ presented' = TRUE
  /\ UNCHANGED <<student, marks, eligible, enrolled, certRequest, call>>

UpsertFeedback(c) ==
  /\ Free(c, "upsertFeedback") /\ enrolled
  /\ \E e \in BOOLEAN : /\ e => presented
                        /\ eligible' = e
  /\ UNCHANGED <<student, marks, presented, enrolled, certRequest, call>>

-----------------------------------------------------------------------------
(* Four ways into the pool.                                                *)

(* The trainer's own push looks at the review before the student. *)
CheckReview(c) ==
  /\ Free(c, "pushToPlacement") /\ enrolled /\ presented /\ eligible
  /\ call' = [call EXCEPT ![c] = [Idle EXCEPT !.op = "pushToPlacement",
                                              !.pc = "student"]]
  /\ UNCHANGED <<student, marks, review, enrolled, certRequest>>

\* Mutant: any track goes to the pool.
MayMoveAnyTrack(op) == status \notin {"PLACED", "BATCH_TRANSFER"}

MayMove(op) ==
  /\ track # "JRP"
  /\ op = "pushToPlacements" => enrolled
  /\ op # "bulkPush" => status \notin {"PLACED", "BATCH_TRANSFER"}
  /\ op = "pushByCodes" => status # "IN_PLACEMENT"

ReadStudent(c, op) ==
  /\ IF op = "pushToPlacement" THEN At(c, op, "student") ELSE Free(c, op)
  /\ IF MayMove(op)
     THEN call' = [call EXCEPT ![c] =
            Seen(op, IF op \in {"pushToPlacements", "bulkPush"}
                     THEN "presentation" ELSE "write")]
     ELSE Ended(c)
  /\ UNCHANGED <<student, marks, review, enrolled, certRequest>>

\* Mutant: the presentation is not asked for.
PresentedOrAny(t) == TRUE

PresentedOr(t) == t = "PT" \/ presented

CheckPresentation(c) ==
  /\ call[c].pc = "presentation"
  /\ IF PresentedOr(call[c].track) THEN Goes(c, "write") ELSE Ended(c)
  /\ UNCHANGED <<student, marks, review, enrolled, certRequest>>

\* Mutant: the clock starts again with every push.
StartedAgain(c) == TRUE

(* movedToPlacementAt is set when it was read as null. *)
Started(c) == call[c].starts

WritePool(c) ==
  /\ call[c].pc = "write"
  /\ status' = "IN_PLACEMENT"
  /\ clock' = IF Started(c) THEN clock + 1 ELSE clock
  /\ Goes(c, "cert")
  /\ UNCHANGED <<track, marks, review, enrolled, certRequest>>

\* Mutant: the request is made only for a student with a review.
NeedsRequestEligible == ~certRequest /\ enrolled /\ eligible

NeedsRequest == ~certRequest /\ enrolled

(* ensureCourseCompletionCertRequest looks first; the unique key keeps a   *)
(* second request out and the refusal is swallowed.                        *)
FindCertRequest(c) ==
  /\ call[c].pc = "cert"
  /\ IF NeedsRequest THEN Goes(c, "insert") ELSE Ended(c)
  /\ UNCHANGED <<student, marks, review, enrolled, certRequest>>

CreateCertRequest(c) ==
  /\ call[c].pc = "insert"
  /\ certRequest' = TRUE /\ Ended(c)
  /\ UNCHANGED <<student, marks, review, enrolled>>

-----------------------------------------------------------------------------
(* Edits by hand and offers.                                               *)

ReadToEdit(c) ==
  /\ Free(c, "updateStudent")
  /\ call' = [call EXCEPT ![c] = Seen("updateStudent", "edit")]
  /\ UNCHANGED <<student, marks, review, enrolled, certRequest>>

(* Either of status and track may be left out of the edit: st keeps.  A    *)
(* status of COMPLETED starts the clock; IN_PLACEMENT does not.            *)
UpdateStudent(c) ==
  /\ At(c, "updateStudent", "edit")
  /\ \E st \in Status \cup {"keep"}, t \in Tracks \cup {"keep"} :
       LET sets == st # "keep"
           resulting == IF t = "keep" THEN call[c].track ELSE t
       IN  IF st = "IN_PLACEMENT" /\ resulting = "JRP"
           THEN Ended(c) /\ UNCHANGED student
           ELSE /\ status' = IF sets THEN st ELSE status
                /\ track' = IF t = "keep" THEN track ELSE t
                /\ clock' = IF /\ st = "COMPLETED" /\ call[c].st # "COMPLETED"
                               /\ call[c].starts
                            THEN clock + 1 ELSE clock
                /\ IF st = "IN_PLACEMENT" /\ call[c].st # "IN_PLACEMENT"
                   THEN Goes(c, "cert") ELSE Ended(c)
  /\ UNCHANGED <<marks, review, enrolled, certRequest>>

(* bulkUpdateStudentStatus to anything but IN_PLACEMENT. *)
BulkStatus(c) ==
  /\ Free(c, "bulkStatus")
  /\ status' \in Status \ {"IN_PLACEMENT"}
  /\ UNCHANGED <<track, clock, marks, review, enrolled, certRequest, call>>

(* createResult or updateResult turns a result SELECTED. *)
Select(c) ==
  /\ Free(c, "select")
  /\ status' = "PLACED"
  /\ UNCHANGED <<track, clock, marks, review, enrolled, certRequest, call>>

Sync(c) == LoadStudents(c) \/ ReadRecords(c) \/ FlipStatus(c)

Next ==
  /\ use' = use
  /\ \E c \in Calls :
       \/ Login(c) \/ WriteLogin(c)
       \/ \E d \in Days : MarkAttendance(c, d)
       \/ Activate(c) \/ Sync(c)
       \/ Present(c) \/ UpsertFeedback(c)
       \/ CheckReview(c) \/ CheckPresentation(c) \/ WritePool(c)
       \/ \E op \in PushOps : ReadStudent(c, op)
       \/ FindCertRequest(c) \/ CreateCertRequest(c)
       \/ ReadToEdit(c) \/ UpdateStudent(c) \/ BulkStatus(c) \/ Select(c)

Spec == Init /\ [][Next]_vars

(* The sync job runs every day in the server itself, however many requests *)
(* arrive meanwhile: strong fairness, as the calls share the model's slots *)
(* and not the server's.  A call that has begun goes on.                   *)
FairSpec == /\ Spec
            /\ \A c \in Calls : /\ SF_vars(use' = use /\ Sync(c))
                              /\ WF_vars(use' = use /\ (Activate(c) \/ WriteLogin(c)))

-----------------------------------------------------------------------------
(* The properties.                                                         *)

Rank == [ENROLLED |-> 0, ONBOARDED |-> 1, ACTIVE |-> 2, INACTIVE |-> 2,
         COMPLETED |-> 3, IN_PLACEMENT |-> 4, PLACED |-> 5, BATCH_TRANSFER |-> 6]

(* Sign-in "never downgrades a student who has already progressed          *)
(* further", attendance marks are a no-op "once a student is ACTIVE (or    *)
(* beyond)", the sync "never touches" those outside ACTIVE and INACTIVE,   *)
(* and a push leaves the placed alone.  True of one call at a time, and of *)
(* the endpoints that do not just set what somebody chose.                 *)
OnlyForward ==
  [][use.serial /\ use.ops \cap ByHand = {}
       => Rank[status'] >= Rank[status]]_vars

(* movedToPlacementAt is write-once: the 90-day clock of a student already *)
(* in the pool never starts again, one call at a time.                     *)
ClockKept == [][use.serial /\ clock # 0 => clock' = clock]_vars

(* Whoever is in the pool has the clock running, and presented first:      *)
(* "project presentation - must be done ... before the student can be ...  *)
(* pushed to placement" (schema.prisma).  Not so of an edit by hand, which *)
(* starts no clock, nor of the push by codes, which asks for no            *)
(* presentation; of the others however they overlap.                       *)
PooledProperly ==
  /\ status = "IN_PLACEMENT"
  /\ use.ops \cap {"updateStudent", "pushByCodes"} = {}
  => clock # 0 /\ (track = "PT" \/ presented)

(* "JRP is course-only, non-placement": no endpoint moves a student on     *)
(* that track into the pool, one call at a time.                           *)
JrpStaysOut ==
  [][use.serial /\ status # "IN_PLACEMENT" /\ status' = "IN_PLACEMENT"
       => track' # "JRP"]_vars

(* "Course Completion certificate requests start their approval clock the  *)
(* moment a student actually lands in the pool" (placements.controller),   *)
(* whatever calls race for it.                                             *)
PooledHasRequest ==
  Quiet /\ status = "IN_PLACEMENT" /\ enrolled => certRequest

(* Whoever is in the pool came in through its gates and left the request   *)
(* the office approves.                                                    *)
PoolEntered == PooledProperly /\ PooledHasRequest

(* A status is left only for a later one, the pool's by whoever may enter. *)
MovesForward == OnlyForward /\ JrpStaysOut

(* Once attendance is no longer marked, the sync settles: an ACTIVE or     *)
(* INACTIVE student whom nobody else moves ends on the side of 60 per cent *)
(* where the records are, overlapping runs and stale decisions or not.     *)
SyncSettles ==
  use.ops = {"login", "markAttendance", "sync"} /\ <>[][UNCHANGED marks]_vars
    => <>[](status \in Synced /\ Total > 0
              => (status = "INACTIVE" <=> Marked("PRESENT") * 100 < 60 * Total))
=============================================================================
