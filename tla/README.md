# Verification of vinsource-backend

vinsource-backend is the Express/Prisma server of a training company: it sells
courses (leads, admissions, fees), runs them (sub-batches, enrolments, classes,
trainers), places the students, and manages its own staff (attendance, leave,
payroll, exit). Every operation is an HTTP endpoint or a job of `server.ts`.
One Node process answers them; a handler runs until its next `await` on the
MySQL database, so **two endpoint calls interleave between database
statements**, and only what happens inside `prisma.$transaction` with a
`FOR UPDATE` read, or under a unique key, is protected from that.

The modules here treat every call as a process whose steps are its database
statements. What a call has read is kept in its record and used in later
steps, as the handler does. The questions asked are: which promises hold
however calls overlap, and which hold only for one call at a time.

## Inventory

| Component | State | Operations | What is hard, what must hold | Module |
|---|---|---|---|---|
| Admission seats (`admissionFeeEngine`, `admission.controller`) | capacity, mode and held columns of `BatchCourseSchedule`; `SeatHoldRequest`; a seat is a confirmed `FeePaymentPlan` | admit, hold seats, request a held seat, approve/reject, edit the row, delete a plan | last seat sold twice; counts read without the lock; answers checked before the lock. Booked + held never exceed the capacity in force | `Seats`, `SeatPool` |
| Fee plans (`financeSales`, `salesOnboarding`, `feeReminder`, `salesFlow`) | plan, `FeeInstallment`, `FeeCollection` ledger, refund and deletion requests, lead stage | submit, collect, approve, reject, waive, remove, cancel, refund, delete, undo; the daily reminder sweep | check-then-write on an instalment; one receipt number twice; stale lists. Money counts once, after Admin's approval, and for good | `FeePlan`, `FeeLedger` |
| Student lifecycle (`production`, `placements`, `trainerPortal`, `auth`, the status sync) | status, track, the placement clock, marks, review, certificate request | sign-in, class attendance, sync, review, four pushes, edits, offers | eight writers of one column. Nobody goes back; the 90-day clock starts once; the pool is entered properly | `StudentPath` |
| Enrolment (`production`, `transferBatch`) | `StudentBatchEnrollment`, `DoubleEnrollmentRequest` | enrol, move, transfer, set a status, bulk, approve, reject, open/delete a sub-batch | "live elsewhere" is read before the transaction. A second live enrolment needs an approval | `Enrolment` |
| Live classes (`liveClasses`, `liveKit`, part of `trainerPortal`) | `LiveClass`, participants, recordings, attendance | plan one, a series or a sheet, move, cancel; start, join, leave, remove, end, sync | calls and LiveKit's webhook in any order. Attendance is what the sessions say; one class a day in a series; no recording row left running | `LiveClass`, `Timetable` |
| Demo sit-ins (`demoSessions`) | `DemoSessionRequest` | ask, approve, reject, cancel, enter; the minute job | guests of a list loaded earlier. Nobody stays past the window | `SitIn` |
| Sales leads (`sales`, `leadDuplicates`, `salesFlow`, `salesWork`, `callTracking`, `myBase`) | leads, follow-ups, tasks | create, import, log, move, hand out, pull back, remove, merge | tasks repeat what leads say. Open tasks agree with leads; no two live leads with one phone | `LeadBook` |
| Sales demos (`sales`, `salesDemoRoom`) | demos, rooms, reminders | book, move, conduct, miss, reschedule; host, end, reopen; two minute jobs | the same, and jobs against calls. One reminder per slot; rooms are closed | `LeadBook`, `DemoBook` |
| Leads from Meta (`metaLeads`) | notifications and their attempts | notify, process, retry, reprocess, switch off | repeated, lost and retried deliveries, a stop. One lead per notification, which settles | `MetaLeads` |
| Transcripts (`transcription`, `transcripts`) | the queue | put in, run, rescue, again | a stop in the middle. What is queued is transcribed or given up | `Transcripts` |
| Tests (`trainerPortal`, `placementTraining`, `studentPortal`) | questions, release, attempt | author, release, start, answer, violate, submit, expire, reassign | timer, answers and violations of one attempt. What is graded stands | `Portal`, `Coursework` |
| Projects, forms, reminders (the same, `releaseReminder`) | submissions, responses, log | hand in, review, replace a form, answer, remind | reviewed is not what was seen; mailed twice | `Coursework` |
| Portfolios and certificates (`portfolio`, `certificateRequests`, `certificate`, `batchCertificate`) | portfolio, request, two histories of numbers | submit, approve twice, number, delete, make by hand, a batch | numbers by count; two approvals | `Certificates` |
| Drives and offers (`placements`) | sessions, drive, shortlist, results | enlist, interview, record, select, delete | history of what is deleted; told once | `Drives` |
| Student intake and deletion (`production`) | `Student` and its `User`, `StudentDeletionLog` | create one, upload a sheet, ask for a deletion, reject or approve it, with force or without | records made between the look and the transaction; codes counted on from the rows there are. Everyone there has a login and a code of its own, who is gone leaves neither; no history goes unasked | `Intake` |
| Student onboarding (`studentOnboarding`, `onboardingStatus`) | templates, declarations, signatures, three flags | sign, declare, approve, take back, reject, change the track | flags beside what they sum up | `Signing` |
| Sign-in (`auth`, `studentDevice`, `middleware/auth`) | bound device, sessions, cache, reset link | sign in, refresh, out, device answers, forgot, reset | the cache; two devices at once | `SignIn` |
| Employee onboarding (`onboarding`, `employee`, `document`, `appointmentLetter`) | requests, logins, employees, documents, letters | file, approve, fill in, upload, verify, hand in, final word; bulk entry; draft, approve, mail | one approval is a transaction and a later statement; codes by maximum | `Joining` |
| Leave and comp off (`leave`, `compoff`, `employee.confirm`) | `LeaveBalance`, requests | apply, approve, reject, accrue, confirm, ask for and credit a comp off | no transaction anywhere. The balance equals what the requests say | `Leave` |
| Staff attendance (`attendance`, `attendanceRegularization`) | the day's row and its sessions, corrections | check in/out, WFH approval, corrections | three tables written in turn. Hours = closed sessions; corrected iff approved | `Attendance` |
| Finance administration (`financeAdmin`) | expenses and their audit log, vendors, templates, head office funds, budgets | file, edit, decide, delete; generate a month; ledger and balances | numbers by count, a template looked up before it is stamped, the log written after the row. Ledger and budgets are one account; the trail is a history | `Accounts` |
| Payroll and permission hours (`payroll`, `permission`) | the month's `Payroll` and `Payslip`s, `Permission` | process, approve; ask, answer | slips side by side from what changes meanwhile. Approved stays approved; each is told once | `Accounts` |
| Resignation and exit (`resignation`, `employee`) | `ResignationRequest`, `ExitClearance`, `Employee.status` | submit, two approvals, two rejections, initiate, two signatures, two refusals | the combined status is computed from the other side's old answer. Nobody leaves by an exit before both signed | `Exit` |
| Admission pricing and coupons | coupon usage, plan amounts | price, validate, record a usage | limit counted outside the transaction | planned |
| Everything else | | | reads, single-row writes, layout, wiring | not modelled; reasons in `PROJECT.json` |

How they interact: a lead (LeadBook, MetaLeads) gets demos and tasks; an
admission (Seats) makes a plan (FeePlan) and an enrolment (Enrolment); verified
money moves the lead; the student is entered with a login (Intake), signs (Signing), is approved and signs in
(SignIn), attends (LiveClass), sits tests and hands in projects
(Coursework), and attendance and review move it along (StudentPath) to the pool,
a certificate (Certificates) and an offer (Drives). An employee joins (Joining),
takes leave, attends and leaves; those four share the employee's
status, and payroll (Accounts) reads their attendance and leave, which there are
an input. Where components share rows that both write they are composed: `Sales`
(leads, demos, tasks), `Classroom` (classes, rooms), `Learning` (roster,
releases, certificate requests; readiness spans three of its parts). Where the coupling is one column read by the other side, the
module takes it as an input: FeePlan has the flag "an onboarding names this
plan", StudentPath has "the student has an enrolment", Leave has the employee's
status.

## The modules

`SeatPool` and `FeeLedger` say what seats and money promise, with no calls in
them; `Seats` and `FeePlan` are checked to implement them (`ImplementsPool`,
`ImplementsLedger`). All others model the code. Four compose: `Classroom`
(`LiveClass`, `SitIn`, `Timetable`), `Sales` (`LeadBook`, `DemoBook`, `MetaLeads`,
`Transcripts`), `Learning` (`Coursework`, `Certificates`, `Drives`, `Signing`,
`SignIn`, `Intake`) and `Staff` (`Joining`, `Leave`, `Attendance`, `Exit`). `Calling` is
what `Learning`, `Joining` and `Accounts` share: a call as the list of its statements.
`MC…` modules give the constants; `MCFinance` also puts the plan and the books
(`FeePlan`, `Accounts`), which share no row, side by side for one run. Proofs about a module `M` are in `M_proofs`: `Seats_proofs`,
`FeePlan_proofs`, `Enrolment_proofs`, `StudentPath_proofs`; those about the books, as
`MCFinance` composes them, are in `Books_proofs`; those about `Staff` and its
parts are in `Staff_proofs` (leave, attendance and the exit), in `Joining_proofs`
(typing and steps of joining and papers, the exit within the office) and in
`Desk_proofs` (what the tables of joining and papers say of each other).
`PROJECT.json` maps each definition to its lines.

Conventions common to the modules:

* **A call** is a record. In `Seats`, `FeePlan`, `StudentPath`, `Enrolment`,
  `LiveClass`, `SitIn`, `Timetable`, `MetaLeads`, `Leave`, `Attendance` and `Exit` it
  has a `pc` and what it read; in `LeadBook` and the modules over `Calling` it is
  the list of the statements still to run, each with what the reads before it
  found, since there many handlers call the same helpers. The first action of an
  operation is its reads and early returns, up to the first write or stale use;
  each later action is one write, or one transaction. A transaction whose reads
  are plain `SELECT`s has two steps, the snapshot and the commit (`Enrolment`), one
  that takes the row lock holds `lock` in between (`Seats`). A call that ends frees
  its slot, so two slots stand for any number of calls, two at a time.
* **`use`** (`duty` in `Staff`) is chosen in `Init` and never changes. It says which
  endpoints the behaviour uses, on how many rows, by one call at a time or by
  two, and which of them (`alone`) overlap nothing. A single run so explores
  several combinations, the *slices* of its `MC…` module, and a property the code
  keeps only for one call at a time, or only without one endpoint, says so in its
  premise: `Serial => …`, `Without({…}) => …`. These premises are findings about
  the code in themselves: each overlap they exclude is in the section "What
  overlapping calls do".
* **History variables** (`released`, `issued`, `applied`, `credited`, `cleared`,
  `mailed`, `sent`, `latest`, and the fields `seen`, `told`, `shots`, `uses`) record what
  has happened; no action rests on them.
* **Bounds** are constants named `Max…` or the sizes of row sets; where an action
  stops at one, the line says `bound`. Closed tasks give their place back, and
  counters of unanswered calls and of attempts stop at their limit, beyond which
  the code treats them alike.
* **Failure.** A call may be abandoned where the code can throw (a unique key, a
  row that is gone, a mail). `Seats` has `Rollback` at any point of a transaction.
  `Sales`, `Learning`, `Accounts` and `Staff` stop the process once, between any two statements
  (`Crash`): calls in flight, the flag that keeps two transcription runs apart and
  the remembered device are lost, the database stays. What comes back by itself
  is what the code repairs: the minute jobs, and the rescue of transcripts.
  Elsewhere a stop leaves what an interleaving leaves in the middle of a call.
  Meta's notifications come repeatedly or fail; LiveKit's webhook comes late.

Correspondence, in short:

* `Seats`: `ReadSchedule`/`LockForSeat`/`CountSeats`/`CommitAdmission` are
  `createAdmission` around `reserveSeat`; `ReadRequest`/`LockForRelease`/
  `ApproveSeatHoldRequest`/`RejectSeatHoldRequest` answer a hold request;
  `SetHeldSeats` is `setHeldSeats`; `ReadForEdit`/`CheckEdit`/`WriteEdit` are the two
  screens that edit a schedule (`updateBatchSchedule` checks a count first,
  Production's editor checks nothing). Seats are counted per delivery mode:
  `HYBRID` rows have an online and an offline pool. A row starts as either screen
  makes it (`CreateBatchSchedule`, `AddSchedule`).
* `FeePlan`: instalment calls read a row and write it later
  (`ReadInstallment`, `WriteInstallment`); an approval is
  `TakeReceiptNo` → `OpenApproval` → `CommitApproval` or `AbortApproval` (number
  taken) → `ReadStage` → `MoveLead`; the sweep is `LoadPending`, `FlipOverdue`
  one by one; plan-level requests are `ReadPlan`, `WritePlan`. An instalment is
  1, `TotalFee` counts instalments; amounts that differ are not modelled.
* `StudentPath`: one action per statement of each writer of `status`;
  `PushOps` are the four pushes with their different gates.
* `Enrolment`: `Snapshot`/`Commit` are the handlers' transactions,
  `CheckElsewhere` what they read before; requests are found and then created.
* `LiveClass`: `ReadClass` is what start, end, cancel and join read first;
  `GoLive` → `StartEgress` → `InsertRecording`; `TakeRole` → `CloseOwn` →
  `InsertSession`; `StopRecording` → `Complete` → `CloseRoom` → `CloseAll` →
  `ComputeAttendance`; `Webhook` is LiveKit's report, which finds the recording
  row or not. `Timetable` goes through the dates of a series one insert at a time.
  `SitIn` has the minute job as a list and a row at a time.
* `LeadBook` starts with `syncFollowUpTask`, `moveOpenTasks`, `upsertDemoTask`,
  `closeDemoTask`, `applyDemoOutcome` as sequences of statements; the rest of it and
  `DemoBook` are the handlers that call them. A stage is one of the groups the code tells apart.
  `MetaLeads` is `processLeadgen` step by step; `Transcripts` is `processPending`.
* `Coursework`, its tests: an attempt is a record; saving, the violation, submission
  and the poll read it and write later; the placement tests have the same actions
  under the side "session". Its projects count versions of what is handed in and seen.
  `Certificates` takes a number from the history in one step and writes in
  another; `Drives` is the roster of a session and the rows of one drive.
* `Signing`: `Required` is `getOnboardingStatus`; the flags are written by calls that
  counted before. `SignIn`: `TakeOver`, `SignOut` (the sessions), `Invalidate…` and
  `OpenSession` are `login` in its order; `Remember` is the cache's write.
* `Intake`: `EnterStudent` is `createStudent`'s one write, `CountStudents`, `ReadRow`,
  `EnterRow`, `EnrolRow` a sheet row by row (a row that fails is passed over);
  `InspectRecords` → `PerformStudentDelete` is the look and the transaction of an
  approved deletion, which a foreign key may refuse (`Protected`).
* `Accounts`: `NumberVoucher` → `FileExpense`; `Snapshot` → `Rewrite` or `EraseExpense` →
  `WriteLog`; `ReadTemplates` → `LookForStamp` → `Stamp` for each template; `OpenPayroll`
  → `ReadEmployees` → `ReadAttendance`, `WritePayslip` per employee in any order →
  `FinishPayroll`; `WriteApproval` → `TellEmployee`; `WriteAnswer` → `NotifyAnswer`.
  Ledger, budgets and balances are operators over the rows, as the pages compute them.
* `Joining`: `ApproveOnboarding` is the look-up, the student's login that goes, the
  transaction, and the link; `SheetRow`, `CreateLogin` and `EmployRow` are one row of
  a sheet. Documents and letters of the same people are its second half.
* `Leave`: `CheckBalance` → `CreateRequest` → `ReservePending`; `ReadRequest` →
  `WriteStatus` → `MoveBalance`; accrual, confirmation and comp off credit share
  the lookup-then-increment-or-insert of a balance row, whose unique key
  refuses the second insert (`InsertRefused`).
* `Attendance`: time is a small clock; a check-in writes the row, then the
  session; a check-out finds the open session, closes it and adds it up.
* `Exit`: the two sides run the same actions with `side` as a parameter; the
  differences of the two handlers (who needs to be the row's manager, whose
  proposed day counts) are in `Mine` and `LastDay`.

## What the runs check

| Run | Question | Bounds |
|---|---|---|
| `Seats` | is a seat ever oversold, and do the transactions implement the pool, while nobody edits the row? | 2 admissions, 1 hold request answered twice, 1 hold; capacities none, 1, 2 and a negative one, requests for 1 seat or for a negative number |
| `SeatsEdits` | what of the pool remains when both screens edit, and does every call end? | 1 call of each kind; capacities none, 0 and 1, requests for 1 seat |
| `SeatsDoubleApproval` | may a hold request be answered twice? (it may) | 2 answers of 1 request |
| `Fees` | does the plan implement the ledger, and are numbers, transaction ids, stages and completions right? do finance admin's books agree, and does what is generated, approved or answered stand? | plan: 2–3 instalments, 2 calls, 1 month, 2 receipt numbers; books: 13 slices; 2 expenses, 2 templates, 2 employees, 2 months, amounts to 2, 2 calls |
| `Path` | do status, clock, review and certificate request agree, and does the sync settle? | 3 uses by one call at a time, 3 by two; 2 days, 3 tracks |
| `Enrolment` | is a second live enrolment always asked for? | 3 sub-batches for serial use, 2 for overlapping, 2 requests |
| `EnrolBackDoor` | may a status change bring an enrolment back unasked? (it may, in bulk) | 2 sub-batches |
| `Classroom` | does attendance follow the sessions, has a series one class a day, does anything stay behind? | 8 slices; 1 class held for up to 4 instants with 3 joins, or 3 planned over 9 dates; 2 calls |
| `Sales` | do tasks agree with leads and demos, is once once, is what is due settled? | 10 slices; 3 leads, 2 phones, 2 demos (3 rows), 3 instants, 2 notifications, 2 recordings, 2 attempts, 2 calls |
| `Learning` | do the students' records agree, does what was said or decided stand? | 41 slices; 2 students, 2 addresses and a sheet of 2 rows, 2 questions, 3 days, 2 attempts, 2 templates, 1 declaration, 2 devices, 2 calls |
| `CertStranded` | does a request that both have approved get its number? (it may not) | 1 student, 2 certificates made by hand |
| `Staff` | do joiners, papers, leave, days and exits agree? | 19 slices, each about one of the four parts; 2 people, 2 requests, 2 slots of documents, 2 leave and 2 comp off requests, leaves of 1, 2 or -1 days, 3 instants, 2 calls |

Most properties are conjunctions of named parts, each with its comment:
`UsedOnce` (receipt numbers and transaction ids), `ApprovalsCount` (the stage goes
forward, the last approval completes), `PoolEntered`, `MovesForward`, `RequestsAgree`,
`RosterAgrees`, `NothingLeftRunning` (`RecordingSettles`, `GuestsLeave`), `TasksAgree`
(`FollowUpsAgree`, `DemoTasksAgree`), `DoneOnce`, `SalesSettles` (`RoomsClose`,
`EventsSettle`, `TranscriptsSettle`), `RecordsAgree` (`ExamsAgree`, `WorkAgrees`,
`CertsAgree`, `DrivesAgree`, `ReadyIsSeen`, `SaidOnce`, and `EntryAgrees`: `FlagsAgree`,
`DevicesAgree`, `IntakeAgrees`), `BooksAgree` (`LedgerAgrees`, `VouchersDiffer`,
`StampedOnce`, `DeletedOnce`, `TrailTells`, `PayrollTold`, `AnswersHeard`), `BooksStand`
(`MonthStamped`, `WholePayroll`), `Settled` (`ExamStands`, `IssuedStands`, `SignaturesStay`), `JoiningAgrees`
(`InTurn`, `JoinersFiled`, `PapersAgree`), `LeaveAgrees`, `DayAgrees`, `NoStep`
(`NeverOverdrawn`, `StaffStays`, `VerifiedStays`).

Why these bounds suffice: the hazards are a read made stale by one other call,
or a row meeting one other row. Two calls in flight give every such pair
(slots are reused, so any sequence of calls of any length is covered), two rows
every pair of rows; a third instalment, sub-batch or lead is there for the cases
"one remains", "moved from elsewhere to elsewhere" and "merged, then there
again". Two receipt numbers, capacities to two, attempts to two, three
violations, two unanswered calls reach the limits that are compared. A slice
combines endpoints that write the same rows; with this many components not every
combination of endpoints is explored. Runs check with deadlock checking off since calls end and rows
run out; that started calls do end is `EveryCallEnds` where a lock could stop
them.

The three failing runs are disagreements between the code and its own words:

* `SeatsDoubleApproval` / `ReleasedOnce`: the PENDING check of a seat hold
  request is made before the row lock and not repeated under it, so two
  overlapping approvals take its seats off the hold twice.
* `EnrolBackDoor` / `NoBackDoor`: "Re-activating an enrollment must not become
  a back door around the double-enrollment approval" — the single update
  checks, the bulk status change does not.
* `CertStranded` / `ApprovedIsIssued`: a certificate's number is the count of
  the history plus one. After a row of the history was deleted it is taken, the
  write fails, both approvals stay recorded and neither can be given again. The
  certificates of a batch had the same fault and say how it was repaired there.

### Fairness

Safety needs none. `SeatsEdits` assumes weak fairness of the steps of a call that
has *started*: the event loop resumes an awaited call, and InnoDB grants a
released row lock. No call has to start. `Path` assumes in addition strong
fairness of the sync job, per call slot: the job runs daily inside the server
whatever requests arrive, but shares the model's two slots with them.
`SyncSettles` concerns only behaviours in which marks eventually stop changing.

`Classroom` assumes that started calls go on, that the minute job runs, and that
LiveKit reports an egress that has ended (it retries its webhooks). `Sales`
assumes that started calls go on, and the minute jobs run: the transcription run
weakly, the two that take a slot of the model from the calls (closing rooms,
retrying notifications) strongly, for the reason given above; and that a row left
PROCESSING grows old, which is the clock. The integration with Meta stays
switched on where `EventsSettle` says anything. `Learning`, `Accounts` and `Staff` have
no liveness property: no job there repairs what a call left.

## What is proved

`tlapm` checks the eight `…_proofs` modules, for every value of the constants: any
number of calls, rows, seats, people and days, any choice of endpoints. Each
proof has the same shape. The invariant a run checks is seldom inductive,
because a handler relies on what it read before; so the inductive invariant
adds, for each statement a call may stand before, **what of its earlier reads
is still so**. Its parts are named in the module: a type part (`TypeOK`, and the
shape of a call by its `pc`, or the statements in its list), a part that holds
however calls overlap, and a part under the same premise as the property
(`SerialInv`: at most one call under way, and all it read still holds). Per
module one lemma says that each step keeps a part; action properties follow
from the invariant in the step's first state.

| Theorem | States | What it rests on |
|---|---|---|
| `Seats_proofs` `TypeCorrect` | `TypeOK` | releases are capped by what is held |
| `LockProtectsSeat` | the inductive `IInv` | `LockInv`: exactly the calls inside a transaction hold the row. `ReservedInv`: a seat counted as free is free until the admission commits. `CommitAdmission` looks at nothing, it relies on a count made two steps before |
| `SeatsNeverOversold` | `NeverOversold`: with `Editors = {}`, until a negative number of seats is asked for, and of the capacities the engine reads: a HYBRID row's `capacity` it does not | `IInv`, and that holds and bookings start within the capacity; `NoneNegative`: who asked for no negative number releases none. Without the premises it is false (below) |
| `SeatsImplementPool` | `ImplementsPool` | each step is a step of `SeatPool` or invisible, whoever edits the row |
| `FeePlan_proofs` `FeesTyped` | `TypeOK` | the shape of calls |
| `NothingCountsTwice` | `UsedOnce` | `NumberInv`, for any overlap: a number inserted in an open transaction is in no other and not in the ledger. `ReferenceInv`, one call at a time: a submitted payment bears no rejection, so the look at the live ones finds its id |
| `ApprovedMoneyStays` | `MoneyKept` | which calls write a paid row at all |
| `ApprovalsReachPlanAndLead` | `ApprovalsCount` | `StillTrue`: the approval's count of what is left, and the stage it saw |
| `PlanKeepsLedger` | `ImplementsLedger` | the same, each step one of `FeeLedger` or invisible: one call at a time, as the property says |
| `Enrolment_proofs` `EnrolmentTyped` | `TypeOK` | the shape of calls |
| `RequestsAndRowsAgree` | `RequestsAgree` | `ScheduleInv`, for any overlap: rows and requests belong to open sub-batches, one being opened is named by its own call, an approval is about its request's sub-batch unless that is gone; else the approval's commit could make a row in another |
| `NobodyIsStranded` | `NeverStranded` | `CommitRow`: a commit brings its row to life, or fails as a whole and retires nothing |
| `AnswersAreFinal`, `AdditionsAreApproved` | `AnswersStand`, `AdditionNeedsApproval` | `StillTrue`: "elsewhere", read before the transaction, still holds in it for one call at a time |
| `StudentPath_proofs` `PathTyped` | `TypeOK` | `ClockInv`: each call that still holds the clock for stopped may start it once more, so it starts at most as often as calls can overlap |
| `PoolHasGates` | `PoolEntered` | `GateInv`: what a push between its reads and its write has made sure of. `RequestInv`: the certificate request is there or its call is on the way |
| `ClockStartsOnce`, `StatusMovesForward` | `ClockKept`, `MovesForward` | `StillTrue`; `TransferInv`: only an edit by hand transfers |
| `Staff_proofs` `ExitTyped` | `TypeOK` of `Exit`, and the status each call carries | without the latter typing is not inductive |
| `ResignedCleared` | `LeavesCleared`, for any overlap: RESIGNED by an exit, or by HR's form, which asks for no clearance (below); an exit date by an exit only | `SignedInv`: a standing signature was given, a call about to complete an exit has seen the other side's, one past its own has both in the history. The history matters: the signature seen may have been withdrawn since |
| `StatusSaysAnswers` | `AnswersAgree` | a call alone computes the combined status from answers that are still the row's |
| `LeaveAndDayTyped` | `TypeOK` of `Leave` and `Attendance` in every behaviour of the office | `TakingInv`, `DayTyped`: what each call carries. Hours, total days and days credited stay natural numbers; days used and pending are integers that may fall below zero (below) |
| `BalancesAgree` | `LeaveAgrees` | `BalanceInv`: the balance is the sum of the requests, days below zero taken off, but for the moves calls still have to make. `AnswerInv`: a request is answered by one call. `CompInv`, `CreditInv`: a day off has one standing request and is credited once its call is through |
| `NeverMoreThanLeft` | `NeverOverdrawn`, of the step in which an application reserves | `RoomInv`: the check's balance is still that of the write, whatever the lengths of the requests before it |
| `DayIsOne` | `DayAgrees` | `HoursInv`: the hours lack only those of the session being closed. `CorrectionInv`: what is corrected is approved, or its call is about to say so. `WfhInv` |
| `Joining_proofs` `OfficeTyped` | `StaffTypeOK` | the statements in every call's list are well formed, requests waiting name a person |
| `NothingIsTaken` | `NoStep` | `EmployedInv`: employees have their login, and the lists of calls are **in an order** that keeps it so (a sheet files a row only right after employing its person). `VerifiedInv`: a list that replaces or deletes a document found it not verified |
| `ExitInOffice` | `AnswersAgree`, and `LeavesCleared` with its exception | `ExitInside`: a behaviour of the office is one of `Exit` |
| `Books_proofs` `BooksHold` | `BooksStand`: `MonthStamped`, `WholePayroll`, what is approved or answered stands | `BooksInv`: which statements a call alone may stand before, and by which it is known what it is about. `Covered`: each active template has its expense of the month or a statement still to come. `Whole`: each active employee's slip is written, ready or still to be read, and says what is on file; a processing that opens finds no slip |
| `Desk_proofs` `JoinersAgree` | `JoiningAgrees`: `InTurn`, `JoinersFiled`, `PapersAgree` | `CallsInv`: a list holds statements of its own endpoint only. `AgreeInv`, the nine families below |

`JoiningAgrees` speaks of the moments between calls, with a premise of its own in
each part (no edits of addresses, no hires, nobody deletes a document). The
tables disagree *within* a call, so each family of `AgreeInv` says under such a
premise what the tables hold **unless the next statement of a list mends it**,
and what the statements left rely on: a request read as PENDING still is, a code
still is nobody's, a document to be replaced still is unverified.

* However calls overlap: `OwnFiles` (no two requests of one employee); while
  nobody verifies, or rewrites a letter, at the same time, also `SeenInv` (what is
  verified is the file HR saw) and `MailInv` (what was mailed is the letter's text);
  without a crash and while nobody is hired outside onboarding, no request is
  removed and no address corrected in between, also `FiledInv` (who is employed has
  a request, or the next statement files or links it).
* One call at a time, after a crash too: `KeptInv` (one document a person, at most
  one mail of a letter; without a crash a document's file is in the store, or put
  there next).
* One call at a time, each run to its end: `LinksInv` (a request past approval is
  linked to the employee of its address), `ProfileInv` (a complete profile is filled
  in), `FinalInv` (who has the final word is on probation no more, or the next
  statement activates), `WaitingInv` (who waits for approval is not employed, or is
  linked next), `CodesInv` (a login without employee gets one in the same sheet).

That each statement keeps each family is a lemma per family and kind of statement
(hiring, a row of a sheet, an answer, a mark). What a statement cannot touch is
settled once, by what it writes: `FileWrote`, `PersonWrote`, `PaperWrote`, `LetterWrote`
in `Joining_proofs`.

Two things recur. Sums over requests and sessions are cardinalities (`Amount`
counts pairs of a row and one of its units; `Net` takes off that of the negative
numbers), so that what a step adds to a sum is a lemma about finite sets
(`AmountGains`, `AmountAdd`, `AmountRemove`, `AmountRaised`). And a
call of the office is a sequence of statements, about which the invariant
speaks by position; the lemmas `Running`, `WentOn` and `WentRest` say what the rest of
a list keeps, after which each statement is a case.

Assumed are the named `ASSUME`s of the modules only. They say that sets of calls
and rows are finite (`CallsFinite`, `DaysFinite`, `SchedulesFinite`, `SlotsFinite`,
`Finite`, `BooksFinite`), bounds natural numbers, that a model value standing for "no row" is no
row, and that `Uses`, `BookUses` and `Duties` have the right shape. Those with content:

* `NumbersTyped` (`Seats`): capacities are integers from -1 up, which stands for any
  below zero, and the numbers of seats asked for any integers.
* `DutiesShape` (`Staff`): a sheet of employees has a row. The bulk entry refuses
  an empty array.
* `Bounds` (`Staff`): the statuses `Offered` to an answer are those a leave request
  can have. `LeaveAgrees` says more only where it is offered PENDING ones.
* `EditorsKnown`, `TracksKnown`: the two screens and the four tracks there are.

The proofs asked for some of these: the models allowed a sheet without rows, an
answer to a leave in a status none has, and any number of calls at once, where
the starts of a student's clock have no bound either.

Only model-checked:

* Liveness (`EveryCallEnds`, `SyncSettles`, `NothingLeftRunning`, `SalesSettles`): the
  prover has no rules for fairness and ENABLED.
* `RosterAgrees` and the second half of `OnePerDay`: attendance is a sum over
  sessions made by a walk, the dates of a series are a walk over days; what a
  walk computes for every length needs an induction that is not available.
* The properties of `Classroom`, `Sales` and `Learning`, whose calls are, in the two
  latter, such lists too.
* `BooksAgree`: its ledger and budgets are sums over rows, made by a fold.

## What overlapping calls do

Seen in the models, by removing a premise or checking a property without it, or
read in the code where a model leaves the case out. Those a property would meet
stand behind its premise.

Seats
* a rejection that overlaps an approval leaves the request REJECTED with its
  seats released;
* a capacity is lowered, or a mode changed, below what an admission has booked
  between the editor's count and its write; Production's editor never counts;
* without overlap: `addSchedule` stores a `capacity` in HYBRID rows and none per
  mode, though the schema says "capacity above is the seat cap for THIS schedule"
  and "`capacity` stays null on Hybrid rows" (`schema.prisma`); `reserveSeat` then
  takes both modes for unlimited and books past it, with no editor at work;
* without overlap: `createSeatHoldRequest` takes any number, and approving a
  request for a negative one raises the hold, over seats that are booked already;
  no screen refuses a negative capacity, which gives no seat.

Fees
* two approvals of one instalment make two ledger rows; of the last two
  instalments, neither sees the other and the plan stays ACTIVE;
* the sweep turns an instalment collected since its list was loaded OVERDUE;
* a payment submitted before a refund and approved after it turns the
  REFUNDED plan COMPLETED (no overlap needed);
* undo deletes a payment approved between its check and its deletion;
* a stage computed from an earlier sum is written over a later one;
* one transaction id is taken twice by overlapping payments; and
  `collectInstallment` looks at no id, and keeps an earlier rejection's mark;
* `recordPayment` revives a plan before it validates the payment;
* `approveDeletePlan` leaves the onboarding naming a plan that is gone.

Finance administration, payroll, permission hours
* two expenses filed at once get one voucher number; two generations of a month
  stamp a template twice; two edits leave a trail that tells the older one last,
  and a stop between row and log leaves a change no log tells of;
* a month approved while a second call still processes it goes back to review
  with other slips, its employees told already, and is approved and told again; an
  answer that overlaps another leaves the asker with both messages;
* without overlap: after a deletion the next voucher takes a number that is in
  use, as does one typed in; an expense whose date is edited out of its month
  is stamped again; the edit takes any status of an expense, a PAID one too; a
  stop half-way leaves slips in a DRAFT that processing again does not take back
  from who has left since; a deleted vendor stays in the templates, and the
  first of them then fails every generation of a month.

Leave
* overlapping applications overdraw the balance; two approvals of one comp
  off credit two days; of two first credits one insert is refused after its
  request was stamped APPROVED, and the day is lost;
* without any overlap, answering a comp off leave takes off pending days that
  its application never added (`apply` skips comp off, the answers do not), so
  `pendingDays` goes below zero; a request answered again moves the balance again;
  an end before the start makes a request of zero or negative days, which no
  balance refuses: approved, it takes `usedDays` below zero; until it is answered
  it frees days that others have reserved;
* a crash between status and balance is never repaired.

Attendance
* two check-ins open two sessions, two check-outs count one twice; an approval
  and a rejection of one correction leave it corrected and REJECTED;
* without overlap: `regularize` writes typed times with no approval at all, a
  correction leaves the sessions as they were, and a request for WFH can never
  be approved because the enum lacks it.

Student path
* sign-in and sync write a status decided on an old row over a newer one; two
  pushes start the clock twice, and a change of track to JRP may slip between
  a push's check and its write;
* without overlap: an edit to IN_PLACEMENT and a bulk change start no clock, the
  push by codes asks for no presentation, the bulk push takes placed students
  back.

Enrolment
* two enrolments each find the student nowhere else; two PENDING requests for
  one sub-batch; an approval and a rejection of one request; an approval that
  saw the row ACTIVE leaves it as a drop in between left it; an enrolment is
  lost to the deletion of its sub-batch;
* without overlap: the bulk change is a back door, and a move that names an
  enrolment that is not ACTIVE skips the check.

Classes
* cancelling a class while its start goes on leaves it CANCELLED with its room
  open and recorded; two starts make two recordings and two hosts, and one that
  comes late revives a class that is over; two departures of one person write
  `leftAt` over each other, also past the end;
* a webhook that comes before the recording's row is stored leaves the row
  RECORDING for good;
* a guest whose entry was checked before the minute job put it out comes back
  in, and one whose request was cancelled inside is never put out;
* without overlap: a host that reconnects becomes a co-trainer; taking the
  attendance over sets ABSENT and keeps the mode, which marking by hand clears
  (`trainerPortal.controller.ts:241`).

Sales
* two calls that set a follow-up leave two open tasks; a merge that overlaps a
  booking leaves rows on the removed lead; the job that closes rooms overwrites
  an outcome given since its list was loaded; two hosts that enter together
  start two recordings; two calls create two leads with one phone;
* two deliveries, or a delivery and a retry, in process at once make two leads;
  an event RECEIVED when the process stopped is never retried;
* a transcript rescued after its last attempt is PENDING and never taken again;
  a recording replaced while it is transcribed gets the old text;
* without overlap: "every booked demo is a task" (`salesFlow.ts:8`) is not so for
  imported leads, leads of nobody and leads pulled back; booking a demo for a
  lost lead leaves its `lostReason`; merging leaves two open follow-ups; a lead
  made from an unmatched call has no `phoneKey` and is not looked up; a room
  left by a reschedule stays open until the job closes it.

Tests and coursework
* two gradings of one attempt overwrite each other, an answer saved between the
  grading's reads and its write leaves a mark that does not fit it, a violation
  is lost when two are counted together; a sheet of questions fails on every row
  once one in the middle was deleted;
* a project is REVIEWED with a version nobody saw, and a portfolio APPROVED with
  such a text, when it is handed in again meanwhile;
* without overlap: an attempt whose time is up stays IN_PROGRESS until it is
  polled and cannot be given again before; starting a test accepts an enrolment
  of any status, its list only ACTIVE ones; no deadline of a project or a form
  is enforced; a form cannot be edited once answered; a moved deadline keeps
  the log, so its reminders are not sent again, or twice after a stop between
  mail and log.

Certificates and offers
* two approvals that finalize together take one number, and one of the requests
  is stranded as after a deletion; a certificate made by hand in between leaves
  two rows of one request; two generations of a batch compete for numbers;
* a drive deleted while a result is recorded leaves that result without drive
  and company; overlapping lists or selections mail twice; a stop between the
  result and the student's status is never repaired;
* without overlap: the number of a deleted certificate is given again, by hand
  as much as in a batch.

Intake
* a deletion answered twice at once is refused the second time, and a request
  withdrawn between the look and the transaction is carried out all the same;
* without overlap: the count a sheet's codes go on from includes no deleted
  student, so a code may be given again; a student in a live class, in placement
  training or with a certificate request cannot be deleted even by force; who has
  placement results only loses them to a deletion that looked before they came.

Student onboarding
* an approval or a signature that overlaps a new declaration leaves the student
  approved, or past its documents, with one unsigned; two signatures together
  may each miss that they are the last; deleting a template takes a signature
  that is being written along;
* a stop between signature and flag leaves the flag unset for good, since signing
  again is refused;
* without overlap: rejecting a student leaves the approval, and deletes the
  signatures that `schema.prisma:2439` says are left alone; withdrawing the last
  unsigned document or declaration sets no flag.

Sign-in
* a request that read the account before a sign-in elsewhere and remembers it
  after lets the old device in for up to 15 seconds; two sign-ins together leave
  sessions of a device that is not bound; a reset link used twice at once sets
  two passwords, and a link mailed meanwhile is wiped;
* a stop between binding and deleting leaves the old sessions;
* without overlap: login from another device takes the account over, while
  `studentDevice.controller.ts:18` and `schema.prisma:549` say it is refused, and
  nothing files the requests these answer any more.

Employee onboarding and papers
* two requests for one address, or a request beside a hire, both come through;
  correcting the address while it is approved gives the login of the old one;
  two sheets pick one code and one of the rows is refused, leaving its login
  without owner (so does a clash inside one sheet);
* HR verifies a file that is being replaced; two uploads make two rows; a letter
  edited while it is approved is mailed as it was not approved; two approvals
  mail it twice;
* a stop between the transaction and the link leaves the request PENDING, and
  every further approval is refused; one between deleting the old file and
  writing the row leaves a row without its file;
* without overlap: an approval deletes the login of a student that never signed
  in; after a removal a new request for somebody employed is stuck; HR's final
  rejection has no check of the status, its approval accepts a profile without
  documents and ends a probation without the casual leave confirmation gives; a
  letter whose mail failed cannot be sent again; the placeholder of a collected
  original counts as uploaded.

Exit
* two sides that approve, or sign, together each miss the other: the
  resignation stays HR_APPROVED or MANAGER_APPROVED, the clearance never
  becomes COMPLETED and nobody is let go; an approval in flight undoes a
  rejection; a signature withdrawn meanwhile still completes an exit;
* without overlap: an approval after the other side's rejection makes the
  resignation active again, beside a newer one; rejecting an answered
  resignation turns a RESIGNED, TERMINATED or probationary employee ACTIVE; a
  clearance goes on though its resignation was rejected; with an approval of
  one side only and no day named, the exit has no date; an employee without a
  manager can never be cleared; HR's employee form (`update` of
  `employee.controller`) writes RESIGNED with no clearance and no exit date,
  against "Status only becomes RESIGNED at _completeExit()" in
  `resignation.controller`.

## Not modelled

`PROJECT.json` lists every component with its reason. In the modelled ones:
amounts of money (an instalment is one unit), texts, files, most notifications
and mails, who may call what (roles), lists and reports; the documents of an
exit clearance, which nothing reads. Three abstractions cost cases: two tracks
stand for four and one type of document for five, as the code treats them alike;
one project, form and test per class, one drive, one employee's leave, day and
exit; a form always has a required question. A part whose handlers share no row
with the rest of its component (chat, marks, feedback on a module, notes on a
lead, mapping, salaries) is named in the component's note.

The hazards listed in `PROJECT.json` are those the properties are about; the
other overlaps above are listed here only. One listed hazard has no property: a
payment approved after a refund reopens the plan. `FeePlan` shows it, but no
property speaks of a refunded plan: nothing in the repository says what a late
approval should do.

## Plan

Done: the modules above. Next, most important first:

1. `Coupons`: the limit of a coupon against admissions, deletions of plans and
   edits of the limit, composed with the admission's transaction; abstract:
   at most `maxUsage` recorded uses.
2. The jobs that only mail, as one sender that logs after it sends, beside
   `Coursework`'s reminders.

A new question takes the place of a slice or joins an existing run.

Theorems to prove next, in the way of `JoinersAgree`: `TypeOK` and `TasksAgree` of
`Sales`; `DoneOnce`'s first part (a claim makes one reminder) and
`MetaLeads`' one lead per notification for one worker; that an attempt that has
ended stays so (`ExamStands`), for any overlap; `TypeOK` of `Classroom` and
`Learning`, and the first half of `OnePerDay`.
