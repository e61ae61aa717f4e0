------------------------------ MODULE Learning ------------------------------
(***************************************************************************)
(* The students' side: tests, projects, feedback forms and reminders       *)
(* (Coursework), portfolios and certificates (Certificates), and           *)
(* placements (Drives), over the releases and the roster of one class      *)
(* (Portal); before them, how students enter and leave (Intake), and one   *)
(* student's onboarding (Signing) and its sign-in (SignIn).  The process   *)
(* may stop once, between any two statements.                              *)
(***************************************************************************)
EXTENDS Integers, FiniteSets, Sequences

CONSTANTS
  Students, Calls, MaxNow, Questions, Duration, NoAttempt, Before, Tries,
  NoRequest, Uses,
  Templates, Fees, Devices, Changes, Nothing,
  Addresses, NoAddress, Taken, MaxCode, Sheets

VARIABLES
  use, now, roster, release, form, call, paper, exam, made, work, reply,
  mailed, logged, ran, topics, folio, request, history, award,
  session, invited, drive, shortlist, results, placed, crashed,
  template, pupil, signed, declared,
  bound, sessions, cached, change, latest, link,
  entrant, removal, batch

Class == INSTANCE Portal
Course == INSTANCE Coursework
Certs == INSTANCE Certificates
Jobs == INSTANCE Drives
Arrival == INSTANCE Intake
Entry == INSTANCE Signing
Access == INSTANCE SignIn

ASSUME UsesShape ==
  \A u \in Uses :
    /\ u.side \in {"course", "session"} /\ u.calls \subseteq Calls
    /\ u.ops \subseteq STRING /\ u.alone \subseteq STRING
    /\ u.students \subseteq Students /\ u.dues \subseteq 0 .. MaxNow
    /\ u.kinds \subseteq Class!Kinds
    /\ u.confess \subseteq BOOLEAN /\ u.rows \in Nat /\ u.until \in 1 .. MaxNow
ASSUME Apart == Nothing \notin Devices /\ NoAddress \notin Addresses /\ Taken \subseteq Addresses
ASSUME SheetsShape == MaxCode \in Nat /\ Sheets \subseteq Seq(Arrival!Row)
ASSUME Bounds ==
  /\ {MaxNow, Duration, Tries} \subseteq Nat \ {0} /\ Before \subseteq Nat \ {0}

tests == <<paper, exam, made>>
works == <<work, reply, mailed, logged, ran, topics>>
certs == <<folio, request, history, award>>
jobs == <<session, invited, drive, shortlist, results, placed>>
entry == <<template, pupil, signed, declared>>
access == <<bound, sessions, cached, change, latest, link>>
intake == <<entrant, removal, batch>>
vars == <<use, now, roster, release, form, call, tests, works, certs, jobs, entry, access,
          intake, crashed>>

Init ==
  /\ use \in Uses /\ crashed = FALSE
  /\ Class!Init /\ Course!ExamInit /\ Course!CourseworkInit
  /\ Certs!CertInit /\ Jobs!DrivesInit
  /\ Arrival!IntakeInit /\ Entry!SigningInit /\ Access!SignInInit

KeepClass ==
  Class!Next /\ UNCHANGED <<use, tests, works, certs, jobs, entry, access, intake, crashed>>
KeepTests ==
  Course!ExamNext /\ UNCHANGED <<use, works, certs, jobs, entry, access, intake, crashed>>
KeepCourse ==
  Course!CourseworkNext /\ UNCHANGED <<use, certs, jobs, entry, access, intake, crashed>>
KeepCerts ==
  Certs!CertNext /\ UNCHANGED <<use, tests, works, jobs, entry, access, intake, crashed>>
KeepJobs ==
  Jobs!DrivesNext /\ UNCHANGED <<use, tests, works, certs, entry, access, intake, crashed>>
class == <<use, now, roster, release, form, tests, works, certs, jobs, crashed>>
KeepIntake == Arrival!IntakeNext /\ UNCHANGED <<class, entry, access>>
KeepEntry == Entry!SigningNext /\ UNCHANGED <<class, access, intake>>
KeepAccess == Access!SignInNext /\ UNCHANGED <<class, entry, intake>>

(* The morning job ends within its day.                                    *)
Tick ==
  /\ now < use.until \* bound
  /\ \A c \in Calls : call[c].op # "remind"
  /\ Class!Serial => Class!AllIdle
  /\ now' = now + 1
  /\ UNCHANGED <<use, roster, release, form, call, tests, works, certs, jobs, entry, access,
                 intake, crashed>>

(* What the process remembered is lost.                                    *)
Crash ==
  /\ "crash" \in use.ops /\ ~crashed
  /\ crashed' = TRUE /\ call' = [c \in Calls |-> Class!Idle]
  /\ cached' = Access!Expired
  /\ UNCHANGED <<use, now, roster, release, form, tests, works, certs, jobs, entry, intake,
                 bound, sessions, change, latest, link>>

Next ==
  KeepClass \/ KeepTests \/ KeepCourse \/ KeepCerts \/ KeepJobs
  \/ KeepIntake \/ KeepEntry \/ KeepAccess \/ Tick \/ Crash

Spec == Init /\ [][Next]_vars

-----------------------------------------------------------------------------
TypeOK ==
  /\ use \in Uses /\ crashed \in BOOLEAN
  /\ Class!TypeOK /\ Course!ExamTypeOK /\ Course!CourseworkTypeOK
  /\ Certs!CertTypeOK /\ Jobs!DrivesTypeOK
  /\ Arrival!IntakeTypeOK /\ Entry!SigningTypeOK /\ Access!SignInTypeOK

(* computeReadiness: a student in the pool is ready once every capstone    *)
(* project released to the class is reviewed and the portfolio is          *)
(* approved; who has no class needs no project.                            *)

\* Mutant: a project that was handed in is enough.
ReadyUnreviewed(s) ==
  /\ s \in roster => release["project"].st # "none" /\ work[s].st # "none"
  /\ folio[s].st = "APPROVED"

Ready(s) ==
  /\ s \in roster => release["project"].st # "none" /\ work[s].st = "REVIEWED"
  /\ folio[s].st = "APPROVED"

(* Between calls, where one runs at a time and none was cut short: of a    *)
(* student who is ready, staff have seen the work and the portfolio as     *)
(* they are now, the portfolio's page is up and a certificate asked for.   *)
ReadyIsSeen ==
  Class!Serial /\ Class!AllIdle /\ ~crashed =>
    \A s \in roster : Ready(s) =>
      /\ work[s].seen = work[s].handed
      /\ folio[s].slug /\ folio[s].seen = folio[s].text
      /\ request[s] # NoRequest

(* Who is there has a login and a code of its own, the log of deletions    *)
(* tells of the others, the flags that open a student's portal are what it *)
(* signed, and the device its account is on is the last it was given to.   *)
EntryAgrees ==
  /\ Arrival!IntakeAgrees(crashed)
  /\ Entry!FlagsAgree(crashed) /\ Access!DevicesAgree(crashed)

(* Reminders, invitations and offers go out once.                          *)
SaidOnce == Course!RemindedOnce /\ Jobs!ToldOnce

(* The records of tests, work, certificates and placements agree, and so   *)
(* do those of how a student entered; what goes out once has.              *)
RecordsAgree ==
  /\ Course!ExamsAgree
  /\ Course!WorkAgrees
  /\ crashed \/ Certs!CertsAgree
  /\ Jobs!DrivesAgree(crashed)
  /\ ReadyIsSeen
  /\ EntryAgrees /\ SaidOnce

(* What was graded, answered, issued or signed stands.                     *)
Settled == [][Course!ExamStands /\ Certs!IssuedStands /\ Entry!SignaturesStay]_vars

(* A request that both have approved has its certificate                   *)
(* (certificateRequests.controller.ts, maybeFinalize).                     *)
ApprovedIsIssued == crashed \/ Certs!ApprovedIsIssued
=============================================================================
