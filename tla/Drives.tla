------------------------------- MODULE Drives -------------------------------
(***************************************************************************)
(* Placements: the softskill sessions and their rosters; a recruitment     *)
(* drive of a partner, its shortlist, its interviews and its results, and  *)
(* the offers made outside of it.                                          *)
(***************************************************************************)
EXTENDS Portal

VARIABLES
  session,    \* the softskill session was created
  invited,    \* mails about the session to each student
  drive,      \* the drive: not yet there, there, or deleted
  shortlist,  \* its candidates
  results,    \* results and interviews: of the drive, or of a company
  placed      \* the students whose status is PLACED

(* from: recorded of the drive; told counts the offer mails.               *)
Result ==
  [kind : {"result", "interview"}, s : Students, from : BOOLEAN, drive : BOOLEAN,
   company : {"none", "partner", "other"}, st : {"PENDING", "SELECTED"}, told : Nat]

DrivesTypeOK ==
  /\ session \in BOOLEAN /\ invited \in [Students -> Nat]
  /\ drive \in {"none", "open", "gone"} /\ shortlist \subseteq Students
  /\ results \in Seq(Result) /\ placed \subseteq Students

DrivesInit ==
  /\ session = (use.side = "course") /\ invited = [s \in Students |-> 0]
  /\ drive = "none" /\ shortlist = {} /\ results = <<>> /\ placed = {}

fixed == <<now, form, release>>
drives == <<roster, session, invited, drive, shortlist, results, placed>>
Ask(c, op, todo) == Free(c, op) /\ Start(c, op, todo) /\ UNCHANGED <<fixed, drives>>
Keeps == UNCHANGED <<fixed, roster, session, invited>>

-----------------------------------------------------------------------------
(* A session is created with its roster; those added later are mailed, the *)
(* others not again.                                                       *)
CreateSoftskillSession(c) ==
  \E S \in SUBSET use.students :
    ~session /\ Ask(c, "session", <<[do |-> "session", who |-> S]>>)

\* Mutant: everyone asked for is mailed, whoever is on the roster.
NewcomersAll(S) == S

Newcomers(S) == S \ roster

AddStudentsToSession(c) ==
  \E S \in SUBSET use.students \ {{}} :
    /\ session /\ use.side = "session"
    /\ Ask(c, "enlist", IF Newcomers(S) = {} THEN <<>>
                        ELSE <<[do |-> "enlist", who |-> Newcomers(S)]>>)

(* The rows that are there already are skipped; the mails are not.         *)
Enlist(c) ==
  /\ \/ Runs(c, "session") /\ session' = TRUE
     \/ Runs(c, "enlist") /\ UNCHANGED session
  /\ Done(c)
  /\ roster' = roster \cup It(c).who
  /\ invited' = [s \in Students |-> invited[s] + IF s \in It(c).who THEN 1 ELSE 0]
  /\ UNCHANGED <<fixed, drive, shortlist, results, placed>>

-----------------------------------------------------------------------------
CreateDrive(c) == drive = "none" /\ Ask(c, "drive", <<[do |-> "drive"]>>)

StoreDrive(c) ==
  /\ Runs(c, "drive") /\ Done(c) /\ drive' = "open"
  /\ Keeps /\ UNCHANGED <<shortlist, results, placed>>

(* Deleting: what hangs on the drive is counted first; with force, the     *)
(* results and interviews are detached and given the partner's name.       *)
OfDrive(r) == r.drive
History == shortlist # {} \/ \E i \in DOMAIN results : OfDrive(results[i])

DeleteDrive(c) ==
  \E force \in BOOLEAN :
    /\ drive = "open" /\ (History => force)
    /\ Ask(c, "dropDrive", <<[do |-> "dropDrive", detach |-> History]>>)

\* Mutant: the detached rows do not get the partner's name.
DetachedBare(r) == [r EXCEPT !.drive = FALSE]

Detached(r) == IF r.drive THEN [r EXCEPT !.drive = FALSE, !.company = "partner"] ELSE r

(* Without the detaching the database clears the link of what came since,  *)
(* and refuses if a candidate came since.                                  *)
DropDrive(c) ==
  LET it == It(c)
      held == ~it.detach /\ shortlist # {}
  IN
  /\ Runs(c, "dropDrive") /\ Done(c)
  /\ IF drive # "open" \/ held THEN UNCHANGED <<drive, shortlist, results>>
     ELSE /\ drive' = "gone" /\ shortlist' = {}
          /\ results' = [i \in DOMAIN results |->
               IF it.detach THEN Detached(results[i]) ELSE [results[i] EXCEPT !.drive = FALSE]]
  /\ Keeps /\ UNCHANGED placed

AddDriveCandidate(c, s) ==
  drive # "none" /\ Ask(c, "candidate", <<[do |-> "candidate", s |-> s]>>)

StoreCandidate(c) ==
  /\ Runs(c, "candidate") /\ Done(c)
  /\ shortlist' = IF drive = "open" THEN shortlist \cup {It(c).s} ELSE shortlist
  /\ Keeps /\ UNCHANGED <<drive, results, placed>>

-----------------------------------------------------------------------------
Creating(c, op, s, kind, st, then) ==
  \E company \in {"none", "other"}, d \in BOOLEAN :
    /\ Len(results) < use.rows \* bound
    /\ d => drive # "none"
    /\ Ask(c, op,
         <<[do |-> "row",
            row |-> [kind |-> kind, s |-> s, from |-> d, drive |-> d, st |-> st, told |-> 0,
                     company |-> IF d /\ kind = "result" THEN "none" ELSE company]]>> \o then)

CreateInterview(c, s) == Creating(c, "interview", s, "interview", "PENDING", <<>>)

(* A selected student is placed, and mailed, after the result is there.    *)
CreateResult(c, s) ==
  \E st \in {"PENDING", "SELECTED"} :
    Creating(c, "result", s, "result", st,
             IF st = "SELECTED" THEN <<[do |-> "place", s |-> s], [do |-> "tell", i |-> 0]>>
             ELSE <<>>)

StoreRow(c) ==
  LET it == It(c) IN
  /\ Runs(c, "row")
  /\ IF it.row.drive /\ drive # "open" THEN Fails(c) /\ UNCHANGED results
     ELSE /\ results' = Append(results, it.row)
          /\ Goes(c, [n \in DOMAIN Rest(c) |->
               IF Rest(c)[n].do = "tell" THEN [Rest(c)[n] EXCEPT !.i = Len(results) + 1]
               ELSE Rest(c)[n]])
  /\ Keeps /\ UNCHANGED <<drive, shortlist, placed>>

\* Mutant: a selected result that is saved again tells the student again.
TurnsSelectedAgain(r, st) == st = "SELECTED"

TurnsSelected(r, st) == st = "SELECTED" /\ r.st # "SELECTED"

UpdateResult(c, i) ==
  \E st \in {"PENDING", "SELECTED"} :
    /\ results[i].kind = "result" /\ (results[i].st = "SELECTED" => st = "SELECTED")
    /\ Ask(c, "update", <<[do |-> "result", i |-> i, st |-> st]>> \o
                        IF TurnsSelected(results[i], st)
                        THEN <<[do |-> "place", s |-> results[i].s], [do |-> "tell", i |-> i]>>
                        ELSE <<>>)

StoreResult(c) ==
  /\ Runs(c, "result") /\ Done(c)
  /\ results' = [results EXCEPT ![It(c).i].st = It(c).st]
  /\ Keeps /\ UNCHANGED <<drive, shortlist, placed>>

Place(c) ==
  /\ Runs(c, "place") /\ Done(c)
  /\ placed' = placed \cup {It(c).s}
  /\ Keeps /\ UNCHANGED <<drive, shortlist, results>>

NotifyOfferReceived(c) ==
  /\ Runs(c, "tell") /\ Done(c)
  /\ results' = [results EXCEPT ![It(c).i].told = @ + 1]
  /\ Keeps /\ UNCHANGED <<drive, shortlist, placed>>

DrivesNext ==
  \E c \in Calls :
    \/ CreateSoftskillSession(c) \/ AddStudentsToSession(c) \/ Enlist(c)
    \/ CreateDrive(c) \/ StoreDrive(c) \/ DeleteDrive(c) \/ DropDrive(c)
    \/ \E s \in use.students :
         AddDriveCandidate(c, s) \/ CreateInterview(c, s) \/ CreateResult(c, s)
    \/ \E i \in DOMAIN results : UpdateResult(c, i)
    \/ StoreCandidate(c) \/ StoreRow(c) \/ StoreResult(c) \/ Place(c)
    \/ NotifyOfferReceived(c)

-----------------------------------------------------------------------------
(* Between calls, where one runs at a time: what was recorded of a drive   *)
(* still names its company after the drive is deleted; and whoever has a   *)
(* selected result is placed and was told of it, unless the process        *)
(* stopped.                                                                *)
DrivesAgree(stopped) ==
  Serial /\ AllIdle =>
    /\ \A i \in DOMAIN results :
         /\ results[i].drive => drive = "open"
         /\ results[i].from => results[i].drive \/ results[i].company # "none"
    /\ ~stopped => \A i \in DOMAIN results :
         results[i].st = "SELECTED" => results[i].s \in placed /\ results[i].told = 1

(* Where one call runs at a time, a student is mailed about the session,   *)
(* and about an offer, once.                                               *)
ToldOnce ==
  Serial => /\ \A s \in Students : invited[s] <= 1
            /\ \A i \in DOMAIN results : results[i].told <= 1
=============================================================================
