------------------------------- MODULE Portal -------------------------------
(***************************************************************************)
(* What the trainer's and the student's portals share: the clock, who is   *)
(* on the list of the class, and what is released to it.  A behaviour is   *)
(* about one class, a sub-batch of a course (trainerPortal) or a softskill *)
(* session (placementTraining, which mirrors it), to which one project,    *)
(* one feedback form and one test can be released.  A call in flight is    *)
(* the sequence of its statements still to run, each with what the reads   *)
(* before it found.                                                        *)
(***************************************************************************)
EXTENDS Calling

CONSTANTS
  Students,
  MaxNow    \* bound: the last instant

VARIABLES
  now,
  roster,   \* who is enrolled, or on the session's roster
  release,  \* of the project, the form and the test
  form      \* the version of the form's questions, 0 if there is none

Kinds == {"project", "form", "test"}
Release == [st : {"none", "ACTIVE", "CLOSED"}, due : 0 .. MaxNow]  \* due 0: no deadline

TypeOK ==
  /\ now \in 1 .. MaxNow
  /\ roster \subseteq Students
  /\ release \in [Kinds -> Release] /\ form \in Nat
  /\ CallsTypeOK

Init ==
  /\ now = 1
  /\ roster = IF use.side = "course" THEN use.students ELSE {}
  /\ release = [k \in Kinds |-> [st |-> "none", due |-> 0]]
  /\ form = 1
  /\ CallsInit

-----------------------------------------------------------------------------
(* Releasing again reopens the release with the deadline now given.        *)
Publish(c, k) ==
  \E due \in use.dues :
    /\ k \in use.kinds /\ Free(c, "release")
    /\ Start(c, "release", <<[do |-> "release", k |-> k,
                              data |-> [st |-> "ACTIVE", due |-> due]]>>)
    /\ UNCHANGED <<now, roster, form, release>>

ReleaseProject(c) == use.side = "course" /\ Publish(c, "project")
ReleaseFeedbackForm(c) ==
  use.side = "course" /\ form # 0 /\ Publish(c, "form")
ReleasePlacementProject(c) == use.side = "session" /\ Publish(c, "project")

Withdraw(c, k) ==
  /\ Free(c, "release") /\ release[k].st # "none"
  /\ Start(c, "release", <<[do |-> "release", k |-> k,
                            data |-> [release[k] EXCEPT !.st = "CLOSED"]]>>)
  /\ UNCHANGED <<now, roster, form, release>>

CloseRelease(c) == use.side = "course" /\ \E k \in Kinds : Withdraw(c, k)
ClosePlacementRelease(c) ==
  use.side = "session" /\ \E k \in {"project", "test"} : Withdraw(c, k)

(* A form that was deleted meanwhile took its release along.               *)
WriteRelease(c) ==
  LET it == It(c)
      gone == \/ it.k = "form" /\ form = 0
              \/ it.data.st = "CLOSED" /\ release[it.k].st = "none"
  IN
  /\ Runs(c, "release") /\ Done(c)
  /\ release' = IF gone THEN release ELSE [release EXCEPT ![it.k] = it.data]
  /\ UNCHANGED <<now, roster, form>>

Next ==
  \E c \in Calls :
    \/ ReleaseProject(c) \/ ReleaseFeedbackForm(c) \/ ReleasePlacementProject(c)
    \/ CloseRelease(c) \/ ClosePlacementRelease(c) \/ WriteRelease(c)
=============================================================================
