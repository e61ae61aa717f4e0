------------------------------ MODULE Signing ------------------------------
(***************************************************************************)
(* A student's onboarding: the profile, the documents of its track and the *)
(* fee declarations it signs, and the approval that unlocks its portal.    *)
(* What has to be signed is computed when asked for; the student's row     *)
(* keeps three flags beside it.                                            *)
(***************************************************************************)
EXTENDS Calling

CONSTANTS Templates, Fees  \* places for documents, and for declarations

VARIABLES
  template,  \* the documents every student of their tracks signs
  pupil,     \* the student's track and flags
  signed,    \* the templates it has signed
  declared   \* its fee declarations

Tracks == {"JRP", "IOP"}
Scopes == {{}, {"JRP"}, {"IOP"}}  \* none stands for all
OnboardingDocumentTemplate ==
  [st : {"none", "there", "deleted"}, active : BOOLEAN, tracks : Scopes]
NoTemplate == [st |-> "none", active |-> FALSE, tracks |-> {}]
Shown(tracks) == [st |-> "there", active |-> TRUE, tracks |-> tracks]
StudentDocumentSignature == Templates  \* one of each template
StudentFeeDeclaration == {"none", "unsigned", "signed", "deleted"}
Flags == {"profile", "docs", "approved"}

SigningTypeOK ==
  /\ template \in [Templates -> OnboardingDocumentTemplate]
  /\ pupil \in [track : Tracks, profile : BOOLEAN, docs : BOOLEAN, approved : BOOLEAN]
  /\ signed \subseteq StudentDocumentSignature
  /\ declared \in [Fees -> StudentFeeDeclaration]

(* Unless the behaviour adds them, the documents are there.                *)
SigningInit ==
  /\ \E scopes \in [Templates -> Scopes] :
       /\ "sign" \notin use.ops \/ "template" \in use.ops
            => scopes = [t \in Templates |-> {}]
       /\ template = [t \in Templates |->
            IF "sign" \in use.ops /\ "template" \notin use.ops
            THEN Shown(scopes[t]) ELSE NoTemplate]
  /\ pupil = [track |-> "JRP", profile |-> FALSE, docs |-> FALSE, approved |-> FALSE]
  /\ signed = {}
  /\ declared = [f \in Fees |-> "none"]

signing == <<template, pupil, signed, declared>>
Does(c, op, todo) == Free(c, op) /\ Start(c, op, todo) /\ UNCHANGED signing

Applies(t, track) ==
  /\ template[t].st = "there" /\ template[t].active
  /\ template[t].tracks = {} \/ track \in template[t].tracks

Required(track) ==
  {t \in Templates : Applies(t, track)} \cup {f \in Fees : declared[f] \in {"unsigned", "signed"}}
AllSigned(track) ==
  /\ {t \in Templates : Applies(t, track)} \subseteq signed
  /\ \A f \in Fees : declared[f] # "unsigned"

-----------------------------------------------------------------------------
(* What the office does with documents and declarations.                   *)
PutTemplate(t, row) == [do |-> "putTemplate", t |-> t, row |-> row]

CreateTemplate(c) ==
  \E t \in Templates, tracks \in Scopes :
    /\ template[t].st = "none" \* bound
    /\ Does(c, "template", <<PutTemplate(t, Shown(tracks))>>)

UpdateTemplate(c) ==
  \E t \in Templates, active \in BOOLEAN, tracks \in Scopes :
    /\ template[t].st = "there"
    /\ Does(c, "scope", <<PutTemplate(t, [st |-> "there", active |-> active, tracks |-> tracks])>>)

StoreTemplate(c) ==
  LET it == It(c) IN
  /\ Runs(c, "putTemplate")
  /\ IF call[c].op = "scope" /\ template[it.t].st # "there"
     THEN Fails(c) /\ UNCHANGED template
     ELSE Done(c) /\ template' = [template EXCEPT ![it.t] = it.row]
  /\ UNCHANGED <<pupil, signed, declared>>

\* Mutant: a signed document may be deleted.
DeletableSigned(t) == template[t].st = "there"

Deletable(t) == template[t].st = "there" /\ t \notin signed

DeleteTemplate(c) ==
  \E t \in Templates :
    Deletable(t) /\ Does(c, "dropTemplate", <<[do |-> "dropTemplate", t |-> t]>>)

(* The signatures of a document go with it.                                *)
DropTemplate(c) ==
  LET t == It(c).t IN
  /\ Runs(c, "dropTemplate")
  /\ IF template[t].st = "there"
     THEN /\ Done(c) /\ template' = [template EXCEPT ![t].st = "deleted"]
          /\ signed' = signed \ {t}
     ELSE Fails(c) /\ UNCHANGED <<template, signed>>
  /\ UNCHANGED <<pupil, declared>>

Flag(flags, to) == [do |-> "flag", flags |-> flags, to |-> to]
SetFlags(c) ==
  /\ Runs(c, "flag") /\ Done(c)
  /\ pupil' = [x \in DOMAIN pupil |-> IF x \in It(c).flags THEN It(c).to ELSE pupil[x]]
  /\ UNCHANGED <<template, signed, declared>>

\* Mutant: an approval given before stands.
RelocksDocs == {"docs"}

Relocks == {"docs", "approved"}

CreateFeeDeclaration(c) ==
  Does(c, "declare", <<[do |-> "declare"], Flag(Relocks, FALSE)>>)

Declare(c) ==
  LET free == {f \in Fees : declared[f] = "none"} IN
  /\ Runs(c, "declare") /\ free # {} \* bound
  /\ Done(c)
  /\ \E f \in free : declared' = [declared EXCEPT ![f] = "unsigned"]
  /\ UNCHANGED <<template, pupil, signed>>

DeleteFeeDeclaration(c) ==
  \E f \in Fees :
    declared[f] = "unsigned" /\ Does(c, "undeclare", <<[do |-> "undeclare", f |-> f]>>)

Undeclare(c) ==
  /\ Runs(c, "undeclare")
  /\ IF declared[It(c).f] = "deleted" THEN Fails(c) /\ UNCHANGED declared
     ELSE Done(c) /\ declared' = [declared EXCEPT ![It(c).f] = "deleted"]
  /\ UNCHANGED <<template, pupil, signed>>

-----------------------------------------------------------------------------
(* getOnboardingStatus reads the student, then the three lists; what it    *)
(* finds decides what the caller does next.                                *)
GetOnboardingStatus(for) == <<[do |-> "pupil", for |-> for]>>

ReadPupil(c) ==
  /\ Runs(c, "pupil")
  /\ Goes(c, <<[do |-> "items", for |-> It(c).for, track |-> pupil.track]>>)
  /\ UNCHANGED signing

ReadItems(c) ==
  LET it == It(c)
      all == AllSigned(it.track)
  IN
  /\ Runs(c, "items")
  /\ Goes(c, CASE it.for = "signOff" /\ all -> <<Flag({"approved"}, TRUE)>>
               [] it.for = "sign" /\ all /\ Required(it.track) # {} -> <<Flag({"docs"}, TRUE)>>
               [] it.for = "track" /\ ~all -> <<Flag({"approved"}, FALSE)>>
               [] OTHER -> <<>>)
  /\ UNCHANGED signing

ApproveStudent(c) == pupil.profile /\ Does(c, "signOff", GetOnboardingStatus("signOff"))
UnapproveStudent(c) == pupil.approved /\ Does(c, "undoSignOff", <<Flag({"approved"}, FALSE)>>)

(* The profile is opened again and every signature taken back.             *)
RejectStudent(c) == pupil.profile /\ Does(c, "sendBack", <<[do |-> "sendBack"]>>)
SendBack(c) ==
  /\ Runs(c, "sendBack") /\ Done(c)
  /\ signed' = {}
  /\ declared' = [f \in Fees |-> IF declared[f] = "signed" THEN "unsigned" ELSE declared[f]]
  /\ pupil' = [pupil EXCEPT !.profile = FALSE, !.docs = FALSE]
  /\ UNCHANGED template

(* An approval is looked at again when the track changes.                  *)

\* Mutant: it is not.
RechecksNever(t) == <<>>

Rechecks(t) ==
  IF t # pupil.track /\ pupil.approved THEN GetOnboardingStatus("track") ELSE <<>>

ChangeTrack(c) ==
  \E t \in Tracks : Does(c, "track", <<[do |-> "track", t |-> t]>> \o Rechecks(t))
WriteTrack(c) ==
  /\ Runs(c, "track") /\ Done(c)
  /\ pupil' = [pupil EXCEPT !.track = It(c).t]
  /\ UNCHANGED <<template, signed, declared>>

-----------------------------------------------------------------------------
(* What the student does.  The profile is complete when first saved; then  *)
(* the documents are too, if there is nothing to sign.                     *)
UpdateMe(c) ==
  ~pupil.profile /\ Does(c, "profile", <<[do |-> "require", track |-> pupil.track]>>)

CountRequired(c) ==
  /\ Runs(c, "require")
  /\ Goes(c, <<Flag({"profile"} \cup (IF Required(It(c).track) = {} THEN {"docs"} ELSE {}), TRUE)>>)
  /\ UNCHANGED signing

SignOnboardingDocument(c) ==
  \E t \in Templates :
    /\ Applies(t, pupil.track) /\ t \notin signed
    /\ Does(c, "sign", <<[do |-> "signDoc", t |-> t]>> \o GetOnboardingStatus("sign"))

(* Refused when signed already, or when the document is gone.              *)
StoreSignature(c) ==
  LET t == It(c).t IN
  /\ Runs(c, "signDoc")
  /\ IF t \in signed \/ template[t].st # "there" THEN Fails(c) /\ UNCHANGED signed
     ELSE Done(c) /\ signed' = signed \cup {t}
  /\ UNCHANGED <<template, pupil, declared>>

SignFeeDeclaration(c) ==
  \E f \in Fees :
    /\ declared[f] = "unsigned"
    /\ Does(c, "signFee", <<[do |-> "signFee", f |-> f]>> \o GetOnboardingStatus("sign"))

StoreFeeSignature(c) ==
  /\ Runs(c, "signFee")
  /\ IF declared[It(c).f] = "deleted" THEN Fails(c) /\ UNCHANGED declared
     ELSE Done(c) /\ declared' = [declared EXCEPT ![It(c).f] = "signed"]
  /\ UNCHANGED <<template, pupil, signed>>

SigningNext ==
  \E c \in Calls :
    \/ CreateTemplate(c) \/ UpdateTemplate(c) \/ StoreTemplate(c) \/ DeleteTemplate(c)
    \/ DropTemplate(c) \/ SetFlags(c) \/ CreateFeeDeclaration(c) \/ Declare(c)
    \/ DeleteFeeDeclaration(c) \/ Undeclare(c) \/ ReadPupil(c) \/ ReadItems(c)
    \/ ApproveStudent(c) \/ UnapproveStudent(c) \/ RejectStudent(c) \/ SendBack(c)
    \/ ChangeTrack(c) \/ WriteTrack(c) \/ UpdateMe(c) \/ CountRequired(c)
    \/ SignOnboardingDocument(c) \/ StoreSignature(c) \/ SignFeeDeclaration(c)
    \/ StoreFeeSignature(c)

-----------------------------------------------------------------------------
Without(ops) == use.ops \cap ops = {}

(* Only the student's own calls and its approval overlap others.           *)
Orderly == Serial \/ use.ops \subseteq use.alone \cup {"sign", "signFee", "profile", "signOff"}

(* Between calls none of which was cut short, the flags are what the       *)
(* signatures say: who has signed everything is past that step, unless     *)
(* what has to be signed shrank; who is past it has, unless it grew other  *)
(* than by a declaration; and so has who is approved, whatever its track,  *)
(* unless it was sent back afterwards.  An approved student has a profile. *)
FlagsAgree(crashed) ==
  LET all == AllSigned(pupil.track) IN
  AllIdle =>
    /\ Orderly /\ ~crashed =>
         /\ Without({"scope", "track", "dropTemplate", "undeclare"}) =>
              (pupil.profile /\ Required(pupil.track) # {} /\ all => pupil.docs)
         /\ Without({"template", "scope", "track"}) => (pupil.docs => all)
         /\ Without({"template", "scope", "sendBack"}) => (pupil.approved => all)
    /\ Without({"sendBack"}) => (pupil.approved => pupil.profile)

(* A signature is only taken back by sending the student back.             *)
SignaturesStay ==
  Orderly /\ (\A c \in Calls : ~Runs(c, "sendBack")) =>
    /\ signed \subseteq signed'
    /\ \A f \in Fees : declared[f] = "signed" => declared'[f] = "signed"
=============================================================================
