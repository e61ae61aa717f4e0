----------------------------- MODULE MetaLeads -----------------------------
(***************************************************************************)
(* Leads from Meta's lead ads: each notification is an event, processed    *)
(* when it arrives, by the minute job while it is FAILED, and by hand.     *)
(* Meta is outside: it notifies, perhaps more than once, and answers or    *)
(* does not when asked for the lead.                                       *)
(***************************************************************************)
EXTENDS Integers, FiniteSets, Sequences, SequencesExt, TLC

CONSTANTS
  Leads, Phones, People,
  Events,      \* leadgen ids
  Workers,     \* the notifications that may be in process at once
  MaxAttempts, \* the job gives up after this many
  NoEvent, Nobody

VARIABLES
  use,
  lead,  \* LeadBook
  event, \* MetaLeadEvent
  meta,  \* MetaLeadConfig: enabled, and whose turn it is
  work   \* the notifications in process

Status == {"none", "RECEIVED", "PROCESSED", "DUPLICATE", "FAILED"}
Event == [st : Status, tries : 0 .. MaxAttempts, p : Phones]
Work == [pc : {"idle", "read", "fetch", "check", "owner", "create", "settle", "fail"},
         e : Events \cup {NoEvent}, who : People \cup {Nobody}, more : Seq(Events)]
Idle == [pc |-> "idle", e |-> NoEvent, who |-> Nobody, more |-> <<>>]

TypeOK ==
  /\ event \in [Events -> Event]
  /\ meta \in [on : BOOLEAN, turn : Nat]
  /\ \A w \in Workers : work[w] \in Work

Init ==
  /\ event = [e \in Events |-> [st |-> "none", tries |-> 0, p |-> CHOOSE p \in Phones : TRUE]]
  /\ meta = [on |-> TRUE, turn |-> 0]
  /\ work = [w \in Workers |-> Idle]

Settled(e) == event[e].st \in {"PROCESSED", "DUPLICATE"}
Free(w) == w \in use.workers /\ work[w].pc = "idle"
At(w, pc) == work[w].pc = pc
Then(w, pc) == work' = [work EXCEPT ![w].pc = pc]
(* The job goes on with the next event of its list.                        *)
Onward(w) ==
  LET todo == work[w].more IN
  work' = [work EXCEPT ![w] =
    IF todo = <<>> THEN Idle
    ELSE [Idle EXCEPT !.pc = "read", !.e = Head(todo), !.more = Tail(todo)]]
SetEvent(e, st) == event' = [event EXCEPT ![e].st = st]

-----------------------------------------------------------------------------
(* A notification, the first or a repetition; where the integration is     *)
(* switched off a new event is kept as FAILED.                             *)
Receive(w, e) ==
  /\ "notify" \in use.ops /\ Free(w)
  /\ \E p \in use.phones :
       event' = [event EXCEPT ![e] =
         IF @.st # "none" THEN @
         ELSE [@ EXCEPT !.p = p, !.st = IF meta.on THEN "RECEIVED" ELSE "FAILED"]]
  /\ work' = IF meta.on THEN [work EXCEPT ![w] = [Idle EXCEPT !.pc = "read", !.e = e]] ELSE work
  /\ UNCHANGED <<lead, meta>>

Retry(w, e) ==
  /\ "retry" \in use.ops /\ Free(w) /\ event[e].st \in {"RECEIVED", "FAILED"}
  /\ work' = [work EXCEPT ![w] = [Idle EXCEPT !.pc = "read", !.e = e]]
  /\ UNCHANGED <<lead, event, meta>>

\* Mutant: the job takes up to one attempt less.
DueFewer(e) == event[e].st = "FAILED" /\ event[e].tries < MaxAttempts - 1

Due(e) == event[e].st = "FAILED" /\ event[e].tries < MaxAttempts

RetryFailed(w) ==
  LET due == SetToSeq({e \in Events : Due(e)}) IN
  /\ Free(w) /\ meta.on
  /\ due # <<>>
  /\ work' = [work EXCEPT ![w] = [Idle EXCEPT !.pc = "read", !.e = Head(due), !.more = Tail(due)]]
  /\ UNCHANGED <<lead, event, meta>>

Switch ==
  /\ "switch" \in use.ops
  /\ meta' = [meta EXCEPT !.on = ~@]
  /\ UNCHANGED <<lead, event, work>>

-----------------------------------------------------------------------------
(* processLeadgen                                                          *)

(* An event already settled is returned untouched.                         *)
ReadEvent(w) ==
  /\ At(w, "read")
  /\ IF Settled(work[w].e) THEN Onward(w) ELSE Then(w, "fetch")
  /\ UNCHANGED <<lead, event, meta>>

(* The attempt is counted (here up to MaxAttempts), then Meta is asked.     *)
Fetch(w) ==
  /\ At(w, "fetch")
  /\ event' = [event EXCEPT ![work[w].e].tries = IF @ < MaxAttempts THEN @ + 1 ELSE @]
  /\ \E answered \in BOOLEAN : Then(w, IF answered THEN "check" ELSE "fail")
  /\ UNCHANGED <<lead, meta>>

\* Mutant: a lead with this phone is not looked for.
KnownNever(p) == FALSE

(* findDuplicateLead *)
Known(p) == \E k \in Leads : lead[k].live = "live" /\ lead[k].key /\ lead[k].phone = p

CheckDuplicate(w) ==
  /\ At(w, "check")
  /\ \/ /\ Known(event[work[w].e].p)
        /\ SetEvent(work[w].e, "DUPLICATE") /\ Onward(w)
     \/ /\ ~Known(event[work[w].e].p)
        /\ Then(w, "owner") /\ UNCHANGED event
  /\ UNCHANGED <<lead, meta>>

(* Round robin, over the salespeople chosen; nobody where none is.         *)
PickOwner(w) ==
  LET ids == SetToSeq(use.owners \ {Nobody}) IN
  /\ At(w, "owner")
  /\ meta' = IF ids = <<>> THEN meta ELSE [meta EXCEPT !.turn = (@ + 1) % Len(ids)]
  /\ work' = [work EXCEPT ![w].pc = "create",
                          ![w].who = IF ids = <<>> THEN Nobody ELSE ids[meta.turn + 1]]
  /\ UNCHANGED <<lead, event>>

CreateLead(w) ==
  LET k == CHOOSE k \in Leads : lead[k].live = "none" IN
  /\ At(w, "create")
  /\ lead' = [lead EXCEPT ![k] =
       [live |-> "live", phone |-> event[work[w].e].p, owner |-> work[w].who,
        src |-> work[w].e] @@ @]
  /\ Then(w, "settle")
  /\ UNCHANGED <<event, meta>>

Settle(w) ==
  /\ At(w, "settle")
  /\ SetEvent(work[w].e, "PROCESSED") /\ Onward(w)
  /\ UNCHANGED <<lead, meta>>

Fail(w) ==
  /\ At(w, "fail")
  /\ SetEvent(work[w].e, "FAILED") /\ Onward(w)
  /\ UNCHANGED <<lead, meta>>

Proceed(w) ==
  \/ ReadEvent(w) \/ Fetch(w) \/ CheckDuplicate(w) \/ PickOwner(w)
  \/ CreateLead(w) \/ Settle(w) \/ Fail(w)

Next ==
  \/ Switch
  \/ \E w \in Workers :
       \/ RetryFailed(w) \/ Proceed(w)
       \/ \E e \in Events : Receive(w, e) \/ Retry(w, e)
=============================================================================
