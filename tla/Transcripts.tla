---------------------------- MODULE Transcripts ----------------------------
(***************************************************************************)
(* The transcription queue: rows are put in it when a recording arrives    *)
(* and taken out one at a time by a run of the minute job, or one started  *)
(* by hand; a run that is on keeps the others away.  Whisper is outside:   *)
(* it answers or fails.                                                    *)
(***************************************************************************)
EXTENDS Integers, FiniteSets, Sequences

CONSTANTS
  Recordings,  \* calls and demos with a recording
  MaxAttempts, Batch,
  NoRow

VARIABLES
  use,
  row,     \* CallTranscript of each recording
  stale,   \* PROCESSING rows last written more than 45 minutes ago
  queuer   \* the run that is on

Row == [st : {"none", "PENDING", "PROCESSING", "DONE", "FAILED"}, tries : Nat]
Run == [on : BOOLEAN, pc : {"idle", "rescue", "pick", "mark", "work"},
        r : Recordings \cup {NoRow}, tries : Nat, left : 0 .. Batch]
Off == [on |-> FALSE, pc |-> "idle", r |-> NoRow, tries |-> 0, left |-> 0]

TypeOK ==
  /\ row \in [Recordings -> Row]
  /\ stale \subseteq Recordings
  /\ queuer \in Run

Init ==
  /\ row = [r \in Recordings |-> [st |-> "none", tries |-> 0]]
  /\ stale = {}
  /\ queuer = Off

Unfinished(r) == row[r].st \in {"PENDING", "PROCESSING"}

(* upsertPending with reset: a new recording, or one asked for again.      *)
Enqueue(r) ==
  /\ r \in use.recordings
  /\ row[r].st = "none" \/ "again" \in use.ops
  /\ row' = [row EXCEPT ![r] = [st |-> "PENDING", tries |-> 0]]
  /\ stale' = stale \ {r}
  /\ UNCHANGED queuer

(* 45 minutes go by without a write.                                       *)
Age(r) ==
  /\ row[r].st = "PROCESSING"
  /\ stale' = stale \cup {r}
  /\ UNCHANGED <<row, queuer>>

StartRun ==
  /\ \E r \in Recordings : Unfinished(r)
  /\ ~queuer.on
  /\ \E n \in {1, Batch} : queuer' = [Off EXCEPT !.on = TRUE, !.pc = "rescue", !.left = n]
  /\ UNCHANGED <<row, stale>>

\* Mutant: rows left in PROCESSING stay there.
RescuedNone == {}

Rescued == {r \in stale : row[r].st = "PROCESSING"}

Rescue ==
  /\ queuer.pc = "rescue"
  /\ row' = [r \in Recordings |-> IF r \in Rescued THEN [row[r] EXCEPT !.st = "PENDING"]
                                  ELSE row[r]]
  /\ stale' = stale \ Rescued
  /\ queuer' = [queuer EXCEPT !.pc = "pick"]

(* The oldest first; here any.                                             *)
Pick ==
  LET due == {r \in Recordings : row[r].st = "PENDING" /\ row[r].tries < MaxAttempts} IN
  /\ queuer.pc = "pick"
  /\ \/ (queuer.left = 0 \/ due = {}) /\ queuer' = Off
     \/ /\ queuer.left > 0
        /\ \E r \in due : queuer' = [queuer EXCEPT !.pc = "mark", !.r = r,
                                       !.tries = row[r].tries, !.left = @ - 1]
  /\ UNCHANGED <<row, stale>>

Mark ==
  /\ queuer.pc = "mark"
  /\ row' = [row EXCEPT ![queuer.r] = [st |-> "PROCESSING", tries |-> @.tries + 1]]
  /\ stale' = stale \ {queuer.r}
  /\ queuer' = [queuer EXCEPT !.pc = "work"]

(* The attempts as they were when the row was picked decide.               *)
Finish ==
  /\ queuer.pc = "work"
  /\ \E ok \in BOOLEAN :
       row' = [row EXCEPT ![queuer.r].st =
         IF ok THEN "DONE" ELSE IF queuer.tries + 1 >= MaxAttempts THEN "FAILED" ELSE "PENDING"]
  /\ stale' = stale \ {queuer.r}
  /\ queuer' = [queuer EXCEPT !.pc = "pick", !.r = NoRow]

RunStep == StartRun \/ Rescue \/ Pick \/ Mark \/ Finish

Next ==
  \/ RunStep
  \/ \E r \in Recordings : Enqueue(r) \/ Age(r)
=============================================================================
