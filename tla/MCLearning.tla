----------------------------- MODULE MCLearning -----------------------------
(* Slices of the students' side: tests by one call at a time and by two,    *)
(* of a course and of a session; projects, forms and reminders; portfolios, *)
(* certificates and batches of them; sessions, drives and offers; students *)
(* entered and deleted; onboarding and sign-in.                             *)
EXTENDS Learning, TLC

CONSTANTS s1, s2, k1, k2, a1, a2

Slice(ops) ==
  [side |-> "course", calls |-> {k1}, ops |-> ops, alone |-> {}, students |-> {s1},
   kinds |-> {"test"}, dues |-> {0}, confess |-> {FALSE}, rows |-> 1, until |-> 1]
Overlap(slice, alone) == [slice EXCEPT !.calls = {k1, k2}, !.alone = alone]

Sitting == {"release", "start", "poll", "save", "violate", "submit"}
Tested == [Slice(Sitting \cup {"reassign"}) EXCEPT !.rows = 2, !.until = 2]
Written == Slice({"author", "release", "start", "save", "submit"})
TestedSession == [Slice(Sitting \cup {"session"}) EXCEPT !.side = "session", !.confess = BOOLEAN]
TestedAtOnce == Overlap([Slice({"release", "start", "save", "violate", "submit"})
                           EXCEPT !.until = 1], {"release", "save"})
TestedAgain == Overlap([Slice({"release", "start", "poll", "violate", "submit", "reassign"})
                          EXCEPT !.rows = 2, !.until = 2], {"release"})
WrittenAtOnce == Overlap(Slice({"author", "release", "start", "save"}), {"release", "start", "save"})
Marked == [Slice({"submitProject", "review", "release", "kra", "session"})
             EXCEPT !.kinds = {"project"}, !.rows = 2]
MarkedSession == [Marked EXCEPT !.side = "session"]
Answered == Overlap([Slice({"release", "saveForm", "answer", "dropForm", "crash"})
                       EXCEPT !.kinds = {"form"}], {})
Logged == Overlap(Slice({"kra", "named"}), {})
Reminded == Overlap([Slice({"release", "submitProject", "remind"})
                       EXCEPT !.kinds = {"project"}, !.students = {s1, s2}, !.dues = {3},
                              !.until = 2], {"release"})
RemindedLater == [Slice({"release", "start", "submit", "answer", "remind", "bounce"})
                    EXCEPT !.kinds = {"form", "test"}, !.dues = {3}, !.until = 2]
RemindedSooner == [RemindedLater EXCEPT !.dues = {2}]
RemindedMoved == [Slice({"release", "submitProject", "remind"})
                    EXCEPT !.kinds = {"project"}, !.dues = {2, 3}, !.until = 3]
RemindedStopped == [Slice({"release", "submitProject", "remind", "crash"})
                      EXCEPT !.kinds = {"project"}, !.students = {s1, s2}, !.dues = {3},
                             !.until = 3]
Readied == [Slice({"release", "submitProject", "review", "portfolio", "approvePortfolio",
                   "rejectPortfolio", "removePortfolio", "crash"})
              EXCEPT !.kinds = {"project"}, !.rows = 2]
ReadiedAtOnce == Overlap(Slice({"portfolio", "approvePortfolio", "rejectPortfolio",
                                "removePortfolio", "approve"}), {})
Issued == Overlap([Slice({"portfolio", "approvePortfolio", "approve", "hand"})
                     EXCEPT !.students = {s1, s2}], {"portfolio", "approvePortfolio"})
IssuedInTurn == [Slice({"portfolio", "approvePortfolio", "approve", "hand"})
                   EXCEPT !.students = {s1, s2}, !.rows = 2]
Stranded == [Slice({"portfolio", "approvePortfolio", "approve", "hand", "unhand"})
               EXCEPT !.rows = 2]
Batched == [Slice({"generate", "unaward"}) EXCEPT !.students = {s1, s2}, !.rows = 4]
BatchedAtOnce == Overlap([Batched EXCEPT !.rows = 2], {"unaward"})
Enlisted == [Slice({"session", "enlist"}) EXCEPT !.side = "session", !.students = {s1, s2}]
Driven == [Slice({"drive", "dropDrive", "candidate", "interview", "result", "update", "crash"})
             EXCEPT !.rows = 2]
DrivenAtOnce == Overlap(Slice({"drive", "dropDrive", "candidate", "result"}), {"drive"})

Unlocking == {"profile", "sign", "signOff"}
Onboarded == Slice(Unlocking \cup {"template", "scope", "dropTemplate"})
OnboardedByFee == Slice(Unlocking \cup {"dropTemplate", "signFee", "declare", "undeclare", "undoSignOff", "crash"})
OnboardedTracks == Slice(Unlocking \cup {"signFee", "declare", "track"})
OnboardedAgain == Slice(Unlocking \cup {"signFee", "declare", "sendBack"})
OnboardedAtOnce == Overlap(Slice(Unlocking \cup {"signFee", "declare", "track"}),
                           {"declare", "track", "sign"})
Redocumented == Overlap(Slice({"sign", "template", "dropTemplate", "scope"}), {"template", "sign", "scope"})
Redeclared == Overlap(Slice({"profile", "signOff", "signFee", "declare", "undeclare", "sign"}), {"sign"})
SignedIn == [Slice({"signIn", "refresh", "signOut", "request", "device", "resetDevice", "crash"}) EXCEPT !.rows = 2]
SignedInAtOnce == Overlap([SignedIn EXCEPT !.ops = (@ \ {"crash"}) \cup {"inTurn"}],
                          {"signOut", "request"})
SignedInAnyhow == Overlap([Slice({"signIn", "refresh", "request"}) EXCEPT !.rows = 1], {})
Forgotten == [Slice({"forgot", "useLink"}) EXCEPT !.rows = 2]
ForgottenAtOnce == Overlap(Forgotten, {})

R(code, mail, joins) == [code |-> code, mail |-> mail, class |-> joins]
MCSheets == {<<R(0, NoAddress, TRUE), R(0, a1, FALSE)>>, <<R(1, a1, TRUE)>>}
Removing == {"bulk", "askDelete", "cancelDelete", "approveDelete"}
Both == {s1, s2}
Enrolled == [Slice(Removing \cup {"newStudent", "crash"}) EXCEPT !.students = Both]
Removed == [Slice(Removing \cup {"record", "dropBatch"}) EXCEPT !.students = Both]
EnrolledAtOnce == Overlap([Slice({"newStudent", "bulk", "dropBatch"}) EXCEPT !.students = Both], {})
RemovedAtOnce == Overlap(Slice(Removing \cup {"record"}), {"bulk"})

MCUses == {Enrolled, Removed, EnrolledAtOnce, RemovedAtOnce,
           Tested, Written, TestedSession, TestedAtOnce, TestedAgain, WrittenAtOnce, Marked, MarkedSession, Answered,
           Logged, Reminded, RemindedLater, RemindedSooner, RemindedMoved, RemindedStopped, Readied, ReadiedAtOnce, Issued, IssuedInTurn,
           Stranded, Batched, BatchedAtOnce, Enlisted, Driven, DrivenAtOnce,
           Onboarded, OnboardedByFee, OnboardedTracks, OnboardedAgain, OnboardedAtOnce,
           Redocumented, Redeclared, SignedIn, SignedInAtOnce, SignedInAnyhow, Forgotten, ForgottenAtOnce}
MCStranded == {Stranded}
=============================================================================
