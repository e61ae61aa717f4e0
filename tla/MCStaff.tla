------------------------------ MODULE MCStaff ------------------------------
(* Slices of the staff's records: joining and papers by one call at a time *)
(* and by two; leave one call at a time, of every type without comp off,   *)
(* casual leave that may end before it starts, casual and compensatory     *)
(* days together, and compensatory requests of several days; such casual   *)
(* leave with calls overlapping, comp off with calls overlapping while the *)
(* type is switched; check-ins and check-outs, and every endpoint of the   *)
(* day, one call at a time, and approvals with sessions overlapping; two   *)
(* resignations one after the other, one that is approved with every       *)
(* choice of days, and one whose answers overlap while the employee's row  *)
(* is edited.  Leave requests, work dates, the rows of resignations and    *)
(* calls are interchangeable.                                              *)
EXTENDS Staff, TLC

CONSTANTS p1, p2, q1, q2, m1, m2, d1, d2, r1, r2, k1, k2

Slice(part, ops) ==
  [part |-> part, calls |-> {k1}, ops |-> ops, alone |-> {}, people |-> {p1, p2},
   students |-> {}, codes |-> {}, sheets |-> {}, rows |-> 2,
   types |-> {}, sizes |-> {1, 2}, oneAnswer |-> TRUE, until |-> 2]
Overlap(slice, alone) == [slice EXCEPT !.calls = {k1, k2}, !.alone = alone]

Request == {"fileJoiner", "approveJoiner", "rejectJoiner", "correctJoiner"}
Final == {"profile", "handIn", "upload", "finalApprove", "reinitiate"}
Joined == Slice("joining", Request \cup {"myStatus", "removeJoiner"})
JoinedByOne == [Slice("joining", Request \cup Final \cup {"finalReject", "terminate"})
                  EXCEPT !.people = {p1}, !.rows = 1]
JoinedOften == Overlap([Slice("joining", Request \cup {"myStatus"}) EXCEPT !.students = {p2}],
                       {"correctJoiner"})
Entered == [Slice("joining", {"hire", "bulk", "status", "recode", "myStatus"})
              EXCEPT !.codes = {1, 3}, !.sheets = {<<p1>>, <<p1, p2>>}]
EnteredOften == Overlap([Slice("joining", {"bulk", "myStatus", "fileJoiner", "approveJoiner",
                                           "crash"})
                           EXCEPT !.sheets = {<<p1, p2>>}], {"fileJoiner"})

Papered == [Slice("joining", {"hire", "upload", "original", "verify", "collect",
                              "deletePaper", "crash"})
              EXCEPT !.people = {p1}, !.rows = 3]
PaperedOften == Overlap([Slice("joining", {"hire", "upload", "verify", "collect", "deletePaper"})
                           EXCEPT !.people = {p1}], {"hire", "verify"})
Lettered == [Slice("joining", {"hire", "letter", "redraft", "submitLetter", "approveLetter",
                               "rejectLetter", "removeLetter", "superAdmin", "crash"})
               EXCEPT !.people = {p1}]
LetteredOften == Overlap([Slice("joining", {"hire", "letter", "redraft", "submitLetter",
                                            "approveLetter", "rejectLetter"})
                            EXCEPT !.people = {p1}], {"hire", "redraft"})

CompOps == {"submitCompOff", "approveCompOff", "rejectCompOff"}
TakeOps == {"apply", "approve", "reject"}
LeaveOps == TakeOps \cup {"accrueMonthly", "confirm", "setStatus"}
Lengths == {-1, 1, 2}
Taken == [Slice("leave", LeaveOps) EXCEPT !.types = Leaves!Types]
TakenBack == [Slice("leave", TakeOps) EXCEPT !.types = {"CASUAL"}, !.sizes = Lengths]
TakenOff == [Slice("leave", LeaveOps \cup CompOps)
               EXCEPT !.types = {"CASUAL", "COMPENSATORY"}, !.sizes = {1}]
TakenLong == [Slice("leave", TakeOps \cup CompOps) EXCEPT !.types = {"COMPENSATORY"}]
TakenOften == Overlap([Slice("leave", LeaveOps)
                         EXCEPT !.types = {"CASUAL"}, !.sizes = {-1, 2}], {})
Switched == Overlap([Slice("leave", CompOps \cup {"apply", "approve", "switchType"})
                       EXCEPT !.oneAnswer = FALSE, !.types = {"COMPENSATORY"}, !.sizes = {1}], {})

Clocked == Slice("day", Days!DayOps)
Corrected == [Slice("day", Days!Op) EXCEPT !.rows = 1, !.until = 1]
Approved == Overlap([Slice("day", {"checkIn", "checkOut", "applyRegularization",
                                   "approveRegularization"})
                       EXCEPT !.rows = 1, !.until = 1], {})

Resigned == [Slice("exit", {}) EXCEPT !.calls = {}]
MCUses ==
  {[serial |-> TRUE, ops |-> Op \ {"rejectExit", "setStatus", "remove"}, rows |-> 2,
    dates |-> {1}],
   [serial |-> TRUE, ops |-> Op \ {"setStatus", "reject"}, rows |-> 1, dates |-> {1, 2}],
   [serial |-> FALSE, ops |-> Op \ {"setStatus", "remove"}, rows |-> 1, dates |-> {1}],
   [serial |-> FALSE, ops |-> Op \ {"reject", "remove"}, rows |-> 1, dates |-> {1}],
   [serial |-> TRUE, ops |-> {}, rows |-> 0, dates |-> {}]}

MCDuties ==
  {Joined, JoinedByOne, JoinedOften, Entered, EnteredOften, Papered, PaperedOften,
   Lettered, LetteredOften, Taken, TakenBack, TakenOff, TakenLong, TakenOften,
   Switched, Clocked, Corrected, Approved, Resigned}

Symmetric == Permutations({q1, q2}) \cup Permutations({m1, m2})
             \cup Permutations({d1, d2}) \cup Permutations({k1, k2})
             \cup Permutations({r1, r2})
=============================================================================
