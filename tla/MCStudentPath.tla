--------------------------- MODULE MCStudentPath ----------------------------
(* Small instances of StudentPath: one call at a time with the endpoints   *)
(* that promise most, with those that guard the pool and with all; the     *)
(* pushes, with an edit by hand and without, and the sync, with calls      *)
(* overlapping.                                                            *)
EXTENDS StudentPath, TLC

CONSTANTS k1, k2, d1, d2

ClassOps == {"login", "markAttendance", "sync"}
ReviewOps == {"markPresentation", "upsertFeedback"}
Alone(ops) == [serial |-> TRUE, ops |-> ops]
Together(ops) == [serial |-> FALSE, ops |-> ops]
UsesChecked ==
  {Alone(Op \ ByHand), Alone(Op \ {"updateStudent", "pushByCodes"}), Alone(Op),
   Together({"markPresentation", "pushToPlacements", "pushByCodes", "updateStudent"}),
   Together(ReviewOps \cup {"pushToPlacement", "pushToPlacements", "bulkPush", "select"}),
   Together(ClassOps)}
=============================================================================
