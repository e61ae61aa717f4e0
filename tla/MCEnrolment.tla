---------------------------- MODULE MCEnrolment -----------------------------
(* Small instances of Enrolment: the endpoints that ask for an approval,   *)
(* one call at a time over three sub-batches; every endpoint, with two     *)
(* calls overlapping, over two.  Calls, schedules and requests are         *)
(* interchangeable.                                                        *)
EXTENDS Enrolment, TLC

CONSTANTS k1, k2, s1, s2, s3, r1, r2

UsesChecked ==
  {[serial |-> TRUE, ops |-> Op \ {"bulk", "move"}, most |-> 3],
   [serial |-> FALSE, ops |-> Op, most |-> 2]}

BulkScreen == {[serial |-> TRUE, ops |-> {"create", "update", "bulk"}, most |-> 2]}

Symmetric == Permutations({k1, k2}) \cup Permutations({s1, s2, s3})
               \cup Permutations({r1, r2})
=============================================================================
