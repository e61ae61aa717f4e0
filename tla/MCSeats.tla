------------------------------ MODULE MCSeats -------------------------------
(* Small instances of Seats.  The calls are interchangeable.               *)
EXTENDS Seats, TLC

CONSTANTS a1, a2, a3, q1, q2, c1, c2, h1, e1

(* Numbers a request body may carry: some that make sense and one that does *)
(* not.                                                                     *)
Few == {-1, 1}
Some == {-1, 1, 2}

CallSymmetry == Permutations({a1, a2, a3}) \cup Permutations({c1, c2})
                  \cup Permutations({q1, q2})
=============================================================================
