CONSTANTS
  a1 = a1  a2 = a2  a3 = a3  q1 = q1  q2 = q2  c1 = c1  c2 = c2  h1 = h1  e1 = e1
  Admissions = {}
  Requests = {q1}
  Answers = {c1, c2}
  HoldCalls = {h1}
  Edits = {}
  Editors = {}
  Capacities <- Few
  Wanted <- Few
  MaxSeats = 2
CHECK_DEADLOCK FALSE
SPECIFICATION Spec
INVARIANT ReleasedOnce
