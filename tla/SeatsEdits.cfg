CONSTANTS
  a1 = a1  a2 = a2  a3 = a3  q1 = q1  q2 = q2  c1 = c1  c2 = c2  h1 = h1  e1 = e1
  Admissions = {a1}
  Requests = {q1}
  Answers = {c1}
  HoldCalls = {h1}
  Edits = {e1}
  Editors = {"admission", "production"}
  Capacities = {0, 1}
  Wanted = {1}
  MaxSeats = 1
CHECK_DEADLOCK FALSE
SPECIFICATION FairSpec
PROPERTIES ImplementsPool EveryCallEnds
