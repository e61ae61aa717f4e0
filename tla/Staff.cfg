\* Two people, two requests, two documents of each; two calls at a time; two
\* leave requests, two days off; a day of three instants with two sessions.
CONSTANTS
  p1 = p1  p2 = p2  q1 = q1  q2 = q2  m1 = m1  m2 = m2  d1 = d1  d2 = d2  r1 = r1  r2 = r2  k1 = k1  k2 = k2
  Calls = {k1, k2}
  Duties <- MCDuties
  People = {p1, p2}
  Files = {1, 2}
  Slots = {1, 2}
  MaxCode = 4
  Nobody = Nobody
  Reqs = {q1, q2}
  CompReqs = {m1, m2}
  Sizes <- Lengths
  Dates = {d1, d2}
  Offered = {"PENDING"}
  Yearly = 2
  MaxTotal = 3
  NoReq = NoReq  NoDate = NoDate
  Requests = {q1}
  Asked = {"HALF_DAY", "WFH"}
  TypedHours = {1}
  Half = 1  Full = 2
  EndOfDay = 2
  MaxSessions = 2
  NoRequest = NoRequest
  Rows = {r1, r2}
  Uses <- MCUses
  Typed = {"ON_LEAVE", "RESIGNED"}
  MaxDay = 2
  NoRow = NoRow
SPECIFICATION StaffSpec
SYMMETRY Symmetric
INVARIANTS StaffTypeOK JoiningAgrees LeaveAgrees DayAgrees AnswersAgree
PROPERTIES NoStep LeavesCleared
CHECK_DEADLOCK FALSE
