\* One class held, or three planned; a trainer and a student, a guest, two
\* calls at a time.
CONSTANTS
  c1 = c1
  c2 = c2
  c3 = c3
  Classes = {c1, c2, c3}
  t1 = t1
  Trainers = {t1}
  s1 = s1
  Students = {s1}
  Requests = {q1}
  k1 = k1
  k2 = k2
  Calls = {k1, k2}
  Uses <- MCUses
  Slots = {1}
  MaxNow = 4
  MaxRows = 3
  LastDate = 9
  PresentPct = 80
  PartialPct = 40
  Window = 1
  NoClass = NoClass
  Nobody = Nobody
  NoRequest = NoRequest
SPECIFICATION Spec
INVARIANTS TypeOK RosterAgrees OnePerDay
PROPERTIES NothingLeftRunning
CHECK_DEADLOCK FALSE
