\* Up to three leads, two phones, two salespeople, two calls at a time, two
\* notifications and two recordings; three attempts, and three demos and tasks.
CONSTANTS
  l1 = l1
  l2 = l2
  l3 = l3
  Leads = {l1, l2, l3}
  p1 = p1
  p2 = p2
  Phones = {p1, p2}
  o1 = o1
  o2 = o2
  People = {o1, o2}
  k1 = k1
  k2 = k2
  Calls = {k1, k2}
  w1 = w1
  w2 = w2
  Workers = {w1, w2}
  Events = {e1, e2}
  r1 = r1
  r2 = r2
  Recordings = {r1, r2}
  Uses <- MCUses
  MaxNow = 3
  MaxRows = 3
  DnpLimit = 2
  MaxAttempts = 2
  Batch = 2
  RoomTime = 1
  Ahead = 1
  Late = 1
  Nobody = Nobody
  NoEvent = NoEvent
  NoLead = NoLead
  NoRow = NoRow
SPECIFICATION Spec
INVARIANTS TypeOK TasksAgree DoneOnce
PROPERTIES SalesSettles
CHECK_DEADLOCK FALSE
