CONSTANTS
  k1 = k1  k2 = k2  s1 = s1  s2 = s2  s3 = s3  r1 = r1  r2 = r2
  Calls = {k1}
  Uses <- BulkScreen
  Schedules = {s1, s2}
  Requests = {r1, r2}
CHECK_DEADLOCK FALSE
SPECIFICATION Spec
PROPERTY NoBackDoor
